SPECIFICATION Spec
CONSTANTS
    r1 = r1
    r2 = r2
    codex = codex
    claude = claude
    compass = compass
    Requests = {r1}
    Accounts = {codex, compass}
    NoAccount = NoAccount
    Route <- OnePublic
    Type <- CodexAndCompass
    RetryLimit <- NoRetries
    MaxAttempts = 2
    Caps = {1}
    MaxCapChanges = 0
    MaxResends = 0
INVARIANTS
    DisconnectIsRecorded
CHECK_DEADLOCK FALSE
