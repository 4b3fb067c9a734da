SPECIFICATION Spec
CONSTANTS
    r1 = r1
    r2 = r2
    codex = codex
    claude = claude
    compass = compass
    Requests = {r1, r2}
    Accounts = {claude, compass}
    NoAccount = NoAccount
    Route <- BothMessages
    Type <- ClaudeAndCompass
    RetryLimit <- OneRetry
    MaxAttempts = 2
    Caps = {1}
    MaxCapChanges = 1
    MaxResends = 1
SYMMETRY Interchangeable
INVARIANTS
    OvershootIsBounded
PROPERTIES
    SpentCapStopsSending
CHECK_DEADLOCK FALSE
