SPECIFICATION Spec
CONSTANTS
    r1 = r1
    r2 = r2
    codex = codex
    claude = claude
    compass = compass
    Requests = {r1, r2}
    Accounts = {codex, compass}
    NoAccount = NoAccount
    Route <- PublicAndShare
    Type <- CodexAndCompass
    RetryLimit <- NoRetries
    MaxAttempts = 2
    Caps = {1}
    MaxCapChanges = 0
    MaxResends = 0
INVARIANTS
    TypeOK
    AdmissionsBalance
    ReservationsReturned
    AnsweredIsClosed
PROPERTIES
    LedgerKept
    EveryDispatchEnds
CHECK_DEADLOCK FALSE
