\* Three turns of a client without a share, a queue of one, two accounts.
SPECIFICATION Spec
CONSTANTS
    Accounts = {a1, a2}
    NoAccount = NoAccount
    Shared = FALSE
    MaxTurns = 3
    MaxQueued = 1
    MaxResends = 1
    MaxConns = 3
CHECK_DEADLOCK FALSE
PROPERTIES
    OnlyTheActiveTurnIsSent
