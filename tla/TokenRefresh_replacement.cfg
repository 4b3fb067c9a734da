\* A refresh in flight while the operator replaces the credentials: success.
SPECIFICATION Spec
CONSTANTS
    Callers = {c1, c2}
    Kinds = {"request"}
    MaxAttempts = 3
    NoToken = NoToken
    Nothing = Nothing
    MaxReplacements = 1
    MaxFetches = 2
    MaxCrashes = 0
CHECK_DEADLOCK FALSE
INVARIANTS
    CredentialsFollowTheOperator
