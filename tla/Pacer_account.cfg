\* Three requests for two models under three policies the operator switches.
SPECIFICATION FairSpec
CONSTANTS
    Requests = {r1, r2, r3}
    Models = {m1, m2}
    Policies <- AllPolicies
    MaxTime = 5
    MaxChanges = 1
CHECK_DEADLOCK FALSE
INVARIANTS
    TypeOK
    WakeUpInTime
    StartsAreSpaced
PROPERTIES
    FirstComeFirstStarted
    NoStartAfterDeadline
    EveryWaiterSettles
