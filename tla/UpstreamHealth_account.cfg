\* Account health, with the cooldowns of models and the cooling override that only
\* Claude accounts have: two concurrent attempts, one circuit key.
SPECIFICATION Spec
CONSTANTS
    Attempts = {a1, a2}
    Routes = {r}
    Models = {m}
    Claude = TRUE
    Cooldowns <- LongCooldowns
    ProbeInterval = 2
    CircuitCooldown = 1
    FailureThreshold = 2
    CircuitLimit = 1
    NoLease = NoLease
    MaxTime = 4
    MaxGeneration = 4
    MaxEpoch = 1
    MaxCrashes = 1
SYMMETRY Interchangeable
CHECK_DEADLOCK FALSE
INVARIANTS
    TypeOK
    CooldownAdmitsOnlyTheProbe
    ProbeImpliesCooldown
    PlannerAgreesWithBegin
    HalfOpenHasOneOwner
PROPERTIES
    ReplacedCredentialsAreNotJudged
    SuccessLiftsOnlyOlderCooldown
    OpenClosesOnlyThroughProbe
