\* The early probe of a reset-derived cooldown, with attempts in flight from
\* before the cooldown; no crash and no credential change is needed.
SPECIFICATION Spec
CONSTANTS
    Attempts = {a1, a2}
    Routes = {r}
    Models = {m}
    Claude = FALSE
    Cooldowns <- LongCooldowns
    ProbeInterval = 2
    CircuitCooldown = 1
    FailureThreshold = 2
    CircuitLimit = 1
    NoLease = NoLease
    MaxTime = 5
    MaxGeneration = 3
    MaxEpoch = 0
    MaxCrashes = 0
CHECK_DEADLOCK FALSE
INVARIANTS
    EarlyProbePermitted
