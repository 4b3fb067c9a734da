--------------------------- MODULE UpstreamHealth ---------------------------
(***************************************************************************)
(* Health of ONE upstream account as node/src/store.js keeps it: the       *)
(* account cooldown / re-authentication state fenced by `generation`, the  *)
(* per (route, model) circuits fenced by their own generations, and the    *)
(* attempt leases that beginUpstreamAttempt hands out and                  *)
(* settleUpstreamAttempt takes back.  Accounts do not share this state, so *)
(* one account is the whole component.                                     *)
(*                                                                         *)
(* Every Store method is synchronous and so one action; attempts of many   *)
(* requests interleave between a begin and its settle.  Memory is written  *)
(* through to `disk` by saveChanges; a refused begin leaves memory ahead   *)
(* of it until the next save.                                              *)
(***************************************************************************)
EXTENDS Integers, FiniteSets

CONSTANTS
    Attempts,           \* attempt slots: concurrent requests to this account
    Routes, Models,     \* the two halves of a circuit key
    Claude,             \* is the account of type 'claude'?
    Cooldowns,          \* what quotaCooldown can return: [source, duration]
    ProbeInterval,      \* RESET_COOLDOWN_PROBE_INTERVAL_MS
    CircuitCooldown,    \* CIRCUIT_COOLDOWN_MS
    FailureThreshold,   \* CIRCUIT_FAILURE_THRESHOLD
    CircuitLimit,       \* CIRCUIT_LIMIT
    NoLease,            \* a slot without an admission
    MaxTime, MaxGeneration, MaxEpoch, MaxCrashes    \* bounds of the exploration

Sources == {"reset-derived", "retry-after", "default"}

ASSUME HealthAssumption ==
    /\ Claude \in BOOLEAN
    /\ Cooldowns \subseteq [source : Sources, duration : Nat]
    /\ {ProbeInterval, CircuitCooldown, FailureThreshold, CircuitLimit} \subseteq Nat \ {0}
    /\ {MaxTime, MaxGeneration, MaxEpoch, MaxCrashes} \subseteq Nat

VARIABLES
    health,             \* upstream.health
    generation,         \* upstream.healthGeneration
    circuits,           \* upstream.circuits, with absent rows
    circuitSeq,         \* upstream.circuitGenerationSequence
    modelCooldown,      \* upstream.modelHealth: until when, 0 for no row
    coolingDisabled,    \* claudeCoolingDisabled(upstream)
    credentialEpoch,    \* how often the credentials were replaced
    lease,              \* the admission each attempt slot holds
    now,
    disk,               \* the persisted upstream record
    crashes

account == <<health, generation, circuits, circuitSeq, modelCooldown>>
vars == <<account, coolingDisabled, credentialEpoch, lease, now, disk, crashes>>

Keys == Routes \X Models
ModelOf(key) == key[2]

Health == [status : {"none", "cooldown", "reauth_required"}, source : Sources,
           startedAt : Nat, nextEligibleAt : Nat, lastProbeAt : Nat, probeInFlight : BOOLEAN]

Healthy == [status |-> "none", source |-> "default", startedAt |-> 0,
            nextEligibleAt |-> 0, lastProbeAt |-> 0, probeInFlight |-> FALSE]

Circuit == [status : {"absent", "closed", "open", "half_open"}, failures : Nat,
            generation : Nat, probeInFlight : BOOLEAN, updatedAt : Nat, nextProbeAt : Nat]

AbsentCircuit == [status |-> "absent", failures |-> 0, generation |-> 0,
                  probeInFlight |-> FALSE, updatedAt |-> 0, nextProbeAt |-> 0]

Lease == [key : Keys, generation : Nat, probe : BOOLEAN, ignore : BOOLEAN,
          circuitGeneration : Nat, epoch : Nat, startedAt : Nat]

Record == [health : Health, generation : Nat, circuits : [Keys -> Circuit],
           circuitSeq : Nat, modelCooldown : [Models -> Nat]]

ASSUME NoLeaseAssumption == NoLease \notin Lease

Outcomes == {"success", "neutral", "transient", "credential", "quota", "model_quota"}

Live == {a \in Attempts : lease[a] # NoLease}
\* mutant: the settlement is not fenced by the generation
CurrentUnfenced(a) == a \in Live

Current(a) == a \in Live /\ lease[a].generation = generation

-----------------------------------------------------------------------------
(* The account gate of beginUpstreamAttempt *)

CooldownOver(ignore) ==
    health.status = "cooldown" /\ (ignore \/ health.nextEligibleAt <= now)

\* mutant: a probe under way does not keep others out
ProbeDueAgain(ignore) ==
    /\ health.status = "cooldown" /\ ~ ignore
    /\ health.nextEligibleAt > now /\ health.source = "reset-derived"
    /\ health.lastProbeAt + ProbeInterval <= now

ProbeDue(ignore) ==
    /\ health.status = "cooldown"
    /\ ~ ignore
    /\ health.nextEligibleAt > now
    /\ health.source = "reset-derived"
    /\ ~ health.probeInFlight
    /\ health.lastProbeAt + ProbeInterval <= now

AccountAdmits(ignore) ==
    health.status = "none" \/ CooldownOver(ignore) \/ ProbeDue(ignore)

\* What the gate does to the record in memory, whether or not the attempt is
\* then refused further down.
PassAccountGate(ignore) ==
    \/ /\ health.status = "none"
       /\ UNCHANGED <<health, generation>>
    \/ /\ CooldownOver(ignore)
       /\ health' = Healthy
       /\ generation' = generation + 1
    \/ /\ ProbeDue(ignore)
       /\ health' = [health EXCEPT !.probeInFlight = TRUE, !.lastProbeAt = now]
       /\ UNCHANGED generation

ModelBlocks(key, ignore) ==
    Claude /\ ~ ignore /\ ~ coolingDisabled /\ modelCooldown[ModelOf(key)] > now

ForgetModelCooldown(key, ignore) ==
    modelCooldown' = IF ignore THEN [modelCooldown EXCEPT ![ModelOf(key)] = 0]
                               ELSE modelCooldown

-----------------------------------------------------------------------------
(* Circuits *)

CircuitGeneration(key) ==
    IF circuits[key].status = "absent" THEN circuitSeq ELSE circuits[key].generation

CircuitGrants(key) ==
    LET row == circuits[key] IN
    CASE row.status = "open" -> row.nextProbeAt <= now
      [] row.status = "half_open" -> ~ row.probeInFlight \/ row.updatedAt + CircuitCooldown <= now
      [] OTHER -> TRUE

\* mutant: the probe keeps the generation of the row it takes over
TakeCircuitSameGeneration(key) ==
    IF circuits[key].status \in {"open", "half_open"}
    THEN /\ circuits' = [circuits EXCEPT ![key].status = "half_open",
                                         ![key].probeInFlight = TRUE,
                                         ![key].updatedAt = now]
         /\ UNCHANGED circuitSeq
    ELSE UNCHANGED <<circuits, circuitSeq>>

\* beginCircuitLease: an open or half-open row hands out the probe under a
\* generation nobody holds.
TakeCircuit(key) ==
    IF circuits[key].status \in {"open", "half_open"}
    THEN /\ circuitSeq' = circuitSeq + 1
         /\ circuits' = [circuits EXCEPT ![key].status = "half_open",
                                         ![key].generation = circuitSeq + 1,
                                         ![key].updatedAt = now,
                                         ![key].probeInFlight = TRUE]
    ELSE UNCHANGED <<circuits, circuitSeq>>

Present(rows) == {key \in Keys : rows[key].status # "absent"}

\* pruneCircuits: the least recently updated row makes room.
Pruned(rows) ==
    IF Cardinality(Present(rows)) <= CircuitLimit THEN {rows}
    ELSE {[rows EXCEPT ![key] = AbsentCircuit] :
             key \in {k \in Present(rows) :
                         \A other \in Present(rows) : rows[k].updatedAt <= rows[other].updatedAt}}

\* mutant: opening leaves the generation of the attempts in flight valid
CircuitFailureUnfenced(l) ==
    LET key == l.key
        failures == circuits[key].failures + 1
        opens == failures >= FailureThreshold
        row == [status |-> IF opens THEN "open" ELSE "closed",
                failures |-> failures, generation |-> l.circuitGeneration,
                probeInFlight |-> FALSE, updatedAt |-> now,
                nextProbeAt |-> IF opens THEN now + CircuitCooldown ELSE 0]
    IN  /\ UNCHANGED circuitSeq
        /\ IF CircuitGeneration(key) # l.circuitGeneration THEN UNCHANGED circuits
           ELSE circuits' \in Pruned([circuits EXCEPT ![key] = row])

\* recordCircuitLeaseFailure
CircuitFailure(l) ==
    LET key == l.key
        failures == circuits[key].failures + 1
        opens == failures >= FailureThreshold
        row == [status |-> IF opens THEN "open" ELSE "closed",
                failures |-> failures,
                generation |-> IF opens THEN circuitSeq + 1 ELSE l.circuitGeneration,
                probeInFlight |-> FALSE,
                updatedAt |-> now,
                nextProbeAt |-> IF opens THEN now + CircuitCooldown ELSE 0]
    IN  IF CircuitGeneration(key) # l.circuitGeneration
        THEN UNCHANGED <<circuits, circuitSeq>>
        ELSE /\ circuitSeq' = IF opens THEN circuitSeq + 1 ELSE circuitSeq
             /\ circuits' \in Pruned([circuits EXCEPT ![key] = row])

\* completeCircuitLease
CircuitSuccess(l) ==
    LET key == l.key
        probed == circuits[key].status = "half_open"
        row == [AbsentCircuit EXCEPT
                   !.status = "closed",
                   !.generation = IF probed THEN circuitSeq + 1 ELSE l.circuitGeneration,
                   !.updatedAt = now]
    IN  IF circuits[key].status = "absent" \/ circuits[key].generation # l.circuitGeneration
        THEN UNCHANGED <<circuits, circuitSeq>>
        ELSE /\ circuitSeq' = IF probed THEN circuitSeq + 1 ELSE circuitSeq
             /\ circuits' \in Pruned([circuits EXCEPT ![key] = row])

\* releaseCircuitLease
CircuitRelease(l) ==
    LET key == l.key IN
    IF circuits[key].status = "half_open" /\ circuits[key].generation = l.circuitGeneration
    THEN /\ circuitSeq' = circuitSeq + 1
         /\ circuits' = [circuits EXCEPT ![key].generation = circuitSeq + 1,
                                         ![key].updatedAt = now,
                                         ![key].probeInFlight = FALSE]
    ELSE UNCHANGED <<circuits, circuitSeq>>

-----------------------------------------------------------------------------
(* Persistence *)

Memory == [health |-> health, generation |-> generation, circuits |-> circuits,
           circuitSeq |-> circuitSeq, modelCooldown |-> modelCooldown]

Save == disk' = Memory'

-----------------------------------------------------------------------------
(* beginUpstreamAttempt *)

Begin(a, key, ignore) ==
    /\ lease[a] = NoLease
    /\ generation < MaxGeneration /\ circuitSeq < MaxGeneration
    /\ AccountAdmits(ignore)
    /\ ~ ModelBlocks(key, ignore)
    /\ CircuitGrants(key)
    /\ PassAccountGate(ignore)
    /\ ForgetModelCooldown(key, ignore)
    /\ TakeCircuit(key)
    /\ lease' = [lease EXCEPT ![a] =
                    [key |-> key, generation |-> generation', probe |-> ProbeDue(ignore),
                     ignore |-> ignore,
                     circuitGeneration |-> IF circuits[key].status = "absent" THEN circuitSeq
                                           ELSE circuits'[key].generation,
                     epoch |-> credentialEpoch, startedAt |-> now]]
    /\ Save
    /\ UNCHANGED <<coolingDisabled, credentialEpoch, now, crashes>>

\* The account gate lets the attempt through and changes the record, then the
\* model cooldown or the circuit refuses it: nothing is undone, nothing saved.
BeginRefused(key, ignore) ==
    /\ generation < MaxGeneration
    /\ AccountAdmits(ignore)
    /\ ModelBlocks(key, ignore) \/ ~ CircuitGrants(key)
    /\ PassAccountGate(ignore)
    /\ ForgetModelCooldown(key, ignore)
    /\ UNCHANGED <<circuits, circuitSeq, coolingDisabled, credentialEpoch,
                   lease, now, disk, crashes>>

-----------------------------------------------------------------------------
(* settleUpstreamAttempt: one operator per outcome class *)

EndProbe(a) ==
    health' = IF lease[a].probe /\ Current(a) /\ health.status # "none"
              THEN [health EXCEPT !.probeInFlight = FALSE]
              ELSE health

SettleModelQuota(a) ==
    LET m == ModelOf(lease[a].key) IN
    /\ Claude
    /\ IF lease[a].ignore \/ coolingDisabled
       THEN modelCooldown' = [modelCooldown EXCEPT ![m] = 0]
       ELSE \E c \in Cooldowns : modelCooldown' = [modelCooldown EXCEPT ![m] = now + c.duration]
    /\ EndProbe(a)
    /\ CircuitRelease(lease[a])
    /\ UNCHANGED generation

\* mutant: the cooldown ends before it starts
QuotaHealthBackwards(c) ==
    [status |-> "cooldown", source |-> c.source, startedAt |-> now,
     nextEligibleAt |-> now - c.duration, lastProbeAt |-> now, probeInFlight |-> FALSE]

QuotaHealth(c) ==
    [status |-> "cooldown", source |-> c.source, startedAt |-> now,
     nextEligibleAt |-> now + c.duration, lastProbeAt |-> now, probeInFlight |-> FALSE]

SettleQuota(a) ==
    /\ \/ /\ Current(a) /\ ~ lease[a].ignore /\ ~ (Claude /\ coolingDisabled)
          /\ \E c \in Cooldowns :
                health' = QuotaHealth(c)
          /\ generation' = generation + 1
       \/ /\ Current(a) /\ (lease[a].ignore \/ (Claude /\ coolingDisabled))
          /\ health.status = "cooldown"
          /\ health' = Healthy
          /\ generation' = generation + 1
       \/ /\ \/ ~ Current(a)
             \/ (lease[a].ignore \/ (Claude /\ coolingDisabled)) /\ health.status # "cooldown"
          /\ UNCHANGED <<health, generation>>
    /\ CircuitRelease(lease[a])
    /\ UNCHANGED modelCooldown

SettleCredential(a) ==
    /\ IF Current(a)
       THEN /\ health' = [Healthy EXCEPT !.status = "reauth_required", !.startedAt = now]
            /\ generation' = generation + 1
       ELSE UNCHANGED <<health, generation>>
    /\ CircuitRelease(lease[a])
    /\ UNCHANGED modelCooldown

SettleTransient(a) ==
    /\ IF Claude /\ coolingDisabled THEN CircuitRelease(lease[a]) ELSE CircuitFailure(lease[a])
    /\ EndProbe(a)
    /\ UNCHANGED <<generation, modelCooldown>>

SettleSuccess(a) ==
    /\ CircuitSuccess(lease[a])
    /\ modelCooldown' = IF Claude THEN [modelCooldown EXCEPT ![ModelOf(lease[a].key)] = 0]
                                  ELSE modelCooldown
    /\ IF /\ Current(a)
          /\ health.status # "none"
          /\ lease[a].probe \/ (health.status = "cooldown" /\ health.nextEligibleAt <= now)
       THEN health' = Healthy /\ generation' = generation + 1
       ELSE UNCHANGED <<health, generation>>

SettleNeutral(a) ==
    /\ CircuitRelease(lease[a])
    /\ EndProbe(a)
    /\ UNCHANGED <<generation, modelCooldown>>

Settle(a, outcome) ==
    /\ lease[a] # NoLease
    /\ generation < MaxGeneration /\ circuitSeq < MaxGeneration
    /\ \/ outcome = "success" /\ SettleSuccess(a)
       \/ outcome = "neutral" /\ SettleNeutral(a)
       \/ outcome = "transient" /\ SettleTransient(a)
       \/ outcome = "credential" /\ SettleCredential(a)
       \/ outcome = "quota" /\ SettleQuota(a)
       \/ outcome = "model_quota" /\ SettleModelQuota(a)
    /\ lease' = [lease EXCEPT ![a] = NoLease]
    /\ Save
    /\ UNCHANGED <<coolingDisabled, credentialEpoch, now, crashes>>

-----------------------------------------------------------------------------
(* Management operations and the environment *)

\* update() and persistCredentials() with new credentials.
ReplaceCredentials ==
    /\ credentialEpoch < MaxEpoch /\ generation < MaxGeneration
    /\ credentialEpoch' = credentialEpoch + 1
    /\ health' = Healthy
    /\ generation' = generation + 1
    /\ modelCooldown' = [m \in Models |-> 0]
    /\ UNCHANGED <<circuits, circuitSeq>>
    /\ Save
    /\ UNCHANGED <<coolingDisabled, lease, now, crashes>>

\* mutant: clearing a cooldown leaves its probe fenced in
ClearCooldownUnfenced ==
    /\ health.status = "cooldown"
    /\ health' = Healthy
    /\ UNCHANGED <<generation, circuits, circuitSeq, modelCooldown>>
    /\ Save
    /\ UNCHANGED <<coolingDisabled, credentialEpoch, lease, now, crashes>>

\* clearUpstreamCooldown()
ClearCooldown ==
    /\ health.status = "cooldown" /\ generation < MaxGeneration
    /\ health' = Healthy
    /\ generation' = generation + 1
    /\ UNCHANGED <<circuits, circuitSeq, modelCooldown>>
    /\ Save
    /\ UNCHANGED <<coolingDisabled, credentialEpoch, lease, now, crashes>>

\* setQuota(): fresh quota evidence proves the credentials work again.
SetQuota ==
    /\ health.status = "reauth_required" /\ generation < MaxGeneration
    /\ health' = Healthy
    /\ generation' = generation + 1
    /\ UNCHANGED <<circuits, circuitSeq, modelCooldown>>
    /\ Save
    /\ UNCHANGED <<coolingDisabled, credentialEpoch, lease, now, crashes>>

\* The per-credential disable_cooling override changes.
ToggleCooling ==
    /\ Claude
    /\ coolingDisabled' = ~ coolingDisabled
    /\ UNCHANGED <<account, credentialEpoch, lease, now, disk, crashes>>

Tick ==
    /\ now < MaxTime
    /\ now' = now + 1
    /\ UNCHANGED <<account, coolingDisabled, credentialEpoch, lease, disk, crashes>>

\* save() for any other record writes this one too.
SaveAll ==
    /\ disk # Memory
    /\ UNCHANGED <<account, coolingDisabled, credentialEpoch, lease, now, crashes>>
    /\ Save

\* The process dies: leases vanish, the record is reloaded.
Crash ==
    /\ crashes < MaxCrashes
    /\ crashes' = crashes + 1
    /\ lease' = [a \in Attempts |-> NoLease]
    /\ health' = disk.health
    /\ generation' = disk.generation
    /\ circuits' = disk.circuits
    /\ circuitSeq' = disk.circuitSeq
    /\ modelCooldown' = disk.modelCooldown
    /\ UNCHANGED <<coolingDisabled, credentialEpoch, now, disk>>

-----------------------------------------------------------------------------

Init ==
    /\ health = Healthy
    /\ generation = 0
    /\ circuits = [key \in Keys |-> AbsentCircuit]
    /\ circuitSeq = 0
    /\ modelCooldown = [m \in Models |-> 0]
    /\ coolingDisabled = FALSE
    /\ credentialEpoch = 0
    /\ lease = [a \in Attempts |-> NoLease]
    /\ now = 0
    /\ disk = Memory
    /\ crashes = 0

Next ==
    \/ \E a \in Attempts, key \in Keys, ignore \in BOOLEAN : Begin(a, key, ignore)
    \/ \E key \in Keys, ignore \in BOOLEAN : BeginRefused(key, ignore)
    \/ \E a \in Attempts, outcome \in Outcomes : Settle(a, outcome)
    \/ ReplaceCredentials
    \/ ClearCooldown
    \/ SetQuota
    \/ ToggleCooling
    \/ Tick
    \/ SaveAll
    \/ Crash

Spec == Init /\ [][Next]_vars

-----------------------------------------------------------------------------
(* The planner's copy of the same gates: eligibilityFromUpstreams and        *)
(* candidateExclusionCode decide which accounts a request may try.           *)

AccountCooldownBlocks ==
    /\ health.status = "cooldown" /\ health.nextEligibleAt > now
    /\ \/ health.source # "reset-derived"
       \/ health.probeInFlight
       \/ health.lastProbeAt + ProbeInterval > now

\* mutant: off by one at the end of an open circuit's cooldown
CircuitEligibleLate(key) ==
    LET row == circuits[key] IN
    CASE row.status = "open" -> row.nextProbeAt < now
      [] row.status = "half_open" -> ~ row.probeInFlight \/ row.updatedAt + CircuitCooldown <= now
      [] OTHER -> TRUE

CircuitEligible(key) ==
    LET row == circuits[key] IN
    CASE row.status = "open" -> row.nextProbeAt <= now
      [] row.status = "half_open" -> ~ row.probeInFlight \/ row.updatedAt + CircuitCooldown <= now
      [] OTHER -> TRUE

PlanEligible(key, ignore) ==
    /\ health.status # "reauth_required"
    /\ ignore \/ ~ AccountCooldownBlocks
    /\ ~ ModelBlocks(key, ignore)
    /\ CircuitEligible(key)

-----------------------------------------------------------------------------
(* Properties *)

\* Every variable keeps the shape the store gives it.
TypeOK ==
    /\ health \in Health
    /\ generation \in Nat
    /\ circuits \in [Keys -> Circuit]
    /\ circuitSeq \in Nat
    /\ modelCooldown \in [Models -> Nat]
    /\ coolingDisabled \in BOOLEAN
    /\ credentialEpoch \in Nat
    /\ lease \in [Attempts -> Lease \cup {NoLease}]
    /\ now \in Nat
    /\ disk \in Record
    /\ crashes \in Nat

\* node/README.md: "Credential replacement and generation-fenced attempt leases
\* prevent stale in-flight success or failure from overwriting newer account
\* state."  An attempt that used credentials which were replaced since it began
\* changes no cooldown, re-authentication or probe state of the account when it
\* settles.  (The cooldowns of single models are not fenced: README.md.)
ReplacedCredentialsAreNotJudged ==
    [][\A a \in Attempts :
          /\ a \in Live /\ lease'[a] = NoLease /\ crashes' = crashes
          /\ lease[a].epoch # credentialEpoch
          => UNCHANGED <<health, generation>>]_vars

\* While the account is out of service, the only attempt whose outcome still
\* counts for it is the one early probe that owns the probe flag.
CooldownAdmitsOnlyTheProbe ==
    health.status # "none" =>
        /\ \A a \in Attempts : Current(a) =>
              lease[a].probe /\ health.status = "cooldown" /\ health.probeInFlight
        /\ \A a, b \in Attempts : Current(a) /\ Current(b) => a = b

\* No attempt that is still fenced in holds a probe of a cooldown that is gone.
ProbeImpliesCooldown ==
    \A a \in Attempts : Current(a) /\ lease[a].probe =>
        health.status = "cooldown" /\ health.probeInFlight

\* A half-open circuit has at most one attempt that can decide it, however
\* often its probe was released, taken over when stale, or its row evicted.
HalfOpenHasOneOwner ==
    \A key \in Keys : circuits[key].status = "half_open" =>
        \A a, b \in Live :
            /\ lease[a].key = key /\ lease[a].circuitGeneration = circuits[key].generation
            /\ lease[b].key = key /\ lease[b].circuitGeneration = circuits[key].generation
            => a = b

\* An open circuit is closed only through its half-open probe: no success of an
\* attempt begun before it opened can close it.
OpenClosesOnlyThroughProbe ==
    [][\A key \in Keys :
          circuits[key].status = "open" => circuits'[key].status # "closed"]_vars

\* A success that lifts a cooldown comes from an attempt that began after the
\* cooldown did.
SuccessLiftsOnlyOlderCooldown ==
    [][\A a \in Attempts :
          /\ a \in Live /\ lease'[a] = NoLease /\ crashes' = crashes
          /\ health.status = "cooldown" /\ health'.status = "none"
          => lease[a].startedAt >= health.startedAt]_vars

\* What the planner would offer is what a begin at that moment would admit: the
\* two copies of the gates never disagree, in any reachable state.
PlannerAgreesWithBegin ==
    \A key \in Keys, ignore \in BOOLEAN :
        PlanEligible(key, ignore) <=>
            AccountAdmits(ignore) /\ ~ ModelBlocks(key, ignore) /\ CircuitGrants(key)

\* README: "Reset-derived cooldowns permit one generation-fenced early probe
\* after five minutes".  In a reset-derived cooldown with no probe under way,
\* ProbeInterval after the last one the account can be probed.
EarlyProbePermitted ==
    /\ health.status = "cooldown" /\ health.source = "reset-derived"
    /\ health.lastProbeAt + ProbeInterval <= now
    /\ ~ \E a \in Attempts : Current(a) /\ lease[a].probe
    => ~ AccountCooldownBlocks

=============================================================================
