------------------------ MODULE UpstreamHealthProofs ------------------------
(***************************************************************************)
(* Theorems about UpstreamHealth, for every value of its constants: the    *)
(* properties that UpstreamHealth_account and UpstreamHealth_circuits      *)
(* check on small instances.                                               *)
(*                                                                         *)
(* All of them follow from one inductive invariant, IInv: leases never run *)
(* ahead of the generations (so that a new generation fences all of them), *)
(* and a circuit's row and its leases agree on who may decide it.          *)
(***************************************************************************)
EXTENDS UpstreamHealth, TLAPS

-----------------------------------------------------------------------------
(* What the circuit operations of a settlement have in common *)

\* No row is ahead of the sequence its generations come from.
RowsAreOld == \A k \in Keys : circuits[k].generation <= circuitSeq

\* Only the row of the lease's own key changes, only when the lease is fenced
\* in, and whatever needs an owner gets a generation that nobody holds.
CircuitStep(l) ==
    /\ circuitSeq' \in {circuitSeq, circuitSeq + 1}
    /\ \A k \in Keys :
        \/ circuits'[k] \in {circuits[k], AbsentCircuit}
        \/ /\ k = l.key
           /\ CircuitGeneration(k) = l.circuitGeneration
           /\ \/ circuits'[k].status = "closed" /\ circuits'[k].generation <= circuitSeq'
              \/ /\ circuits'[k].status \in {"open", "half_open"}
                 /\ circuits'[k].generation = circuitSeq + 1
                 /\ circuitSeq' = circuitSeq + 1

LEMMA PrunedRows ==
    ASSUME NEW rows \in [Keys -> Circuit], NEW new \in Pruned(rows)
    PROVE  /\ new \in [Keys -> Circuit]
           /\ \A k \in Keys : new[k] \in {rows[k], AbsentCircuit}
<1>1. AbsentCircuit \in Circuit
  BY DEF AbsentCircuit, Circuit
<1>2. CASE new = rows
  BY <1>2
<1>3. CASE \E key \in Keys : new = [rows EXCEPT ![key] = AbsentCircuit]
  BY <1>1, <1>3
<1>4. QED
  BY <1>2, <1>3 DEF Pruned, Present

LEMMA RowReleased ==
    ASSUME NEW c \in Circuit, NEW g \in Nat, NEW t \in Nat
    PROVE  [c EXCEPT !.generation = g, !.updatedAt = t, !.probeInFlight = FALSE] \in Circuit
BY DEF Circuit

LEMMA RowTaken ==
    ASSUME NEW c \in Circuit, NEW g \in Nat, NEW t \in Nat
    PROVE  [c EXCEPT !.status = "half_open", !.generation = g, !.updatedAt = t,
                     !.probeInFlight = TRUE] \in Circuit
BY DEF Circuit

LEMMA RowClosed ==
    ASSUME NEW g \in Nat, NEW t \in Nat
    PROVE  [AbsentCircuit EXCEPT !.status = "closed", !.generation = g, !.updatedAt = t] \in Circuit
<1>1. AbsentCircuit \in Circuit
  BY DEF AbsentCircuit, Circuit
<1>2. \A c \in Circuit :
         [c EXCEPT !.status = "closed", !.generation = g, !.updatedAt = t] \in Circuit
  BY DEF Circuit
<1>3. QED
  BY <1>1, <1>2

LEMMA FailureStep ==
    ASSUME TypeOK, RowsAreOld, NEW l \in Lease, CircuitFailure(l)
    PROVE  circuits' \in [Keys -> Circuit] /\ circuitSeq' \in Nat /\ CircuitStep(l)
<1> DEFINE key == l.key
           failures == circuits[key].failures + 1
           opens == failures >= FailureThreshold
           row == [status |-> IF opens THEN "open" ELSE "closed",
                   failures |-> failures,
                   generation |-> IF opens THEN circuitSeq + 1 ELSE l.circuitGeneration,
                   probeInFlight |-> FALSE,
                   updatedAt |-> now,
                   nextProbeAt |-> IF opens THEN now + CircuitCooldown ELSE 0]
           rows == [circuits EXCEPT ![key] = row]
<1> USE HealthAssumption DEF HealthAssumption
<1>1. key \in Keys /\ l.circuitGeneration \in Nat /\ circuits[key] \in Circuit
  BY DEF TypeOK, Lease
<1>2. row \in Circuit
  BY <1>1 DEF TypeOK, Circuit
<1>3. rows \in [Keys -> Circuit]
  BY <1>2 DEF TypeOK
<1>4. CASE CircuitGeneration(key) # l.circuitGeneration
  BY <1>4 DEF CircuitFailure, CircuitStep, TypeOK
<1>5. CASE CircuitGeneration(key) = l.circuitGeneration
  <2>1. circuitSeq' = (IF opens THEN circuitSeq + 1 ELSE circuitSeq) /\ circuits' \in Pruned(rows)
    BY <1>5 DEF CircuitFailure
  <2> HIDE DEF rows
  <2>2. circuits' \in [Keys -> Circuit] /\ \A k \in Keys : circuits'[k] \in {rows[k], AbsentCircuit}
    BY <2>1, <1>3, PrunedRows
  <2> USE DEF rows
  <2>3. circuits[key].generation <= circuitSeq /\ l.circuitGeneration <= circuitSeq
    BY <1>1, <1>5 DEF RowsAreOld, CircuitGeneration, TypeOK
  <2>4. circuitSeq' \in Nat /\ circuitSeq' \in {circuitSeq, circuitSeq + 1}
    BY <2>1 DEF TypeOK
  <2>5. ASSUME NEW k \in Keys, k # key
        PROVE  circuits'[k] \in {circuits[k], AbsentCircuit}
    BY <2>2, <2>5 DEF TypeOK
  <2>6. rows[key] = row
    BY <1>1 DEF TypeOK
  <2>7. CASE circuits'[key] = AbsentCircuit
    BY <2>2, <2>4, <2>5, <2>7, <1>1 DEF CircuitStep
  <2>8. CASE circuits'[key] = row
    BY <2>1, <2>2, <2>3, <2>4, <2>5, <2>8, <1>1, <1>5 DEF CircuitStep, TypeOK
  <2>9. QED
    BY <2>2, <2>6, <2>7, <2>8, <1>1
<1>6. QED
  BY <1>4, <1>5

LEMMA SuccessStep ==
    ASSUME TypeOK, RowsAreOld, NEW l \in Lease, CircuitSuccess(l)
    PROVE  circuits' \in [Keys -> Circuit] /\ circuitSeq' \in Nat /\ CircuitStep(l)
<1> DEFINE key == l.key
           probed == circuits[key].status = "half_open"
           row == [AbsentCircuit EXCEPT
                      !.status = "closed",
                      !.generation = IF probed THEN circuitSeq + 1 ELSE l.circuitGeneration,
                      !.updatedAt = now]
           rows == [circuits EXCEPT ![key] = row]
<1>1. key \in Keys /\ l.circuitGeneration \in Nat /\ circuits[key] \in Circuit
  BY DEF TypeOK, Lease
<1>2. row \in Circuit
  <2>1. (IF probed THEN circuitSeq + 1 ELSE l.circuitGeneration) \in Nat /\ now \in Nat
    BY <1>1 DEF TypeOK
  <2>2. QED
    BY <2>1, RowClosed
<1>3. rows \in [Keys -> Circuit]
  BY <1>2 DEF TypeOK
<1>4. CASE circuits[key].status = "absent" \/ circuits[key].generation # l.circuitGeneration
  BY <1>4 DEF CircuitSuccess, CircuitStep, TypeOK
<1>5. CASE circuits[key].status # "absent" /\ circuits[key].generation = l.circuitGeneration
  <2>1. circuitSeq' = (IF probed THEN circuitSeq + 1 ELSE circuitSeq) /\ circuits' \in Pruned(rows)
    BY <1>5 DEF CircuitSuccess
  <2> HIDE DEF rows
  <2>2. circuits' \in [Keys -> Circuit] /\ \A k \in Keys : circuits'[k] \in {rows[k], AbsentCircuit}
    BY <2>1, <1>3, PrunedRows
  <2> USE DEF rows
  <2>3. circuits[key].generation <= circuitSeq /\ CircuitGeneration(key) = l.circuitGeneration
    BY <1>1, <1>5 DEF RowsAreOld, CircuitGeneration, TypeOK
  <2>4. circuitSeq' \in Nat /\ circuitSeq' \in {circuitSeq, circuitSeq + 1}
    BY <2>1 DEF TypeOK
  <2>5. ASSUME NEW k \in Keys, k # key
        PROVE  circuits'[k] \in {circuits[k], AbsentCircuit}
    BY <2>2, <2>5 DEF TypeOK
  <2>6. rows[key] = row
    BY <1>1 DEF TypeOK
  <2>7. CASE circuits'[key] = AbsentCircuit
    BY <2>2, <2>4, <2>5, <2>7, <1>1 DEF CircuitStep
  <2>8. CASE circuits'[key] = row
    <3>1. row.status = "closed" /\ row.generation <= circuitSeq'
      BY <2>1, <2>3, <2>4, <1>1, <1>5 DEF AbsentCircuit, TypeOK
    <3>2. QED
      BY <3>1, <2>2, <2>3, <2>4, <2>5, <2>8, <1>1 DEF CircuitStep
  <2>9. QED
    BY <2>2, <2>6, <2>7, <2>8, <1>1
<1>6. QED
  BY <1>4, <1>5

LEMMA ReleaseStep ==
    ASSUME TypeOK, RowsAreOld, NEW l \in Lease, CircuitRelease(l)
    PROVE  circuits' \in [Keys -> Circuit] /\ circuitSeq' \in Nat /\ CircuitStep(l)
<1> DEFINE key == l.key
           held == circuits[key].status = "half_open" /\ circuits[key].generation = l.circuitGeneration
<1>1. key \in Keys /\ circuits[key] \in Circuit
  BY DEF TypeOK, Lease
<1>2. CASE ~ held
  BY <1>2 DEF CircuitRelease, CircuitStep, TypeOK
<1>3. CASE held
  <2>1. circuitSeq' = circuitSeq + 1 /\ circuitSeq' \in Nat
    BY <1>3 DEF CircuitRelease, TypeOK
  <2>2. circuits' = [circuits EXCEPT ![key] =
                        [circuits[key] EXCEPT !.generation = circuitSeq + 1,
                                              !.updatedAt = now, !.probeInFlight = FALSE]]
    BY <1>3 DEF CircuitRelease
  <2> DEFINE row == [circuits[key] EXCEPT !.generation = circuitSeq + 1,
                                          !.updatedAt = now, !.probeInFlight = FALSE]
  <2>8. row \in Circuit
    BY <1>1, <2>1, RowReleased DEF TypeOK
  <2>3. circuits' \in [Keys -> Circuit]
    BY <2>2, <2>8 DEF TypeOK
  <2>4. circuits'[key].status = "half_open" /\ circuits'[key].generation = circuitSeq + 1
    BY <2>2, <1>1, <1>3 DEF TypeOK, Circuit
  <2>5. CircuitGeneration(key) = l.circuitGeneration
    BY <1>3 DEF CircuitGeneration
  <2>6. \A k \in Keys : k # key => circuits'[k] = circuits[k]
    BY <2>2 DEF TypeOK
  <2>7. QED
    BY <2>1, <2>3, <2>4, <2>5, <2>6 DEF CircuitStep
<1>4. QED
  BY <1>2, <1>3

LEMMA TakeStep ==
    ASSUME TypeOK, RowsAreOld, NEW key \in Keys, TakeCircuit(key)
    PROVE  /\ circuits' \in [Keys -> Circuit]
           /\ circuitSeq' \in Nat
           /\ \A k \in Keys : k # key => circuits'[k] = circuits[k]
           /\ \/ /\ circuits[key].status \in {"open", "half_open"}
                 /\ circuits'[key].status = "half_open"
                 /\ circuitSeq' = circuitSeq + 1
                 /\ circuits'[key].generation = circuitSeq + 1
              \/ /\ circuits[key].status \in {"absent", "closed"}
                 /\ UNCHANGED <<circuits, circuitSeq>>
<1>1. circuits[key] \in Circuit
  BY DEF TypeOK
<1>2. CASE circuits[key].status \in {"open", "half_open"}
  <2>1. circuitSeq' = circuitSeq + 1 /\ circuitSeq' \in Nat
    BY <1>2 DEF TakeCircuit, TypeOK
  <2> DEFINE row == [circuits[key] EXCEPT !.status = "half_open",
                                          !.generation = circuitSeq + 1, !.updatedAt = now,
                                          !.probeInFlight = TRUE]
  <2>2. circuits' = [circuits EXCEPT ![key] = row]
    BY <1>2 DEF TakeCircuit
  <2>8. row \in Circuit
    BY <1>1, <2>1, RowTaken DEF TypeOK
  <2>3. circuits' \in [Keys -> Circuit]
    BY <2>2, <2>8 DEF TypeOK
  <2>4. circuits'[key].status = "half_open" /\ circuits'[key].generation = circuitSeq + 1
    BY <2>2, <1>1 DEF TypeOK, Circuit
  <2>5. \A k \in Keys : k # key => circuits'[k] = circuits[k]
    BY <2>2 DEF TypeOK
  <2>6. QED
    BY <1>2, <2>1, <2>3, <2>4, <2>5
<1>3. CASE circuits[key].status \notin {"open", "half_open"}
  BY <1>1, <1>3 DEF TakeCircuit, TypeOK, Circuit
<1>4. QED
  BY <1>2, <1>3

-----------------------------------------------------------------------------
(* What a settlement does to the account *)

\* Only an attempt that is fenced in touches the account: it ends its probe, or
\* it decides the account's health under a new generation.
AccountStep(a) ==
    \/ UNCHANGED <<health, generation>>
    \/ /\ Current(a) /\ lease[a].probe /\ health.status # "none"
       /\ health' = [health EXCEPT !.probeInFlight = FALSE]
       /\ UNCHANGED generation
    \/ /\ Current(a)
       /\ generation' = generation + 1
       /\ health'.startedAt \in {0, now}
       /\ health.status = "cooldown" /\ health'.status = "none" => health' = Healthy

LEMMA HealthUpdates ==
    /\ Healthy \in Health
    /\ \A t \in Nat : [Healthy EXCEPT !.status = "reauth_required", !.startedAt = t] \in Health
    /\ \A h \in Health : [h EXCEPT !.probeInFlight = FALSE] \in Health
    /\ \A h \in Health, t \in Nat : [h EXCEPT !.probeInFlight = TRUE, !.lastProbeAt = t] \in Health
<1>1. Healthy \in Health
  BY DEF Healthy, Health, Sources
<1>2. \A h \in Health, t \in Nat :
         [h EXCEPT !.status = "reauth_required", !.startedAt = t] \in Health
  BY DEF Health
<1>3. \A h \in Health : [h EXCEPT !.probeInFlight = FALSE] \in Health
  BY DEF Health
<1>4. \A h \in Health, t \in Nat : [h EXCEPT !.probeInFlight = TRUE, !.lastProbeAt = t] \in Health
  BY DEF Health
<1>5. QED
  BY <1>1, <1>2, <1>3, <1>4

LEMMA LiftStep ==
    ASSUME TypeOK, NEW a \in Attempts, Current(a), health' = Healthy,
           generation' = generation + 1
    PROVE  health' \in Health /\ generation' \in Nat /\ AccountStep(a)
<1>1. Healthy \in Health
  BY HealthUpdates
<1>2. health'.startedAt = 0
  BY DEF Healthy
<1>3. generation' \in Nat
  BY DEF TypeOK
<1>4. QED
  BY <1>1, <1>2, <1>3 DEF AccountStep

LEMMA EndProbeStep ==
    ASSUME TypeOK, NEW a \in Attempts, EndProbe(a), UNCHANGED generation
    PROVE  health' \in Health /\ AccountStep(a)
BY HealthUpdates DEF TypeOK, EndProbe, AccountStep

LEMMA QuotaHealthType ==
    ASSUME TypeOK, NEW c \in Cooldowns
    PROVE  /\ QuotaHealth(c) \in Health
           /\ QuotaHealth(c).startedAt = now
           /\ QuotaHealth(c).status = "cooldown"
<1>1. c.source \in Sources /\ c.duration \in Nat /\ now \in Nat
  BY HealthAssumption DEF HealthAssumption, TypeOK
<1>2. QED
  BY <1>1 DEF QuotaHealth, Health

LEMMA SettleStep ==
    ASSUME TypeOK, RowsAreOld, NEW a \in Attempts, NEW outcome \in Outcomes, Settle(a, outcome)
    PROVE  /\ health' \in Health /\ generation' \in Nat
           /\ modelCooldown' \in [Models -> Nat]
           /\ circuits' \in [Keys -> Circuit] /\ circuitSeq' \in Nat
           /\ lease[a] \in Lease
           /\ AccountStep(a)
           /\ CircuitStep(lease[a])
<1>1. lease[a] \in Lease
  BY DEF Settle, TypeOK
<1>2. CASE SettleSuccess(a)
  <2>1. circuits' \in [Keys -> Circuit] /\ circuitSeq' \in Nat /\ CircuitStep(lease[a])
    BY <1>1, <1>2, SuccessStep DEF SettleSuccess
  <2>2. modelCooldown' \in [Models -> Nat]
    BY <1>2 DEF SettleSuccess, TypeOK
  <2>3. health' \in Health /\ generation' \in Nat /\ AccountStep(a)
    <3>1. CASE Current(a) /\ health' = Healthy /\ generation' = generation + 1
      BY <3>1, LiftStep
    <3>2. CASE UNCHANGED <<health, generation>>
      BY <3>2 DEF AccountStep, TypeOK
    <3>3. QED
      BY <1>2, <3>1, <3>2 DEF SettleSuccess
  <2>4. QED
    BY <1>1, <2>1, <2>2, <2>3
<1>3. CASE SettleNeutral(a)
  BY <1>1, <1>3, ReleaseStep, EndProbeStep DEF SettleNeutral, TypeOK
<1>4. CASE SettleTransient(a)
  BY <1>1, <1>4, ReleaseStep, FailureStep, EndProbeStep DEF SettleTransient, TypeOK
<1>5. CASE SettleCredential(a)
  <2>1. circuits' \in [Keys -> Circuit] /\ circuitSeq' \in Nat /\ CircuitStep(lease[a])
    BY <1>1, <1>5, ReleaseStep DEF SettleCredential
  <2>2. health' \in Health /\ generation' \in Nat /\ AccountStep(a)
    <3> DEFINE rejected == [Healthy EXCEPT !.status = "reauth_required", !.startedAt = now]
    <3>1. rejected \in Health /\ rejected.startedAt = now /\ rejected.status = "reauth_required"
      BY HealthUpdates DEF TypeOK, Healthy
    <3>2. CASE Current(a)
      <4>1. health' = rejected /\ generation' = generation + 1
        BY <1>5, <3>2 DEF SettleCredential
      <4> HIDE DEF rejected
      <4>2. QED
        BY <3>1, <3>2, <4>1 DEF AccountStep, TypeOK
    <3>3. CASE ~ Current(a)
      BY <1>5, <3>3 DEF SettleCredential, AccountStep, TypeOK
    <3>4. QED
      BY <3>2, <3>3
  <2>3. QED
    BY <1>1, <1>5, <2>1, <2>2 DEF SettleCredential, TypeOK
<1>6. CASE SettleQuota(a)
  <2>1. circuits' \in [Keys -> Circuit] /\ circuitSeq' \in Nat /\ CircuitStep(lease[a])
    BY <1>1, <1>6, ReleaseStep DEF SettleQuota
  <2>2. health' \in Health /\ generation' \in Nat /\ AccountStep(a)
    <3>1. CASE Current(a) /\ generation' = generation + 1
                 /\ \E c \in Cooldowns : health' = QuotaHealth(c)
      BY <3>1, QuotaHealthType DEF AccountStep, TypeOK
    <3>2. CASE Current(a) /\ generation' = generation + 1 /\ health' = Healthy
      BY <3>2, LiftStep
    <3>3. CASE UNCHANGED <<health, generation>>
      BY <3>3 DEF AccountStep, TypeOK
    <3>4. QED
      BY <1>6, <3>1, <3>2, <3>3 DEF SettleQuota
  <2>3. QED
    BY <1>1, <1>6, <2>1, <2>2 DEF SettleQuota, TypeOK
<1>7. CASE SettleModelQuota(a)
  <2>1. modelCooldown' \in [Models -> Nat]
    <3>1. \A c \in Cooldowns : now + c.duration \in Nat
      BY HealthAssumption DEF HealthAssumption, TypeOK
    <3>2. QED
      BY <1>7, <3>1 DEF SettleModelQuota, TypeOK
  <2>2. QED
    BY <1>1, <1>7, <2>1, ReleaseStep, EndProbeStep DEF SettleModelQuota, TypeOK
<1>8. QED
  BY <1>2, <1>3, <1>4, <1>5, <1>6, <1>7 DEF Settle

-----------------------------------------------------------------------------
(* The inductive invariant *)

\* No attempt in flight is ahead of the generations it is fenced by.
LeasesAreOld ==
    \A a \in Live :
        /\ lease[a].generation <= generation
        /\ lease[a].circuitGeneration <= circuitSeq

\* The record on disk differs from memory only in what a refused begin changed.
DiskIsBehind ==
    /\ disk.circuits = circuits
    /\ disk.circuitSeq = circuitSeq
    /\ disk.health.startedAt <= now

\* An attempt that is fenced in uses the credentials that are stored.
LeasesAreOfTheirEpoch == \A a \in Attempts : Current(a) => lease[a].epoch = credentialEpoch

\* An attempt that can lift the cooldown began in it.
ProbesFollowTheCooldown ==
    /\ health.startedAt <= now
    /\ \A a \in Attempts :
          Current(a) /\ health.status = "cooldown" => lease[a].startedAt >= health.startedAt

\* Nobody in flight can decide a circuit that is open.
OpenHasNoOwner ==
    \A a \in Live :
        circuits[lease[a].key].status = "open" =>
            lease[a].circuitGeneration # circuits[lease[a].key].generation

IInv ==
    /\ TypeOK
    /\ RowsAreOld
    /\ LeasesAreOld
    /\ DiskIsBehind
    /\ LeasesAreOfTheirEpoch
    /\ CooldownAdmitsOnlyTheProbe
    /\ ProbeImpliesCooldown
    /\ ProbesFollowTheCooldown
    /\ HalfOpenHasOneOwner
    /\ OpenHasNoOwner

-----------------------------------------------------------------------------
(* What is true at first *)

LEMMA InitHolds == Init => IInv
<1> SUFFICES ASSUME Init PROVE IInv
  OBVIOUS
<1> USE DEF Init
<1>1. AbsentCircuit \in Circuit /\ AbsentCircuit.generation = 0 /\ AbsentCircuit.status = "absent"
  BY DEF AbsentCircuit, Circuit
<1>2. Healthy \in Health /\ Healthy.status = "none" /\ Healthy.startedAt = 0
  BY HealthUpdates DEF Healthy
<1>3. Live = {}
  BY DEF Live
<1>4. disk \in Record
  BY <1>1, <1>2 DEF Memory, Record
<1>5. TypeOK
  BY <1>1, <1>2, <1>4 DEF TypeOK
<1>6. disk.circuits = circuits /\ disk.circuitSeq = circuitSeq /\ disk.health = health
  BY DEF Memory
<1>7. DiskIsBehind /\ RowsAreOld
  BY <1>1, <1>2, <1>6 DEF DiskIsBehind, RowsAreOld
<1>8. QED
  BY <1>2, <1>3, <1>5, <1>7 DEF IInv, LeasesAreOld, LeasesAreOfTheirEpoch, Current,
     CooldownAdmitsOnlyTheProbe, ProbeImpliesCooldown, ProbesFollowTheCooldown,
     HalfOpenHasOneOwner, OpenHasNoOwner

-----------------------------------------------------------------------------
(* Steps that leave the leases where they are, or end some *)

LEMMA MemoryIsARecord ==
    ASSUME health' \in Health, generation' \in Nat, circuits' \in [Keys -> Circuit],
           circuitSeq' \in Nat, modelCooldown' \in [Models -> Nat]
    PROVE  /\ Memory' \in Record
           /\ Memory'.circuits = circuits' /\ Memory'.circuitSeq = circuitSeq'
           /\ Memory'.health = health'
BY DEF Memory, Record

\* The next generation is ahead of every lease: nobody in flight counts any more.
LEMMA NewGenerationFences ==
    ASSUME TypeOK, LeasesAreOld, generation' = generation + 1,
           \A a \in Attempts : lease'[a] \in {lease[a], NoLease}
    PROVE  \A a \in Attempts : ~ Current(a)'
<1> SUFFICES ASSUME NEW a \in Attempts, Current(a)' PROVE FALSE
  OBVIOUS
<1>1. lease'[a] = lease[a] /\ lease[a] # NoLease /\ lease[a].generation = generation + 1
  BY DEF Current, Live
<1>2. lease[a] \in Lease
  BY <1>1 DEF TypeOK
<1>3. lease[a].generation <= generation /\ lease[a].generation \in Nat /\ generation \in Nat
  BY <1>1, <1>2 DEF LeasesAreOld, Live, Lease, TypeOK
<1>4. QED
  BY <1>1, <1>3

\* The three operations that clear the account's health: clearUpstreamCooldown,
\* setQuota and the replacement of credentials.
LEMMA ClearStep ==
    ASSUME IInv, health' = Healthy, generation' = generation + 1,
           modelCooldown' \in [Models -> Nat], credentialEpoch' \in Nat, Save,
           UNCHANGED <<circuits, circuitSeq, coolingDisabled, lease, now, crashes>>
    PROVE  IInv'
<1>1. /\ health' \in Health /\ health'.status = "none" /\ health'.startedAt = 0
      /\ generation' \in Nat
  <2>1. Healthy \in Health /\ Healthy.status = "none" /\ Healthy.startedAt = 0
    BY HealthUpdates DEF Healthy
  <2>2. QED
    BY <2>1 DEF IInv, TypeOK
<1>2. disk' \in Record /\ disk'.circuits = circuits' /\ disk'.circuitSeq = circuitSeq'
      /\ disk'.health = health'
  BY <1>1, MemoryIsARecord DEF IInv, TypeOK, Save
<1>3. \A a \in Attempts : ~ Current(a)'
  BY NewGenerationFences DEF IInv
<1>4. TypeOK'
  BY <1>1, <1>2 DEF IInv, TypeOK
<1>5. Live' = Live /\ RowsAreOld'
  BY DEF Live, IInv, RowsAreOld
<1>6. LeasesAreOld'
  <2> SUFFICES ASSUME NEW a \in Live
               PROVE  lease[a].generation <= generation' /\ lease[a].circuitGeneration <= circuitSeq
    BY <1>5 DEF LeasesAreOld
  <2>1. lease[a].generation \in Nat /\ lease[a].generation <= generation
    BY DEF IInv, TypeOK, LeasesAreOld, Live, Lease
  <2>2. QED
    BY <2>1 DEF IInv, TypeOK, LeasesAreOld
<1>7. DiskIsBehind'
  BY <1>1, <1>2 DEF DiskIsBehind, IInv, TypeOK
<1>8. HalfOpenHasOneOwner' /\ OpenHasNoOwner'
  BY <1>5 DEF IInv, HalfOpenHasOneOwner, OpenHasNoOwner
<1>9. QED
  BY <1>1, <1>3, <1>4, <1>5, <1>6, <1>7, <1>8 DEF IInv, TypeOK, LeasesAreOfTheirEpoch,
     CooldownAdmitsOnlyTheProbe, ProbeImpliesCooldown, ProbesFollowTheCooldown

\* Time passes, the override is switched, memory is flushed.
LEMMA QuietStep ==
    ASSUME IInv, UNCHANGED <<account, credentialEpoch, lease>>,
           now' \in Nat, now' >= now, coolingDisabled' \in BOOLEAN, crashes' \in Nat,
           disk' \in {disk, Memory}
    PROVE  IInv'
<1> USE DEF IInv, account
<1>1. Memory \in Record /\ Memory.circuits = circuits /\ Memory.circuitSeq = circuitSeq
      /\ Memory.health = health
  BY DEF TypeOK, Memory, Record
<1>2. Live' = Live /\ \A a \in Attempts : Current(a)' <=> Current(a)
  BY DEF Live, Current
<1>3. TypeOK'
  BY <1>1 DEF TypeOK
<1>4. health.startedAt \in Nat /\ disk.health.startedAt \in Nat /\ health.startedAt <= now
      /\ now \in Nat
  BY DEF TypeOK, Health, Record, ProbesFollowTheCooldown
<1>5. DiskIsBehind'
  BY <1>1, <1>4 DEF DiskIsBehind
<1>6. ProbesFollowTheCooldown'
  BY <1>2, <1>4 DEF ProbesFollowTheCooldown
<1>7. QED
  BY <1>2, <1>3, <1>5, <1>6 DEF RowsAreOld, LeasesAreOld, LeasesAreOfTheirEpoch,
     CooldownAdmitsOnlyTheProbe, ProbeImpliesCooldown, HalfOpenHasOneOwner, OpenHasNoOwner

\* The process dies: nobody is in flight, and the circuits on disk are the ones
\* in memory.
LEMMA CrashStep ==
    ASSUME IInv, Crash
    PROVE  IInv'
<1> USE DEF IInv, Crash
<1>1. Live' = {}
  BY DEF Live
<1>2. /\ disk.health \in Health /\ disk.generation \in Nat
      /\ disk.modelCooldown \in [Models -> Nat]
  BY DEF TypeOK, Record
<1>3. circuits' = circuits /\ circuitSeq' = circuitSeq
  BY DEF DiskIsBehind
<1>4. TypeOK'
  BY <1>2, <1>3 DEF TypeOK
<1>5. QED
  BY <1>1, <1>3, <1>4 DEF RowsAreOld, DiskIsBehind, LeasesAreOld, LeasesAreOfTheirEpoch, Current,
     CooldownAdmitsOnlyTheProbe, ProbeImpliesCooldown, ProbesFollowTheCooldown,
     HalfOpenHasOneOwner, OpenHasNoOwner

-----------------------------------------------------------------------------
(* A settlement *)

\* The account's half: what only attempts that are fenced in may decide.
LEMMA AccountAfterSettle ==
    ASSUME IInv, NEW a \in Attempts, NEW outcome \in Outcomes, Settle(a, outcome)
    PROVE  /\ LeasesAreOfTheirEpoch' /\ CooldownAdmitsOnlyTheProbe'
           /\ ProbeImpliesCooldown' /\ ProbesFollowTheCooldown'
<1> USE DEF IInv
<1>1. AccountStep(a) /\ health' \in Health
  BY SettleStep
<1>2. /\ lease' = [lease EXCEPT ![a] = NoLease] /\ lease \in [Attempts -> Lease \cup {NoLease}]
      /\ UNCHANGED <<credentialEpoch, now>>
      /\ health \in Health /\ now \in Nat
  BY DEF Settle, TypeOK
<1>3. \A b \in Attempts : lease'[b] \in {lease[b], NoLease} /\ lease'[a] = NoLease
  BY <1>2
<1>4. CASE generation' = generation + 1
  <2>1. \A b \in Attempts : ~ Current(b)'
    BY <1>3, <1>4, NewGenerationFences
  <2>2. health'.startedAt <= now'
    <3>1. health'.startedAt \in {0, now} \/ UNCHANGED health \/ UNCHANGED generation
      BY <1>1 DEF AccountStep
    <3>2. CASE UNCHANGED generation
      BY <1>4, <3>2 DEF TypeOK
    <3>3. QED
      BY <1>2, <3>1, <3>2 DEF ProbesFollowTheCooldown
  <2>3. QED
    BY <2>1, <2>2 DEF LeasesAreOfTheirEpoch, CooldownAdmitsOnlyTheProbe,
       ProbeImpliesCooldown, ProbesFollowTheCooldown
<1>5. CASE UNCHANGED generation
  <2>1. \A b \in Attempts : Current(b)' => b # a /\ Current(b) /\ lease'[b] = lease[b]
    BY <1>3, <1>5 DEF Current, Live
  <2>2. \/ UNCHANGED health
        \/ /\ Current(a) /\ lease[a].probe /\ health.status # "none"
           /\ health' = [health EXCEPT !.probeInFlight = FALSE]
    BY <1>1, <1>5 DEF AccountStep, TypeOK
  <2>3. CASE UNCHANGED health
    BY <1>2, <2>1, <2>3 DEF LeasesAreOfTheirEpoch, CooldownAdmitsOnlyTheProbe,
       ProbeImpliesCooldown, ProbesFollowTheCooldown
  <2>4. CASE /\ Current(a) /\ health.status # "none"
             /\ health' = [health EXCEPT !.probeInFlight = FALSE]
    <3>1. \A b \in Attempts : Current(b) => b = a
      BY <2>4 DEF CooldownAdmitsOnlyTheProbe
    <3>2. \A b \in Attempts : ~ Current(b)'
      BY <2>1, <3>1
    <3>3. health'.startedAt = health.startedAt
      BY <1>2, <2>4 DEF Health
    <3>4. QED
      BY <1>2, <3>2, <3>3 DEF LeasesAreOfTheirEpoch, CooldownAdmitsOnlyTheProbe,
         ProbeImpliesCooldown, ProbesFollowTheCooldown
  <2>5. QED
    BY <2>2, <2>3, <2>4
<1>6. QED
  BY <1>1, <1>4, <1>5 DEF AccountStep

\* The circuits' half: a row that needs an owner has a generation nobody holds.
LEMMA CircuitsAfterSettle ==
    ASSUME IInv, NEW a \in Attempts, NEW outcome \in Outcomes, Settle(a, outcome)
    PROVE  RowsAreOld' /\ LeasesAreOld' /\ HalfOpenHasOneOwner' /\ OpenHasNoOwner'
<1> USE DEF IInv
<1>1. /\ CircuitStep(lease[a]) /\ circuits' \in [Keys -> Circuit]
      /\ circuitSeq' \in {circuitSeq, circuitSeq + 1} /\ circuitSeq \in Nat
      /\ generation' \in {generation, generation + 1} /\ generation \in Nat
  BY SettleStep DEF CircuitStep, AccountStep, TypeOK
<1>2. \A b \in Live' : b \in Live /\ lease'[b] = lease[b] /\ lease[b] \in Lease
  BY DEF Settle, TypeOK, Live
<1>3. \A b \in Live' : /\ lease[b].generation \in Nat /\ lease[b].circuitGeneration \in Nat
                       /\ lease[b].generation <= generation
                       /\ lease[b].circuitGeneration <= circuitSeq /\ lease[b].key \in Keys
  BY <1>2 DEF LeasesAreOld, Lease
<1>4. LeasesAreOld'
  BY <1>1, <1>2, <1>3 DEF LeasesAreOld
<1>5. \A k \in Keys :
         \/ circuits'[k] = circuits[k]
         \/ circuits'[k].status = "absent" /\ circuits'[k].generation = 0
         \/ circuits'[k].status = "closed" /\ circuits'[k].generation <= circuitSeq'
         \/ /\ circuits'[k].generation = circuitSeq + 1
            /\ circuitSeq' = circuitSeq + 1
  BY <1>1 DEF CircuitStep, AbsentCircuit
<1>6. RowsAreOld'
  <2>1. \A k \in Keys : circuits[k].generation \in Nat /\ circuits[k].generation <= circuitSeq
    BY DEF RowsAreOld, TypeOK, Circuit
  <2>2. QED
    BY <1>1, <1>5, <2>1 DEF RowsAreOld
<1>7. \A b \in Live' : circuits'[lease[b].key].status \in {"open", "half_open"} =>
                          \/ circuits'[lease[b].key] = circuits[lease[b].key]
                          \/ circuits'[lease[b].key].generation # lease[b].circuitGeneration
  BY <1>1, <1>3, <1>5
<1>8. OpenHasNoOwner'
  BY <1>2, <1>7 DEF OpenHasNoOwner
<1>9. HalfOpenHasOneOwner'
  BY <1>2, <1>7 DEF HalfOpenHasOneOwner
<1>10. QED
  BY <1>4, <1>6, <1>8, <1>9

LEMMA SettlePreserves ==
    ASSUME IInv, NEW a \in Attempts, NEW outcome \in Outcomes, Settle(a, outcome)
    PROVE  IInv'
<1> USE DEF IInv
<1>1. /\ health' \in Health /\ generation' \in Nat /\ modelCooldown' \in [Models -> Nat]
      /\ circuits' \in [Keys -> Circuit] /\ circuitSeq' \in Nat
  BY SettleStep
<1>2. disk' \in Record /\ disk'.circuits = circuits' /\ disk'.circuitSeq = circuitSeq'
      /\ disk'.health = health'
  BY <1>1, MemoryIsARecord DEF Settle, Save
<1>3. TypeOK'
  BY <1>1, <1>2 DEF Settle, TypeOK
<1>4. /\ LeasesAreOfTheirEpoch' /\ CooldownAdmitsOnlyTheProbe'
      /\ ProbeImpliesCooldown' /\ ProbesFollowTheCooldown'
  BY AccountAfterSettle
<1>5. DiskIsBehind'
  BY <1>2, <1>4 DEF DiskIsBehind, ProbesFollowTheCooldown
<1>6. QED
  BY <1>3, <1>4, <1>5, CircuitsAfterSettle

-----------------------------------------------------------------------------
(* An admission, granted or refused after the account gate *)

LEMMA GateStep ==
    ASSUME TypeOK, NEW ignore \in BOOLEAN, PassAccountGate(ignore)
    PROVE  /\ health' \in Health /\ generation' \in Nat
           /\ \/ /\ health.status = "none" /\ ~ ProbeDue(ignore)
                 /\ UNCHANGED <<health, generation>>
              \/ /\ health'.status = "none" /\ health'.startedAt = 0 /\ ~ ProbeDue(ignore)
                 /\ generation' = generation + 1
              \/ /\ ProbeDue(ignore) /\ UNCHANGED generation
                 /\ health.status = "cooldown" /\ ~ health.probeInFlight
                 /\ health'.status = "cooldown" /\ health'.probeInFlight
                 /\ health'.startedAt = health.startedAt
<1>1. health \in Health /\ generation \in Nat /\ now \in Nat
  BY DEF TypeOK
<1>2. CASE health.status = "none" /\ UNCHANGED <<health, generation>>
  BY <1>1, <1>2 DEF ProbeDue
<1>3. CASE CooldownOver(ignore) /\ health' = Healthy /\ generation' = generation + 1
  <2>1. Healthy \in Health /\ Healthy.status = "none" /\ Healthy.startedAt = 0
    BY HealthUpdates DEF Healthy
  <2>2. ~ ProbeDue(ignore)
    BY <1>1, <1>3 DEF CooldownOver, ProbeDue, Health
  <2>3. QED
    BY <1>1, <1>3, <2>1, <2>2
<1>4. CASE /\ ProbeDue(ignore) /\ UNCHANGED generation
           /\ health' = [health EXCEPT !.probeInFlight = TRUE, !.lastProbeAt = now]
  <2>1. health' \in Health
    BY <1>1, <1>4, HealthUpdates
  <2>2. health'.status = health.status /\ health'.startedAt = health.startedAt /\ health'.probeInFlight
    BY <1>1, <1>4 DEF Health
  <2>3. QED
    BY <1>1, <1>4, <2>1, <2>2 DEF ProbeDue
<1>5. QED
  BY <1>2, <1>3, <1>4 DEF PassAccountGate

\* The account's half, with the lease of the new attempt a (if it got one).
LEMMA AccountAfterGate ==
    ASSUME IInv, NEW ignore \in BOOLEAN, PassAccountGate(ignore),
           UNCHANGED <<now, credentialEpoch>>, NEW a,
           \A b \in Attempts :
              \/ lease'[b] = lease[b]
              \/ /\ b = a
                 /\ lease'[a].epoch = credentialEpoch /\ lease'[a].startedAt = now
                 /\ lease'[a].generation = generation' /\ lease'[a].probe = ProbeDue(ignore)
    PROVE  /\ LeasesAreOfTheirEpoch' /\ CooldownAdmitsOnlyTheProbe'
           /\ ProbeImpliesCooldown' /\ ProbesFollowTheCooldown'
<1> USE DEF IInv
<1>1. health \in Health /\ health' \in Health /\ generation \in Nat /\ now \in Nat
  BY GateStep DEF TypeOK
<1>2. CASE /\ health.status = "none" /\ ~ ProbeDue(ignore)
           /\ UNCHANGED <<health, generation>>
  <2>1. \A b \in Attempts : Current(b)' =>
            \/ Current(b) /\ lease'[b] = lease[b]
            \/ b = a /\ lease'[a].epoch = credentialEpoch /\ ~ lease'[a].probe
    BY <1>2 DEF Current, Live
  <2>2. ProbeImpliesCooldown'
    BY <1>2, <2>1 DEF ProbeImpliesCooldown
  <2>3. QED
    BY <1>2, <2>1, <2>2 DEF LeasesAreOfTheirEpoch, CooldownAdmitsOnlyTheProbe,
       ProbesFollowTheCooldown
<1>3. CASE /\ health'.status = "none" /\ health'.startedAt = 0 /\ ~ ProbeDue(ignore)
           /\ generation' = generation + 1
  <2>1. ASSUME NEW b \in Attempts, Current(b)'
        PROVE  b = a /\ lease'[a].epoch = credentialEpoch /\ ~ lease'[a].probe
    <3>1. CASE lease'[b] = lease[b]
      <4>1. b \in Live /\ lease[b] \in Lease /\ lease[b].generation = generation + 1
        BY <1>3, <2>1, <3>1 DEF Current, Live, TypeOK
      <4>2. lease[b].generation <= generation /\ lease[b].generation \in Nat
        BY <4>1 DEF LeasesAreOld, Lease
      <4>3. QED
        BY <1>1, <4>1, <4>2
    <3>2. QED
      BY <1>3, <3>1
  <2>2. QED
    BY <1>1, <1>3, <2>1 DEF LeasesAreOfTheirEpoch, CooldownAdmitsOnlyTheProbe,
       ProbeImpliesCooldown, ProbesFollowTheCooldown
<1>4. CASE /\ ProbeDue(ignore) /\ UNCHANGED generation
           /\ health.status = "cooldown" /\ ~ health.probeInFlight
           /\ health'.status = "cooldown" /\ health'.probeInFlight
           /\ health'.startedAt = health.startedAt
  <2>1. \A b \in Attempts : ~ Current(b)
    BY <1>4 DEF CooldownAdmitsOnlyTheProbe
  <2>2. ASSUME NEW b \in Attempts, Current(b)'
        PROVE  /\ b = a /\ lease'[a].epoch = credentialEpoch /\ lease'[a].startedAt = now
               /\ lease'[a].probe
    <3>1. lease'[b] # lease[b]
      BY <1>4, <2>1, <2>2 DEF Current, Live
    <3>2. QED
      BY <1>4, <3>1
  <2>3. health.startedAt <= now
    BY DEF ProbesFollowTheCooldown
  <2>4. QED
    BY <1>1, <1>4, <2>2, <2>3 DEF LeasesAreOfTheirEpoch, CooldownAdmitsOnlyTheProbe,
       ProbeImpliesCooldown, ProbesFollowTheCooldown
<1>5. QED
  BY <1>2, <1>3, <1>4, GateStep

LEMMA RefusedPreserves ==
    ASSUME IInv, NEW key \in Keys, NEW ignore \in BOOLEAN, BeginRefused(key, ignore)
    PROVE  IInv'
<1> USE DEF IInv
<1>1. health' \in Health /\ generation' \in Nat /\ generation' \in {generation, generation + 1}
  BY GateStep DEF BeginRefused
<1>2. modelCooldown' \in [Models -> Nat]
  BY DEF BeginRefused, ForgetModelCooldown, TypeOK
<1>3. TypeOK'
  BY <1>1, <1>2 DEF BeginRefused, TypeOK
<1>4. /\ LeasesAreOfTheirEpoch' /\ CooldownAdmitsOnlyTheProbe'
      /\ ProbeImpliesCooldown' /\ ProbesFollowTheCooldown'
  BY AccountAfterGate DEF BeginRefused
<1>5. Live' = Live /\ UNCHANGED <<circuits, circuitSeq, disk, now, lease>>
  BY DEF BeginRefused, Live
<1>6. LeasesAreOld'
  <2>1. \A b \in Live : lease[b].generation \in Nat
    BY DEF Live, TypeOK, Lease
  <2>2. QED
    BY <1>1, <1>5, <2>1 DEF LeasesAreOld, TypeOK
<1>7. QED
  BY <1>3, <1>4, <1>5, <1>6 DEF RowsAreOld, DiskIsBehind, HalfOpenHasOneOwner, OpenHasNoOwner

LEMMA BeginPreserves ==
    ASSUME IInv, NEW a \in Attempts, NEW key \in Keys, NEW ignore \in BOOLEAN,
           Begin(a, key, ignore)
    PROVE  IInv'
<1> DEFINE held == IF circuits[key].status = "absent" THEN circuitSeq
                   ELSE circuits'[key].generation
           new == [key |-> key, generation |-> generation', probe |-> ProbeDue(ignore),
                   ignore |-> ignore, circuitGeneration |-> held,
                   epoch |-> credentialEpoch, startedAt |-> now]
<1> USE DEF IInv
<1>1. health' \in Health /\ generation' \in Nat /\ generation' \in {generation, generation + 1}
  BY GateStep DEF Begin
<1>2. modelCooldown' \in [Models -> Nat]
  BY DEF Begin, ForgetModelCooldown, TypeOK
<1>3. /\ circuits' \in [Keys -> Circuit] /\ circuitSeq' \in Nat
      /\ \A k \in Keys : k # key => circuits'[k] = circuits[k]
      /\ \/ /\ circuits'[key].status = "half_open"
            /\ circuitSeq' = circuitSeq + 1
            /\ circuits'[key].generation = circuitSeq + 1
            /\ held = circuitSeq + 1
         \/ /\ circuits[key].status \in {"absent", "closed"}
            /\ UNCHANGED <<circuits, circuitSeq>>
            /\ held \in {circuitSeq, circuits[key].generation}
  BY TakeStep DEF Begin
<1>4. circuitSeq \in Nat /\ generation \in Nat
      /\ \A k \in Keys : circuits[k].generation \in Nat /\ circuits[k].generation <= circuitSeq
  BY DEF TypeOK, Circuit, RowsAreOld
<1>5. held \in Nat /\ held <= circuitSeq' /\ circuitSeq <= circuitSeq'
  BY <1>3, <1>4
<1>6. lease' = [lease EXCEPT ![a] = new] /\ lease \in [Attempts -> Lease \cup {NoLease}]
  BY DEF Begin, TypeOK
<1>7. new \in Lease
  <2>1. ProbeDue(ignore) \in BOOLEAN
    BY DEF ProbeDue
  <2> HIDE DEF held
  <2>2. credentialEpoch \in Nat /\ now \in Nat
    BY DEF TypeOK
  <2>3. QED
    BY <1>1, <1>5, <2>1, <2>2 DEF Lease
<1>8. /\ lease'[a] = new /\ \A b \in Attempts : b # a => lease'[b] = lease[b]
      /\ lease' \in [Attempts -> Lease \cup {NoLease}]
  BY <1>6, <1>7
<1>9. disk' \in Record /\ disk'.circuits = circuits' /\ disk'.circuitSeq = circuitSeq'
      /\ disk'.health = health'
  BY <1>1, <1>2, <1>3, MemoryIsARecord DEF Begin, Save
<1>10. TypeOK'
  BY <1>1, <1>2, <1>3, <1>8, <1>9 DEF Begin, TypeOK
<1>11. /\ LeasesAreOfTheirEpoch' /\ CooldownAdmitsOnlyTheProbe'
       /\ ProbeImpliesCooldown' /\ ProbesFollowTheCooldown'
  <2>1. /\ new.epoch = credentialEpoch /\ new.startedAt = now
        /\ new.generation = generation' /\ new.probe = ProbeDue(ignore)
    OBVIOUS
  <2> HIDE DEF new
  <2>2. QED
    BY <1>8, <2>1, AccountAfterGate DEF Begin
<1>12. DiskIsBehind'
  BY <1>9, <1>11 DEF DiskIsBehind, ProbesFollowTheCooldown
<1>13. RowsAreOld'
  BY <1>3, <1>4 DEF RowsAreOld
<1>14. /\ new.key = key /\ new.generation = generation' /\ new.circuitGeneration = held
  OBVIOUS
<1> HIDE DEF new, held
<1>15. \A b \in Live' : b # a =>
          /\ b \in Live /\ lease'[b] = lease[b] /\ lease[b].key \in Keys
          /\ lease[b].generation \in Nat /\ lease[b].generation <= generation
          /\ lease[b].circuitGeneration \in Nat /\ lease[b].circuitGeneration <= circuitSeq
  BY <1>8 DEF Live, LeasesAreOld, TypeOK, Lease
<1>16. LeasesAreOld'
  <2> SUFFICES ASSUME NEW b \in Live'
               PROVE  lease'[b].generation <= generation' /\ lease'[b].circuitGeneration <= circuitSeq'
    BY DEF LeasesAreOld
  <2>1. CASE b = a
    BY <1>1, <1>5, <1>8, <1>14, <2>1
  <2>2. CASE b # a
    BY <1>1, <1>3, <1>4, <1>5, <1>15, <2>2
  <2>3. QED
    BY <2>1, <2>2
<1>17. CASE /\ circuits'[key].status = "half_open"
            /\ circuitSeq' = circuitSeq + 1
            /\ circuits'[key].generation = circuitSeq + 1
  <2>1. \A b \in Live' : b # a =>
           \/ lease'[b].key # key /\ circuits'[lease'[b].key] = circuits[lease[b].key]
           \/ lease'[b].key = key /\ lease'[b].circuitGeneration # circuits'[key].generation
    BY <1>3, <1>4, <1>15, <1>17
  <2>2. HalfOpenHasOneOwner'
    <3> SUFFICES ASSUME NEW k \in Keys, circuits'[k].status = "half_open",
                        NEW b \in Live', NEW c \in Live',
                        lease'[b].key = k, lease'[b].circuitGeneration = circuits'[k].generation,
                        lease'[c].key = k, lease'[c].circuitGeneration = circuits'[k].generation
                 PROVE  b = c
      BY DEF HalfOpenHasOneOwner
    <3>1. CASE k = key
      BY <2>1, <3>1
    <3>2. CASE k # key
      BY <1>3, <1>8, <1>14, <1>15, <3>2 DEF HalfOpenHasOneOwner
    <3>3. QED
      BY <3>1, <3>2
  <2>3. OpenHasNoOwner'
    BY <1>8, <1>14, <1>15, <1>17, <2>1 DEF OpenHasNoOwner
  <2>4. QED
    BY <1>10, <1>11, <1>12, <1>13, <1>16, <2>2, <2>3
<1>18. CASE /\ circuits[key].status \in {"absent", "closed"}
            /\ UNCHANGED <<circuits, circuitSeq>>
  <2>1. HalfOpenHasOneOwner'
    BY <1>8, <1>14, <1>15, <1>18 DEF HalfOpenHasOneOwner
  <2>2. OpenHasNoOwner'
    BY <1>8, <1>14, <1>15, <1>18 DEF OpenHasNoOwner
  <2>3. QED
    BY <1>10, <1>11, <1>12, <1>13, <1>16, <2>1, <2>2
<1>19. QED
  BY <1>3, <1>17, <1>18

-----------------------------------------------------------------------------
(* Every step preserves the invariant *)

LEMMA NextPreserves == IInv /\ [Next]_vars => IInv'
<1> SUFFICES ASSUME IInv, [Next]_vars PROVE IInv'
  OBVIOUS
<1>1. ASSUME NEW a \in Attempts, NEW key \in Keys, NEW ignore \in BOOLEAN, Begin(a, key, ignore)
      PROVE  IInv'
  BY <1>1, BeginPreserves
<1>2. ASSUME NEW key \in Keys, NEW ignore \in BOOLEAN, BeginRefused(key, ignore)
      PROVE  IInv'
  BY <1>2, RefusedPreserves
<1>3. ASSUME NEW a \in Attempts, NEW outcome \in Outcomes, Settle(a, outcome)
      PROVE  IInv'
  BY <1>3, SettlePreserves
<1>4. CASE ReplaceCredentials
  <2>1. modelCooldown' \in [Models -> Nat] /\ credentialEpoch' \in Nat
    BY <1>4 DEF ReplaceCredentials, IInv, TypeOK
  <2>2. QED
    BY <1>4, <2>1, ClearStep DEF ReplaceCredentials
<1>5. CASE ClearCooldown
  <2>1. modelCooldown' \in [Models -> Nat] /\ credentialEpoch' \in Nat
    BY <1>5 DEF ClearCooldown, IInv, TypeOK
  <2>2. QED
    BY <1>5, <2>1, ClearStep DEF ClearCooldown
<1>6. CASE SetQuota
  <2>1. modelCooldown' \in [Models -> Nat] /\ credentialEpoch' \in Nat
    BY <1>6 DEF SetQuota, IInv, TypeOK
  <2>2. QED
    BY <1>6, <2>1, ClearStep DEF SetQuota
<1>7. CASE ToggleCooling
  BY <1>7, QuietStep DEF ToggleCooling, IInv, TypeOK
<1>8. CASE Tick
  BY <1>8, QuietStep DEF Tick, IInv, TypeOK
<1>9. CASE SaveAll
  <2>1. Memory' = Memory
    BY <1>9 DEF SaveAll, account, Memory
  <2>2. QED
    BY <1>9, <2>1, QuietStep DEF SaveAll, Save, IInv, TypeOK
<1>10. CASE Crash
  BY <1>10, CrashStep
<1>11. CASE UNCHANGED vars
  BY <1>11, QuietStep DEF vars, IInv, TypeOK
<1>12. QED
  BY <1>1, <1>2, <1>3, <1>4, <1>5, <1>6, <1>7, <1>8, <1>9, <1>10, <1>11 DEF Next

-----------------------------------------------------------------------------
(* What follows for the specification *)

\* IInv is true in every reachable state.
THEOREM Invariance == Spec => []IInv
BY InitHolds, NextPreserves, PTL DEF Spec

\* The record keeps its shape through begins, settlements, management
\* operations and restarts.
THEOREM TypeCorrect == Spec => []TypeOK
<1>1. IInv => TypeOK
  BY DEF IInv
<1>2. QED
  BY <1>1, Invariance, PTL

\* beginUpstreamAttempt and settleUpstreamAttempt never leave an attempt fenced
\* in while the account is out of service, except the one early probe.
THEOREM OnlyTheProbeIsAdmitted == Spec => []CooldownAdmitsOnlyTheProbe
<1>1. IInv => CooldownAdmitsOnlyTheProbe
  BY DEF IInv
<1>2. QED
  BY <1>1, Invariance, PTL

\* No probe outlives its cooldown under the current generation.
THEOREM ProbesEndWithTheirCooldown == Spec => []ProbeImpliesCooldown
<1>1. IInv => ProbeImpliesCooldown
  BY DEF IInv
<1>2. QED
  BY <1>1, Invariance, PTL

\* However rows are opened, probed, released, taken over and evicted, a
\* half-open circuit is decided by at most one attempt.
THEOREM OneOwnerPerCircuit == Spec => []HalfOpenHasOneOwner
<1>1. IInv => HalfOpenHasOneOwner
  BY DEF IInv
<1>2. QED
  BY <1>1, Invariance, PTL

\* The planner's copy of the gates and beginUpstreamAttempt's admit the same
\* attempts in every reachable state.
THEOREM PlannerAgrees == Spec => []PlannerAgreesWithBegin
<1>1. TypeOK => PlannerAgreesWithBegin
  <2> SUFFICES ASSUME TypeOK, NEW key \in Keys, NEW ignore \in BOOLEAN
               PROVE  PlanEligible(key, ignore) <=>
                         AccountAdmits(ignore) /\ ~ ModelBlocks(key, ignore) /\ CircuitGrants(key)
    BY DEF PlannerAgreesWithBegin
  <2>1. CircuitEligible(key) <=> CircuitGrants(key)
    BY DEF CircuitEligible, CircuitGrants
  <2>2. (health.status # "reauth_required" /\ (ignore \/ ~ AccountCooldownBlocks))
           <=> AccountAdmits(ignore)
    <3>1. /\ health.status \in {"none", "cooldown", "reauth_required"}
          /\ health.nextEligibleAt \in Nat /\ health.lastProbeAt \in Nat /\ now \in Nat
          /\ ProbeInterval \in Nat
      BY HealthAssumption DEF TypeOK, Health, HealthAssumption
    <3>2. QED
      BY <3>1 DEF AccountCooldownBlocks, AccountAdmits, CooldownOver, ProbeDue
  <2>3. QED
    BY <2>1, <2>2 DEF PlanEligible
<1>2. QED
  BY <1>1, TypeCorrect, PTL

-----------------------------------------------------------------------------
(* What a step may never do *)

\* A settlement ends one lease of one attempt.
LEMMA SettlementsOnly ==
    ASSUME IInv, [Next]_vars, NEW a \in Attempts,
           a \in Live, lease'[a] = NoLease, crashes' = crashes
    PROVE  \E outcome \in Outcomes : Settle(a, outcome)
<1>1. lease'[a] # lease[a] /\ lease \in [Attempts -> Lease \cup {NoLease}]
  BY DEF Live, IInv, TypeOK
<1>2. ASSUME NEW b \in Attempts, NEW key \in Keys, NEW ignore \in BOOLEAN, Begin(b, key, ignore)
      PROVE  FALSE
  <2>1. lease[b] = NoLease /\ \E l : lease' = [lease EXCEPT ![b] = l]
    BY <1>2 DEF Begin
  <2>2. b # a /\ lease'[a] = lease[a]
    BY <1>1, <2>1 DEF Live
  <2>3. QED
    BY <1>1, <2>2
<1>3. ASSUME NEW b \in Attempts, NEW outcome \in Outcomes, Settle(b, outcome), b # a
      PROVE  FALSE
  BY <1>1, <1>3 DEF Settle
<1>4. CASE Crash
  BY <1>4 DEF Crash, IInv, TypeOK
<1>5. QED
  BY <1>1, <1>2, <1>3, <1>4 DEF Next, vars, BeginRefused, ReplaceCredentials, ClearCooldown,
     SetQuota, ToggleCooling, Tick, SaveAll

\* Replacing the credentials fences every attempt that used the old ones.
THEOREM StaleAttemptsDoNotJudge == Spec => ReplacedCredentialsAreNotJudged
<1>1. ASSUME IInv, [Next]_vars, NEW a \in Attempts,
             a \in Live, lease'[a] = NoLease, crashes' = crashes,
             lease[a].epoch # credentialEpoch
      PROVE  UNCHANGED <<health, generation>>
  <2>1. PICK outcome \in Outcomes : Settle(a, outcome)
    BY <1>1, SettlementsOnly
  <2>2. AccountStep(a)
    BY <1>1, <2>1, SettleStep DEF IInv
  <2>3. ~ Current(a)
    BY <1>1 DEF IInv, LeasesAreOfTheirEpoch
  <2>4. QED
    BY <2>2, <2>3 DEF AccountStep
<1>2. IInv /\ [Next]_vars =>
        [\A a \in Attempts :
           /\ a \in Live /\ lease'[a] = NoLease /\ crashes' = crashes
           /\ lease[a].epoch # credentialEpoch
           => UNCHANGED <<health, generation>>]_vars
  BY <1>1
<1>3. QED
  BY <1>2, Invariance, PTL DEF Spec, ReplacedCredentialsAreNotJudged

\* A success only lifts a cooldown that began before the attempt did.
THEOREM LateSuccessLiftsNothing == Spec => SuccessLiftsOnlyOlderCooldown
<1>1. ASSUME IInv, [Next]_vars, NEW a \in Attempts,
             a \in Live, lease'[a] = NoLease, crashes' = crashes,
             health.status = "cooldown", health'.status = "none"
      PROVE  lease[a].startedAt >= health.startedAt
  <2>1. PICK outcome \in Outcomes : Settle(a, outcome)
    BY <1>1, SettlementsOnly
  <2>2. AccountStep(a)
    BY <1>1, <2>1, SettleStep DEF IInv
  <2>3. health \in Health
    BY <1>1 DEF IInv, TypeOK
  <2>4. [health EXCEPT !.probeInFlight = FALSE].status = health.status
    BY <2>3 DEF Health
  <2>5. Current(a)
    BY <1>1, <2>2, <2>4 DEF AccountStep
  <2>6. QED
    BY <1>1, <2>5 DEF IInv, ProbesFollowTheCooldown
<1>2. IInv /\ [Next]_vars =>
        [\A a \in Attempts :
           /\ a \in Live /\ lease'[a] = NoLease /\ crashes' = crashes
           /\ health.status = "cooldown" /\ health'.status = "none"
           => lease[a].startedAt >= health.startedAt]_vars
  BY <1>1
<1>3. QED
  BY <1>2, Invariance, PTL DEF Spec, SuccessLiftsOnlyOlderCooldown

\* No success of an attempt begun before a circuit opened closes it.
THEOREM OpenCircuitsWaitForTheirProbe == Spec => OpenClosesOnlyThroughProbe
<1>1. ASSUME IInv, [Next]_vars, NEW key \in Keys,
             circuits[key].status = "open", circuits'[key].status = "closed"
      PROVE  FALSE
  <2>1. circuits'[key] # circuits[key]
    BY <1>1
  <2>2. ASSUME NEW a \in Attempts, NEW k \in Keys, NEW ignore \in BOOLEAN, Begin(a, k, ignore)
        PROVE  FALSE
    BY <1>1, <2>1, <2>2, TakeStep DEF Begin, IInv
  <2>3. ASSUME NEW a \in Attempts, NEW outcome \in Outcomes, Settle(a, outcome)
        PROVE  FALSE
    <3>1. CircuitStep(lease[a])
      BY <1>1, <2>3, SettleStep DEF IInv
    <3>2. key = lease[a].key /\ CircuitGeneration(key) = lease[a].circuitGeneration
      BY <1>1, <2>1, <3>1 DEF CircuitStep, AbsentCircuit
    <3>3. circuits[key].generation = lease[a].circuitGeneration
      BY <1>1, <3>2 DEF CircuitGeneration
    <3>4. a \in Live
      BY <2>3 DEF Settle, Live
    <3>5. QED
      BY <1>1, <3>2, <3>3, <3>4 DEF IInv, OpenHasNoOwner
  <2>4. CASE Crash
    BY <1>1, <2>1, <2>4 DEF Crash, IInv, DiskIsBehind
  <2>5. QED
    BY <1>1, <2>1, <2>2, <2>3, <2>4 DEF Next, vars, account, BeginRefused, ReplaceCredentials,
       ClearCooldown, SetQuota, ToggleCooling, Tick, SaveAll
<1>2. IInv /\ [Next]_vars =>
        [\A key \in Keys : circuits[key].status = "open" => circuits'[key].status # "closed"]_vars
  BY <1>1
<1>3. QED
  BY <1>2, Invariance, PTL DEF Spec, OpenClosesOnlyThroughProbe

=============================================================================
