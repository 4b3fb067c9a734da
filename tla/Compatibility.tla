--------------------------- MODULE Compatibility ---------------------------
(***************************************************************************)
(* What the gateway learns about the optional fields a provider rejects:   *)
(* CompatibilityLearning (compatibility-learning.js), the facts the store  *)
(* keeps (store.js compatibilityFactRecord to compatibilityRecords) and    *)
(* the fallback loop of proxy.js that observes rejections.  One account    *)
(* and one route and model; a fact is kept per protocol fingerprint.       *)
(*                                                                         *)
(* Requests learn concurrently, each with the generation (compatibility    *)
(* and model catalog epochs) and the fact it started from.                 *)
(***************************************************************************)
EXTENDS Naturals, FiniteSets

CONSTANTS
    Requests,
    Rejects,            \* the fields this provider rejects
    PromotionCount,     \* observations that make a fact
    Gap,                \* observationGapMs
    FactTtl,            \* FACT_TTL_MS
    ObservationLimit,   \* OBSERVATION_LIMIT
    None,
    MaxTime, MaxGeneration, MaxRestarts     \* bounds

LearningAssumption ==
    /\ PromotionCount \in Nat /\ PromotionCount > 1 /\ {Gap, FactTtl} \subseteq Nat
    /\ ObservationLimit \in Nat \ {0} /\ {MaxTime, MaxGeneration, MaxRestarts} \subseteq Nat

VARIABLES
    now,
    generation,     \* compatibilityEpoch and modelCatalogEpoch
    fingerprint,    \* of the protocol this build speaks
    facts,          \* on disk: per fingerprint a fact or None
    observations,   \* in memory: per feature and value an entry or None
    req,            \* per request: its context and the fields it leaves out
    restarts,
    seen            \* history: every observation that counted

vars == <<now, generation, fingerprint, facts, observations, req, restarts, seen>>

Fingerprints == 0..MaxRestarts
Features == {<<f, v>> : f \in Rejects, v \in SUBSET Rejects}
NoFact == [feature |-> None, value |-> {}, generation |-> 0, expires |-> 0]
Idle == [phase |-> "new", generation |-> 0, fingerprint |-> 0, without |-> {}]

TypeOK ==
    /\ now \in 0..MaxTime /\ generation \in 0..MaxGeneration /\ restarts \in 0..MaxRestarts
    /\ fingerprint \in Fingerprints
    /\ \A p \in Fingerprints : facts[p].value \subseteq Rejects
    /\ Cardinality({k \in Features : observations[k] # None}) <= ObservationLimit
    /\ \A r \in Requests : req[r].phase \in {"new", "sent", "done"} /\ req[r].without \subseteq Rejects

\* activeFact: of this build, of this generation, not expired.
ActiveFact(context) ==
    LET fact == facts[context.fingerprint]
    IN IF /\ context.fingerprint = fingerprint
          /\ fact.feature # None /\ fact.expires > now
          /\ fact.generation = generation /\ fact.generation = context.generation
       THEN fact ELSE NoFact

Init ==
    /\ now = 0 /\ generation = 0 /\ fingerprint = 0 /\ restarts = 0
    /\ facts = [p \in Fingerprints |-> NoFact]
    /\ observations = [k \in Features |-> None]
    /\ req = [r \in Requests |-> Idle]
    /\ seen = {}

\* The request reads the fact for its context; it does so again after its
\* credentials were refreshed on the way.
Prepare(r) ==
    /\ req[r].phase \in {"new", "sent"}
    /\ LET context == [phase |-> "sent", generation |-> generation, fingerprint |-> fingerprint, without |-> {}]
       IN req' = [req EXCEPT ![r] = [context EXCEPT !.without = ActiveFact(context).value]]
    /\ UNCHANGED <<now, generation, fingerprint, facts, observations, restarts, seen>>

NewEntry == [count |-> 0, at |-> 0, by |-> None, generation |-> None, used |-> now]

\* Evidence of another generation starts from nothing.
\* Mutant: it is carried over.
CarriedEntry(k) == IF observations[k] = None THEN NewEntry ELSE observations[k]

Entry(k) ==
    IF observations[k] = None \/ observations[k].generation # generation THEN NewEntry
    ELSE observations[k]

\* Another attempt, or the same one after the gap.
Independent(entry, r) ==
    \/ entry.count = 0
    \/ entry.by # r
    \/ now - entry.at >= Gap

Counted(k, r) ==
    LET entry == [Entry(k) EXCEPT !.used = now]
    IN IF ~Independent(entry, r) THEN entry
       ELSE [entry EXCEPT !.count = @ + 1, !.at = now, !.by = r, !.generation = generation]

\* pruneObservations: the most recently used stay.
Kept(table) ==
    LET live == {k \in Features : table[k] # None}
    IN {table2 \in {[k \in Features |-> IF k \in K THEN table[k] ELSE None] : K \in SUBSET live} :
          LET K == {k \in Features : table2[k] # None}
          IN IF Cardinality(live) <= ObservationLimit THEN K = live
             ELSE /\ Cardinality(K) = ObservationLimit
                  /\ \A x \in K, y \in live \ K : table[x].used >= table[y].used}

\* What is noted of an observation.
Noted(k, r) == [k |-> k, generation |-> generation, by |-> r, at |-> now,
                fingerprint |-> req[r].fingerprint]

\* observe and promoteCompatibilityFact.
Observe(r, feature, value) ==
    LET k == <<feature, value>>
        entry == Counted(k, r)
    IN IF req[r].generation # generation
       THEN UNCHANGED <<observations, facts, seen>>
       ELSE /\ observations' \in Kept([observations EXCEPT ![k] = entry])
            /\ seen' = IF Independent([Entry(k) EXCEPT !.used = now], r)
                       THEN seen \cup {Noted(k, r)} ELSE seen
            /\ facts' = IF entry.count < PromotionCount THEN facts
                        ELSE [facts EXCEPT ![req[r].fingerprint] =
                               [feature |-> feature, value |-> value, generation |-> generation,
                                expires |-> now + FactTtl]]

\* The provider rejects a field the request still carries; it is observed and
\* the request is sent again without it.
Reject(r, field) ==
    /\ req[r].phase = "sent"
    /\ field \in Rejects \ req[r].without
    /\ req' = [req EXCEPT ![r].without = @ \cup {field}]
    /\ Observe(r, field, req[r].without \cup {field})
    /\ UNCHANGED <<now, generation, fingerprint, restarts>>

\* The answer, of whatever kind, ends the request.
Finish(r) ==
    /\ req[r].phase = "sent"
    /\ req' = [req EXCEPT ![r].phase = "done"]
    /\ UNCHANGED <<now, generation, fingerprint, facts, observations, restarts, seen>>

\* The credentials are replaced or refreshed: the facts go, and what was observed
\* towards them is found to be of another generation when it is used again.
NewGeneration ==
    /\ generation < MaxGeneration
    /\ generation' = generation + 1
    /\ facts' = [p \in Fingerprints |-> NoFact]
    /\ UNCHANGED <<now, fingerprint, observations, req, restarts, seen>>

\* The operator resets the fact of this build, and what was observed towards it.
ResetFact ==
    /\ facts[fingerprint].feature # None
    /\ facts' = [facts EXCEPT ![fingerprint] = NoFact]
    /\ observations' = [k \in Features |-> None]
    /\ seen' = {x \in seen : x.fingerprint # fingerprint}
    /\ UNCHANGED <<now, generation, fingerprint, req, restarts>>

\* The gateway restarts, perhaps as a build that speaks another protocol:
\* facts survive, observations and requests do not.
Restart(p) ==
    /\ restarts < MaxRestarts
    /\ restarts' = restarts + 1
    /\ fingerprint' = p
    /\ observations' = [k \in Features |-> None]
    /\ req' = [r \in Requests |-> IF req[r].phase = "new" THEN req[r] ELSE [Idle EXCEPT !.phase = "done"]]
    /\ UNCHANGED <<now, generation, facts, seen>>

Tick ==
    /\ now < MaxTime
    /\ now' = now + 1
    /\ UNCHANGED <<generation, fingerprint, facts, observations, req, restarts, seen>>

Next ==
    \/ \E r \in Requests :
         \/ Prepare(r) \/ Finish(r)
         \/ \E field \in Rejects : Reject(r, field)
    \/ NewGeneration \/ ResetFact \/ Tick
    \/ \E p \in Fingerprints : Restart(p)

Spec == Init /\ [][Next]_vars

\* Two attempts saw it, or one did at least a gap apart.
EvidenceIn(S, k, g, p) ==
    \E x, y \in S :
        /\ x.k = k /\ x.generation = g /\ x.fingerprint = p
        /\ y.k = k /\ y.generation = g /\ y.fingerprint = p
        /\ x.by # y.by \/ y.at - x.at >= Gap

(* No request leaves a field out on thin evidence: the fact a request       *)
(* would read now was observed by two attempts, or by one at least a gap   *)
(* apart, under the credentials of now and in the protocol of this build   *)
(* (compatibility-learning.js observe), whatever was replaced, reset,      *)
(* restarted or still in flight meanwhile.                                 *)
FactsAreEvidenced ==
    LET fact == ActiveFact([generation |-> generation, fingerprint |-> fingerprint])
    IN fact.feature # None =>
         EvidenceIn(seen, <<fact.feature, fact.value>>, generation, fingerprint)

\* Inductive, with these: what an entry counts was seen in this process's time,
\* the second time independently; a fact on disk has its evidence, also under the
\* fingerprints of other builds; a request on its way is of this build.
Observation == [count : Nat \ {0}, at : Nat, by : Requests, generation : Nat, used : Nat]

SeenIn(S, p, k, entry) ==
    /\ \E x \in S : /\ x.k = k /\ x.generation = entry.generation /\ x.fingerprint = p
                    /\ x.by = entry.by /\ x.at = entry.at
    /\ entry.count > 1 => EvidenceIn(S, k, entry.generation, p)

ObservationsWereSeen ==
    /\ DOMAIN observations = Features
    /\ \A k \in Features : observations[k] # None =>
         observations[k] \in Observation /\ SeenIn(seen, fingerprint, k, observations[k])

FactsHaveEvidence ==
    /\ DOMAIN facts = Fingerprints
    /\ \A p \in Fingerprints : facts[p].value \subseteq Rejects
    /\ \A p \in Fingerprints : facts[p].feature # None =>
         EvidenceIn(seen, <<facts[p].feature, facts[p].value>>, facts[p].generation, p)

RequestsAreOfThisBuild ==
    /\ DOMAIN req = Requests
    /\ \A r \in Requests :
         /\ DOMAIN req[r] = {"phase", "generation", "fingerprint", "without"}
         /\ req[r].phase = "sent" => req[r].fingerprint = fingerprint
         /\ req[r].without \subseteq Rejects

LearningInv ==
    /\ now \in Nat /\ generation \in Nat /\ fingerprint \in Fingerprints
    /\ ObservationsWereSeen /\ FactsHaveEvidence /\ RequestsAreOfThisBuild

=============================================================================
