----------------------------- MODULE HostHealth -----------------------------
(***************************************************************************)
(* Reachability of the shared Codex origins, as codex-host-health.js in    *)
(* node/src keeps it: proven pre-connect failures open a circuit per       *)
(* origin, and the leases of the requests in flight are fenced by the      *)
(* generation of the entry.                                                *)
(*                                                                         *)
(* withCodexHostHealth() begins before the fetch and settles after it, so  *)
(* the two are separate actions and requests interleave between them.      *)
(***************************************************************************)
EXTENDS Integers, Sequences, FiniteSets, WellFoundedInduction, TLAPS

CONSTANTS
    Requests, Origins,
    FailureThreshold, FailureWindow, Cooldown, MaxEntries,  \* the options
    NoLease,
    MaxTime, MaxGeneration                                  \* bounds

Lease == [origin : Origins, generation : Nat, probe : BOOLEAN,
          responses : Nat]                          \* the last is a ghost

HostHealthAssumption ==
    /\ {FailureThreshold, FailureWindow, Cooldown, MaxEntries} \subseteq Nat \ {0}
    /\ {MaxTime, MaxGeneration} \subseteq Nat
    /\ NoLease \notin Lease

VARIABLES
    entries,            \* this.entries, with absent rows
    failures,           \* entry.failures
    nextGeneration,
    responses,          \* ghost: HTTP responses counted per origin
    lease,              \* what withCodexHostHealth() of each request holds
    now

vars == <<entries, failures, nextGeneration, responses, lease, now>>

Entry == [state : {"absent", "closed", "open"}, generation : Nat, openUntil : Nat,
          probeInFlight : BOOLEAN, lastUsedAt : Nat]

Absent == [state |-> "absent", generation |-> 0, openUntil |-> 0,
           probeInFlight |-> FALSE, lastUsedAt |-> 0]

Failure == [at : Nat, responses : Nat]

Live == {r \in Requests : lease[r] # NoLease}

\* currentLease()
Current(r) ==
    /\ r \in Live
    /\ entries[lease[r].origin].state # "absent"
    /\ entries[lease[r].origin].generation = lease[r].generation

-----------------------------------------------------------------------------

\* The failures are in the order of their times: what is recent is the end.
Trimmed(list) ==
    LET recent == {i \in DOMAIN list : list[i].at >= now - FailureWindow}
        oldest == CHOOSE i \in recent : \A j \in recent : i <= j
    IN  IF recent = {} THEN << >> ELSE SubSeq(list, oldest, Len(list))

\* mutant: the list is never cut
RecordedUncut(list, failure) == Append(list, failure)

\* push(), then slice(-failureThreshold)
Recorded(list, failure) ==
    LET longer == Append(list, failure)
        excess == Len(longer) - FailureThreshold
    IN  IF excess > 0 THEN SubSeq(longer, excess + 1, Len(longer)) ELSE longer

Present(rows) == {o \in Origins : rows[o].state # "absent"}

\* prune(): the least recently used entry makes room for a new one.
Pruned(rows) ==
    IF Cardinality(Present(rows)) <= MaxEntries THEN {rows}
    ELSE {[rows EXCEPT ![victim] = Absent] :
             victim \in {v \in Present(rows) :
                           \A o \in Present(rows) : rows[v].lastUsedAt <= rows[o].lastUsedAt}}

LeaseFor(o, entry, probe) ==
    [origin |-> o, generation |-> entry.generation, probe |-> probe,
     responses |-> responses[o]]

-----------------------------------------------------------------------------
(* begin() *)

\* mutant: generations are counted per entry
FreshEntryCountedAlone ==
    [Absent EXCEPT !.state = "closed", !.generation = 1, !.lastUsedAt = now]

FreshEntry ==
    [Absent EXCEPT !.state = "closed", !.generation = nextGeneration, !.lastUsedAt = now]

\* An origin not seen lately gets a fresh entry, which may itself be the one
\* that prune() drops.
BeginFresh(r, o) ==
    /\ lease[r] = NoLease /\ nextGeneration < MaxGeneration
    /\ entries[o].state = "absent"
    /\ nextGeneration' = nextGeneration + 1
    /\ entries' \in Pruned([entries EXCEPT ![o] = FreshEntry])
    /\ failures' = [p \in Origins |-> IF p = o \/ entries'[p].state = "absent" THEN << >>
                                      ELSE failures[p]]
    /\ lease' = [lease EXCEPT ![r] = LeaseFor(o, FreshEntry, FALSE)]
    /\ UNCHANGED <<responses, now>>

Touch(o) ==
    /\ failures' = [failures EXCEPT ![o] = Trimmed(@)]
    /\ UNCHANGED <<nextGeneration, responses, now>>

BeginClosed(r, o) ==
    /\ lease[r] = NoLease
    /\ entries[o].state = "closed"
    /\ entries' = [entries EXCEPT ![o].lastUsedAt = now]
    /\ lease' = [lease EXCEPT ![r] = LeaseFor(o, entries[o], FALSE)]
    /\ Touch(o)

Blocked(o) ==
    entries[o].state = "open" /\ (entries[o].openUntil > now \/ entries[o].probeInFlight)

BeginProbe(r, o) ==
    /\ lease[r] = NoLease
    /\ entries[o].state = "open" /\ ~ Blocked(o)
    /\ entries' = [entries EXCEPT ![o].lastUsedAt = now, ![o].probeInFlight = TRUE]
    /\ lease' = [lease EXCEPT ![r] = LeaseFor(o, entries[o], TRUE)]
    /\ Touch(o)

\* CodexHostUnavailableError: only the entry's bookkeeping moves.
BeginBlocked(o) ==
    /\ Blocked(o)
    /\ entries' = [entries EXCEPT ![o].lastUsedAt = now]
    /\ Touch(o)
    /\ UNCHANGED lease

-----------------------------------------------------------------------------
(* settleResponse(), settleError(), release() *)

\* mutant: a response leaves the leases in flight valid
CloseUnfenced(o) ==
    [Absent EXCEPT !.state = "closed", !.generation = entries[o].generation, !.lastUsedAt = now]

Close(o) ==
    [Absent EXCEPT !.state = "closed", !.generation = nextGeneration, !.lastUsedAt = now]

SettleResponse(r) ==
    LET o == lease[r].origin IN
    /\ Current(r) /\ nextGeneration < MaxGeneration
    /\ entries' = [entries EXCEPT ![o] = Close(o)]
    /\ failures' = [failures EXCEPT ![o] = << >>]
    /\ responses' = [responses EXCEPT ![o] = @ + 1]
    /\ nextGeneration' = nextGeneration + 1
    /\ lease' = [lease EXCEPT ![r] = NoLease]
    /\ UNCHANGED now

\* A probe's failure reopens under a new generation; another request's failure
\* opens, or reopens, when it completes the evidence.
SettleFailure(r) ==
    LET l == lease[r]
        o == l.origin
        evidence == Recorded(Trimmed(failures[o]), [at |-> now, responses |-> l.responses])
        opens == l.probe \/ Len(evidence) >= FailureThreshold
        touched == [entries[o] EXCEPT !.lastUsedAt = now]
        opened == [touched EXCEPT !.state = "open", !.openUntil = now + Cooldown,
                                  !.probeInFlight = FALSE]
    IN
    /\ Current(r) /\ (l.probe => nextGeneration < MaxGeneration)
    /\ failures' = [failures EXCEPT ![o] = evidence]
    /\ entries' = [entries EXCEPT ![o] =
                      IF l.probe THEN [opened EXCEPT !.generation = nextGeneration]
                      ELSE IF opens THEN opened ELSE touched]
    /\ nextGeneration' = IF l.probe THEN nextGeneration + 1 ELSE nextGeneration
    /\ lease' = [lease EXCEPT ![r] = NoLease]
    /\ UNCHANGED <<responses, now>>

\* mutant: a probe that says nothing keeps the probe flag
ReleaseKeepingTheFlag(r) ==
    /\ Current(r)
    /\ entries' = [entries EXCEPT ![lease[r].origin].lastUsedAt = now]
    /\ lease' = [lease EXCEPT ![r] = NoLease]
    /\ UNCHANGED <<failures, nextGeneration, responses, now>>

\* Timeouts, resets and blocked dispatches say nothing about the host.
Release(r) ==
    LET o == lease[r].origin IN
    /\ Current(r)
    /\ entries' = [entries EXCEPT ![o].lastUsedAt = now,
                                  ![o].probeInFlight = @ /\ ~ lease[r].probe]
    /\ lease' = [lease EXCEPT ![r] = NoLease]
    /\ UNCHANGED <<failures, nextGeneration, responses, now>>

\* Whatever a lease of an older generation comes to is ignored.
SettleStale(r) ==
    /\ r \in Live /\ ~ Current(r)
    /\ lease' = [lease EXCEPT ![r] = NoLease]
    /\ UNCHANGED <<entries, failures, nextGeneration, responses, now>>

\* status()
Reconcile ==
    /\ failures' = [o \in Origins |-> Trimmed(failures[o])]
    /\ UNCHANGED <<entries, nextGeneration, responses, lease, now>>

Tick ==
    /\ now < MaxTime
    /\ now' = now + 1
    /\ UNCHANGED <<entries, failures, nextGeneration, responses, lease>>

-----------------------------------------------------------------------------

Init ==
    /\ entries = [o \in Origins |-> Absent]
    /\ failures = [o \in Origins |-> << >>]
    /\ nextGeneration = 1
    /\ responses = [o \in Origins |-> 0]
    /\ lease = [r \in Requests |-> NoLease]
    /\ now = 0

Next ==
    \/ \E r \in Requests, o \in Origins :
          BeginFresh(r, o) \/ BeginClosed(r, o) \/ BeginProbe(r, o)
    \/ \E o \in Origins : BeginBlocked(o)
    \/ \E r \in Requests :
          SettleResponse(r) \/ SettleFailure(r) \/ Release(r) \/ SettleStale(r)
    \/ Reconcile
    \/ Tick

Spec == Init /\ [][Next]_vars

-----------------------------------------------------------------------------
(* Properties *)

\* Every variable keeps the shape the component gives it, and the evidence
\* never outgrows the threshold.
TypeOK ==
    /\ entries \in [Origins -> Entry]
    /\ failures \in [Origins -> Seq(Failure)]
    /\ \A o \in Origins : Len(failures[o]) <= FailureThreshold
    /\ nextGeneration \in Nat
    /\ responses \in [Origins -> Nat]
    /\ lease \in [Requests -> Lease \cup {NoLease}]
    /\ now \in Nat

\* The probe flag of an open host is always owned by a request in flight that
\* will give it back: no path leaves the host blocked for good.
ProbeFlagHasAnOwner ==
    \A o \in Origins : entries[o].probeInFlight =>
        /\ entries[o].state = "open"
        /\ \E r \in Requests : Current(r) /\ lease[r].probe /\ lease[r].origin = o

\* A half-open probe that still counts belongs to a host that is still open, so
\* its failure never turns a host that answered in between back to open.
ProbesBelongToOpenHosts ==
    \A r \in Requests : Current(r) /\ lease[r].probe => entries[lease[r].origin].state = "open"

\* Evidence against a host that is not open comes only from requests begun
\* after the last response that cleared it, also when entries are evicted and
\* created again while requests are in flight.
EvidenceIsFenced ==
    \A o \in Origins : entries[o].state # "open" =>
        \A i \in DOMAIN failures[o] : failures[o][i].responses = responses[o]

\* node/CODEX_PROXY_TODO.md: "Admit at most one half-open probe after cooldown."
\* At any time at most one probe of a host is undecided.
OneHalfOpenProbe ==
    \A r, s \in Requests :
        /\ Current(r) /\ lease[r].probe
        /\ Current(s) /\ lease[s].probe
        /\ lease[r].origin = lease[s].origin
        => r = s

-----------------------------------------------------------------------------
(* Why they hold.  A response closes the host under a new generation, so     *)
(* that a lease that still counts has seen every response of its origin;     *)
(* and a new generation is one that no lease can have, because no lease and  *)
(* no entry runs ahead of the counter, also where an entry was evicted.      *)

NoneRunsAhead ==
    /\ \A o \in Origins : entries[o].generation < nextGeneration
    /\ \A r \in Live : lease[r].generation < nextGeneration

LeasesSawTheResponses ==
    \A r \in Requests : Current(r) => lease[r].responses = responses[lease[r].origin]

EvidenceSawTheResponses ==
    \A o \in Origins : \A i \in DOMAIN failures[o] : failures[o][i].responses = responses[o]

Fenced ==
    /\ TypeOK
    /\ NoneRunsAhead
    /\ LeasesSawTheResponses
    /\ EvidenceSawTheResponses
    /\ ProbesBelongToOpenHosts
    /\ ProbeFlagHasAnOwner

\* Every set of numbers that is not empty has a least one.
LEMMA HasMinimum ==
    ASSUME NEW T, T \subseteq Nat, T # {}
    PROVE  \E x \in T : \A y \in T : x <= y
<1>1. PICK x \in T : \A y \in T : ~ (<<y, x>> \in OpToRel(<, Nat))
  BY NatLessThanWellFounded, WFMin, Zenon
<1>2. \A y \in T : ~ (y < x)
  BY <1>1 DEF OpToRel
<1> QED
  BY <1>2

\* Trimming a list of failures, as each look at an entry does, leaves some of
\* them.
LEMMA TrimmedIsPart ==
    ASSUME NEW list \in Seq(Failure)
    PROVE  /\ Trimmed(list) \in Seq(Failure)
           /\ Len(Trimmed(list)) <= Len(list)
           /\ \A i \in DOMAIN Trimmed(list) : \E j \in DOMAIN list : Trimmed(list)[i] = list[j]
<1> DEFINE recent == {i \in DOMAIN list : list[i].at >= now - FailureWindow}
           oldest == CHOOSE i \in recent : \A j \in recent : i <= j
<1>1. CASE recent = {}
  <2>1. Trimmed(list) = << >>
    BY <1>1 DEF Trimmed
  <2> QED
    BY <2>1
<1>2. CASE recent # {}
  <2>1. recent \subseteq Nat
    OBVIOUS
  <2>2. \E i \in recent : \A j \in recent : i <= j
    BY <1>2, <2>1, HasMinimum
  <2>3. oldest \in 1..Len(list)
    BY <2>2
  <2>4. Trimmed(list) = SubSeq(list, oldest, Len(list))
    BY <1>2 DEF Trimmed
  <2> HIDE DEF recent, oldest
  <2> QED
    BY <2>3, <2>4
<1> QED
  BY <1>1, <1>2

\* Recording a failure, as settleError() does, keeps the list within the
\* threshold and adds nothing else.
LEMMA RecordedIsPart ==
    ASSUME HostHealthAssumption, NEW list \in Seq(Failure), NEW failure \in Failure
    PROVE  /\ Recorded(list, failure) \in Seq(Failure)
           /\ Len(Recorded(list, failure)) <= FailureThreshold
           /\ \A i \in DOMAIN Recorded(list, failure) :
                 \/ Recorded(list, failure)[i] = failure
                 \/ \E j \in DOMAIN list : Recorded(list, failure)[i] = list[j]
<1> DEFINE longer == Append(list, failure)
           excess == Len(longer) - FailureThreshold
<1>1. /\ FailureThreshold \in Nat /\ FailureThreshold > 0
      /\ longer \in Seq(Failure) /\ Len(longer) = Len(list) + 1 /\ excess \in Int
      /\ \A i \in 1..Len(longer) :
            longer[i] = failure \/ \E j \in 1..Len(list) : longer[i] = list[j]
  BY DEF HostHealthAssumption
<1>2. Recorded(list, failure) =
         IF excess > 0 THEN SubSeq(longer, excess + 1, Len(longer)) ELSE longer
  BY DEF Recorded
<1>3. CASE excess > 0
  <2>1. Recorded(list, failure) = SubSeq(longer, excess + 1, Len(longer))
    BY <1>2, <1>3
  <2>2. excess + 1 \in 1..Len(longer) /\ Len(longer) - excess = FailureThreshold
    BY <1>1, <1>3
  <2> HIDE DEF longer
  <2>3. /\ Len(Recorded(list, failure)) = FailureThreshold
        /\ Recorded(list, failure) \in Seq(Failure)
        /\ \A i \in 1..FailureThreshold : Recorded(list, failure)[i] = longer[excess + i]
    BY <1>1, <2>1, <2>2
  <2>4. \A i \in 1..FailureThreshold : excess + i \in 1..Len(longer)
    BY <1>1, <1>3
  <2> HIDE DEF excess
  <2>5. \A i \in DOMAIN Recorded(list, failure) :
           \/ Recorded(list, failure)[i] = failure
           \/ \E j \in DOMAIN list : Recorded(list, failure)[i] = list[j]
    BY <1>1, <2>3, <2>4
  <2> QED
    BY <1>1, <2>3, <2>5
<1>4. CASE ~ (excess > 0)
  <2>1. Recorded(list, failure) = longer /\ Len(longer) <= FailureThreshold
    BY <1>1, <1>2, <1>4
  <2> HIDE DEF longer
  <2> QED
    BY <1>1, <2>1
<1> QED
  BY <1>3, <1>4

\* The first entry of an origin, and what is left of the entries when one makes
\* room for it.
LEMMA PrunedIsPart ==
    ASSUME NEW rows \in [Origins -> Entry], NEW left \in Pruned(rows)
    PROVE  /\ left \in [Origins -> Entry]
           /\ \A o \in Origins : left[o] = rows[o] \/ left[o] = Absent
<1>1. Absent \in Entry
  BY DEF Absent, Entry
<1>2. CASE left = rows
  BY <1>2
<1>3. CASE \E victim \in Origins : left = [rows EXCEPT ![victim] = Absent]
  BY <1>1, <1>3
<1> QED
  BY <1>2, <1>3 DEF Pruned, Present

LEMMA LeaseForFits ==
    ASSUME TypeOK, HostHealthAssumption,
           NEW o \in Origins, NEW entry \in Entry, NEW probe \in BOOLEAN
    PROVE  LeaseFor(o, entry, probe) \in Lease /\ LeaseFor(o, entry, probe) # NoLease
BY DEF LeaseFor, Lease, TypeOK, Entry, HostHealthAssumption

LEMMA EntriesFit ==
    ASSUME TypeOK, NEW o \in Origins
    PROVE  /\ FreshEntry \in Entry /\ Close(o) = FreshEntry
           /\ FreshEntry.state = "closed" /\ FreshEntry.generation = nextGeneration
           /\ FreshEntry.probeInFlight = FALSE
<1>1. Absent \in Entry
  BY DEF Absent, Entry
<1>2. Close(o) = FreshEntry
  BY DEF Close, FreshEntry
<1>3. nextGeneration \in Nat /\ now \in Nat
  BY DEF TypeOK
<1> QED
  BY <1>1, <1>2, <1>3 DEF FreshEntry, Entry, Absent

\* A request that begins with a fresh entry has a generation that no other
\* lease has, and where its entry took the place of another, the leases of that
\* one count no longer.
LEMMA FreshIsFenced ==
    ASSUME HostHealthAssumption, Fenced, NEW r \in Requests, NEW o \in Origins, BeginFresh(r, o)
    PROVE  Fenced'
<1>0. /\ TypeOK /\ NoneRunsAhead /\ LeasesSawTheResponses /\ EvidenceSawTheResponses
      /\ ProbesBelongToOpenHosts /\ ProbeFlagHasAnOwner
  BY DEF Fenced
<1>1. /\ FreshEntry \in Entry /\ FreshEntry.state = "closed"
      /\ FreshEntry.generation = nextGeneration /\ FreshEntry.probeInFlight = FALSE
  BY <1>0, EntriesFit
<1>2. /\ lease[r] = NoLease
      /\ nextGeneration' = nextGeneration + 1 /\ responses' = responses /\ now' = now
      /\ lease' = [lease EXCEPT ![r] = LeaseFor(o, FreshEntry, FALSE)]
  BY DEF BeginFresh
<1>3. /\ entries' \in [Origins -> Entry]
      /\ entries'[o] = FreshEntry \/ entries'[o] = Absent
      /\ \A p \in Origins \ {o} : entries'[p] = entries[p] \/ entries'[p] = Absent
  <2>1. /\ [entries EXCEPT ![o] = FreshEntry] \in [Origins -> Entry]
        /\ entries' \in Pruned([entries EXCEPT ![o] = FreshEntry])
    BY <1>0, <1>1 DEF BeginFresh, TypeOK
  <2> QED
    BY <1>0, <2>1, PrunedIsPart DEF TypeOK
<1>4. /\ lease'[r] \in Lease /\ lease'[r] # NoLease
      /\ lease'[r].origin = o /\ lease'[r].generation = nextGeneration
      /\ lease'[r].probe = FALSE /\ lease'[r].responses = responses[o]
  <2>1. lease'[r] = LeaseFor(o, FreshEntry, FALSE)
    BY <1>0, <1>2 DEF TypeOK
  <2>2. lease'[r] \in Lease /\ lease'[r] # NoLease
    BY <1>0, <1>1, <2>1, LeaseForFits
  <2>3. /\ lease'[r].origin = o /\ lease'[r].generation = FreshEntry.generation
        /\ lease'[r].probe = FALSE /\ lease'[r].responses = responses[o]
    BY <2>1 DEF LeaseFor
  <2> QED
    BY <1>1, <2>2, <2>3
<1>5. /\ lease' \in [Requests -> Lease \cup {NoLease}]
      /\ \A s \in Requests \ {r} : lease'[s] = lease[s]
  BY <1>0, <1>2, <1>4 DEF TypeOK
<1>6. \A p \in Origins : failures'[p] = << >> \/ failures'[p] = failures[p]
  <2>1. failures' = [p \in Origins |-> IF p = o \/ entries'[p].state = "absent" THEN << >>
                                       ELSE failures[p]]
    BY DEF BeginFresh
  <2> QED
    BY <2>1, Zenon
<1>7. TypeOK'
  <2>1. failures' \in [Origins -> Seq(Failure)]
    BY <1>0 DEF BeginFresh, TypeOK
  <2>2. \A p \in Origins : Len(failures'[p]) <= FailureThreshold
    BY <1>0, <1>6 DEF TypeOK, HostHealthAssumption
  <2>3. nextGeneration' \in Nat /\ now' \in Nat /\ responses' \in [Origins -> Nat]
    BY <1>0, <1>2 DEF TypeOK
  <2> QED
    BY <1>3, <1>5, <2>1, <2>2, <2>3 DEF TypeOK
<1>8. Absent.state = "absent" /\ Absent.generation = 0 /\ Absent.probeInFlight = FALSE
  BY DEF Absent
<1>9. NoneRunsAhead'
  <2>1. nextGeneration \in Nat /\ nextGeneration' = nextGeneration + 1
    BY <1>0, <1>2 DEF TypeOK
  <2>2. ASSUME NEW p \in Origins PROVE entries'[p].generation < nextGeneration'
    <3>1. entries[p].generation \in Nat /\ entries[p].generation < nextGeneration
      BY <1>0 DEF TypeOK, Entry, NoneRunsAhead
    <3>2. entries'[p].generation \in {entries[p].generation, nextGeneration, 0}
      BY <1>1, <1>3, <1>8
    <3> QED
      BY <2>1, <3>1, <3>2
  <2>3. ASSUME NEW s \in Requests, lease'[s] # NoLease
        PROVE  lease'[s].generation < nextGeneration'
    <3>1. CASE s = r
      BY <1>4, <2>1, <3>1
    <3>2. CASE s # r
      <4>1. lease'[s] = lease[s] /\ lease[s] \in Lease
        BY <1>0, <1>5, <2>3, <3>2 DEF TypeOK
      <4>2. lease[s].generation \in Nat /\ lease[s].generation < nextGeneration
        BY <1>0, <2>3, <4>1 DEF NoneRunsAhead, Live, Lease
      <4> QED
        BY <2>1, <4>1, <4>2
    <3> QED
      BY <3>1, <3>2
  <2> QED
    BY <2>2, <2>3 DEF NoneRunsAhead, Live
<1>10. \A s \in Requests \ {r} : Current(s)' =>
         /\ Current(s) /\ lease'[s] = lease[s]
         /\ lease[s].origin \in Origins \ {o}
         /\ entries'[lease[s].origin] = entries[lease[s].origin]
  <2> SUFFICES ASSUME NEW s \in Requests \ {r}, Current(s)'
               PROVE  /\ Current(s) /\ lease'[s] = lease[s]
                      /\ lease[s].origin \in Origins \ {o}
                      /\ entries'[lease[s].origin] = entries[lease[s].origin]
    OBVIOUS
  <2>1. lease'[s] = lease[s] /\ lease[s] \in Lease /\ lease[s] # NoLease
    BY <1>0, <1>5 DEF Current, Live, TypeOK
  <2>2. /\ lease[s].origin \in Origins /\ lease[s].generation \in Nat
        /\ lease[s].generation < nextGeneration
    BY <1>0, <2>1 DEF NoneRunsAhead, Live, Lease
  <2>3. /\ entries'[lease[s].origin].state # "absent"
        /\ entries'[lease[s].origin].generation = lease[s].generation
    BY <2>1 DEF Current
  <2>4. lease[s].origin # o
    BY <1>0, <1>1, <1>3, <1>8, <2>2, <2>3 DEF TypeOK
  <2>5. entries'[lease[s].origin] = entries[lease[s].origin]
    BY <1>3, <1>8, <2>2, <2>3, <2>4
  <2> QED
    BY <2>1, <2>2, <2>3, <2>4, <2>5 DEF Current, Live
<1>11. LeasesSawTheResponses'
  BY <1>0, <1>2, <1>4, <1>10 DEF LeasesSawTheResponses
<1>12. EvidenceSawTheResponses'
  BY <1>0, <1>2, <1>6 DEF EvidenceSawTheResponses
<1>13. ProbesBelongToOpenHosts'
  BY <1>0, <1>4, <1>10 DEF ProbesBelongToOpenHosts
<1>14. ProbeFlagHasAnOwner'
  <2> SUFFICES ASSUME NEW p \in Origins, entries'[p].probeInFlight
               PROVE  /\ entries'[p].state = "open"
                      /\ \E s \in Requests : Current(s)' /\ lease'[s].probe
                                               /\ lease'[s].origin = p
    BY DEF ProbeFlagHasAnOwner
  <2>1. p # o /\ entries'[p] = entries[p]
    BY <1>1, <1>3, <1>8
  <2>2. PICK s \in Requests : Current(s) /\ lease[s].probe /\ lease[s].origin = p
    BY <1>0, <2>1 DEF ProbeFlagHasAnOwner
  <2>3. s # r /\ lease'[s] = lease[s]
    BY <1>2, <1>5, <2>2 DEF Current, Live
  <2>4. Current(s)'
    BY <2>1, <2>2, <2>3 DEF Current, Live
  <2> QED
    BY <1>0, <2>1, <2>2, <2>3, <2>4 DEF ProbeFlagHasAnOwner
<1> QED
  BY <1>7, <1>9, <1>11, <1>12, <1>13, <1>14 DEF Fenced

\* A step that leaves every generation as it is keeps the leases that count; one
\* that begins says of its origin what it is.
LEMMA SameGenerations ==
    ASSUME Fenced, TypeOK', ProbeFlagHasAnOwner',
           nextGeneration' = nextGeneration, responses' = responses,
           \A o \in Origins :
              /\ entries'[o].generation = entries[o].generation
              /\ \/ entries'[o].state = entries[o].state
                 \/ entries[o].state # "absent" /\ entries'[o].state = "open",
           \A o \in Origins : \A i \in DOMAIN failures'[o] :
              failures'[o][i].responses = responses[o],
           \A s \in Requests :
              \/ lease'[s] \in {lease[s], NoLease}
              \/ /\ lease'[s].origin \in Origins
                 /\ lease'[s].generation = entries[lease'[s].origin].generation
                 /\ lease'[s].responses = responses[lease'[s].origin]
                 /\ lease'[s].probe => entries[lease'[s].origin].state = "open"
    PROVE  Fenced'
<1>1. /\ TypeOK /\ NoneRunsAhead /\ LeasesSawTheResponses /\ EvidenceSawTheResponses
      /\ ProbesBelongToOpenHosts
  BY DEF Fenced
<1>2. NoneRunsAhead'
  <2>1. ASSUME NEW s \in Requests, lease'[s] # NoLease
        PROVE  lease'[s].generation < nextGeneration'
    <3>1. CASE lease'[s] = lease[s]
      BY <1>1, <2>1, <3>1 DEF NoneRunsAhead, Live
    <3>2. CASE lease'[s] # lease[s]
      BY <1>1, <2>1, <3>2 DEF NoneRunsAhead
    <3> QED
      BY <3>1, <3>2
  <2>2. \A o \in Origins : entries'[o].generation < nextGeneration'
    BY <1>1 DEF NoneRunsAhead
  <2> QED
    BY <2>1, <2>2 DEF NoneRunsAhead, Live
<1>3. ASSUME NEW s \in Requests, Current(s)', lease'[s] = lease[s]
      PROVE  Current(s) /\ lease[s].origin \in Origins
  <2>1. lease[s] \in Lease /\ lease[s] # NoLease
    BY <1>1, <1>3 DEF TypeOK, Current, Live
  <2>2. lease[s].origin \in Origins
    BY <2>1 DEF Lease
  <2> QED
    BY <1>3, <2>1, <2>2 DEF Current, Live
<1>4. LeasesSawTheResponses'
  <2> SUFFICES ASSUME NEW s \in Requests, Current(s)'
               PROVE  lease'[s].responses = responses[lease'[s].origin]
    BY DEF LeasesSawTheResponses
  <2>1. lease'[s] # NoLease
    BY DEF Current, Live
  <2>2. CASE lease'[s] = lease[s]
    BY <1>1, <1>3, <2>2 DEF LeasesSawTheResponses
  <2> QED
    BY <2>1, <2>2
<1>5. EvidenceSawTheResponses'
  BY DEF EvidenceSawTheResponses
<1>6. ProbesBelongToOpenHosts'
  <2> SUFFICES ASSUME NEW s \in Requests, Current(s)', lease'[s].probe
               PROVE  entries'[lease'[s].origin].state = "open"
    BY DEF ProbesBelongToOpenHosts
  <2>1. lease'[s] # NoLease
    BY DEF Current, Live
  <2>2. CASE lease'[s] = lease[s]
    BY <1>1, <1>3, <2>2 DEF ProbesBelongToOpenHosts
  <2> QED
    BY <2>1, <2>2
<1> QED
  BY <1>2, <1>4, <1>5, <1>6 DEF Fenced

\* A step that gives one origin a new generation ends what its leases count for,
\* and touches no other.
LEMMA NewGeneration ==
    ASSUME Fenced, TypeOK', NEW o \in Origins,
           nextGeneration' = nextGeneration + 1,
           entries'[o].generation = nextGeneration, entries'[o].probeInFlight = FALSE,
           \A p \in Origins \ {o} : entries'[p] = entries[p] /\ responses'[p] = responses[p],
           \A p \in Origins : \A i \in DOMAIN failures'[p] :
              failures'[p][i].responses = responses'[p],
           \A s \in Requests :
              \/ lease'[s] = lease[s]
              \/ lease'[s] = NoLease /\ lease[s].origin = o
    PROVE  Fenced'
<1>1. /\ TypeOK /\ NoneRunsAhead /\ LeasesSawTheResponses /\ EvidenceSawTheResponses
      /\ ProbesBelongToOpenHosts /\ ProbeFlagHasAnOwner
  BY DEF Fenced
<1>2. nextGeneration \in Nat
  BY <1>1 DEF TypeOK
<1>3. ASSUME NEW s \in Requests, lease[s] # NoLease
      PROVE  /\ lease[s].origin \in Origins /\ lease[s].generation \in Nat
             /\ lease[s].generation < nextGeneration
  BY <1>1, <1>3 DEF TypeOK, Lease, NoneRunsAhead, Live
<1>4. NoneRunsAhead'
  <2>1. ASSUME NEW s \in Requests, lease'[s] # NoLease
        PROVE  lease'[s].generation < nextGeneration'
    BY <1>2, <1>3, <2>1
  <2>2. ASSUME NEW p \in Origins PROVE entries'[p].generation < nextGeneration'
    <3>1. entries[p].generation \in Nat /\ entries[p].generation < nextGeneration
      BY <1>1 DEF TypeOK, Entry, NoneRunsAhead
    <3> QED
      BY <1>2, <3>1
  <2> QED
    BY <2>1, <2>2 DEF NoneRunsAhead, Live
<1>5. ASSUME NEW s \in Requests, Current(s)'
      PROVE  /\ lease'[s] = lease[s] /\ Current(s)
             /\ lease[s].origin \in Origins \ {o}
  <2>1. lease'[s] = lease[s] /\ lease[s] # NoLease
    BY <1>5 DEF Current, Live
  <2>2. lease[s].origin # o
    BY <1>2, <1>3, <1>5, <2>1 DEF Current
  <2>3. lease[s].origin \in Origins \ {o}
    BY <1>3, <2>1, <2>2
  <2> QED
    BY <1>5, <2>1, <2>3 DEF Current, Live
<1>6. LeasesSawTheResponses'
  BY <1>1, <1>5 DEF LeasesSawTheResponses
<1>7. EvidenceSawTheResponses'
  BY DEF EvidenceSawTheResponses
<1>8. ProbesBelongToOpenHosts'
  BY <1>1, <1>5 DEF ProbesBelongToOpenHosts
<1>9. ProbeFlagHasAnOwner'
  <2> SUFFICES ASSUME NEW p \in Origins, entries'[p].probeInFlight
               PROVE  /\ entries'[p].state = "open"
                      /\ \E s \in Requests : Current(s)' /\ lease'[s].probe
                                               /\ lease'[s].origin = p
    BY DEF ProbeFlagHasAnOwner
  <2>1. p # o /\ entries'[p] = entries[p]
    OBVIOUS
  <2>2. PICK s \in Requests : Current(s) /\ lease[s].probe /\ lease[s].origin = p
    BY <1>1, <2>1 DEF ProbeFlagHasAnOwner
  <2>3. lease'[s] = lease[s]
    BY <2>1, <2>2
  <2>4. Current(s)'
    BY <2>1, <2>2, <2>3 DEF Current, Live
  <2> QED
    BY <1>1, <2>1, <2>2, <2>3, <2>4 DEF ProbeFlagHasAnOwner
<1> QED
  BY <1>4, <1>6, <1>7, <1>8, <1>9 DEF Fenced

\* Touching an entry trims its evidence and keeps the rest.
LEMMA TouchIsPart ==
    ASSUME HostHealthAssumption, TypeOK, NEW o \in Origins, Touch(o)
    PROVE  /\ failures' \in [Origins -> Seq(Failure)]
           /\ \A p \in Origins : Len(failures'[p]) <= FailureThreshold
           /\ \A p \in Origins : \A i \in DOMAIN failures'[p] :
                 \E j \in DOMAIN failures[p] : failures'[p][i] = failures[p][j]
<1>1. failures' = [failures EXCEPT ![o] = Trimmed(failures[o])]
  BY DEF Touch
<1>2. /\ failures \in [Origins -> Seq(Failure)]
      /\ \A p \in Origins : Len(failures[p]) <= FailureThreshold
  BY DEF TypeOK
<1>3. /\ Trimmed(failures[o]) \in Seq(Failure)
      /\ Len(Trimmed(failures[o])) <= Len(failures[o])
      /\ \A i \in DOMAIN Trimmed(failures[o]) : \E j \in DOMAIN failures[o] :
            Trimmed(failures[o])[i] = failures[o][j]
  BY <1>2, TrimmedIsPart
<1>4. failures'[o] = Trimmed(failures[o]) /\ \A p \in Origins \ {o} : failures'[p] = failures[p]
  BY <1>1, <1>2
<1>5. failures' \in [Origins -> Seq(Failure)]
  BY <1>1, <1>2, <1>3
<1>6. ASSUME NEW p \in Origins
      PROVE  /\ Len(failures'[p]) <= FailureThreshold
             /\ \A i \in DOMAIN failures'[p] :
                   \E j \in DOMAIN failures[p] : failures'[p][i] = failures[p][j]
  <2>1. CASE p = o
    <3>1. Len(failures'[o]) <= FailureThreshold
      <4>1. Len(failures[o]) <= FailureThreshold /\ Len(failures[o]) \in Nat
        BY <1>2
      <4>2. FailureThreshold \in Nat /\ Len(Trimmed(failures[o])) \in Nat
        BY <1>3 DEF HostHealthAssumption
      <4> QED
        BY <1>3, <1>4, <4>1, <4>2
    <3> QED
      BY <1>3, <1>4, <2>1, <3>1
  <2>2. CASE p # o
    BY <1>2, <1>4, <2>2
  <2> QED
    BY <2>1, <2>2
<1> QED
  BY <1>5, <1>6

\* A request that begins with an entry that is there sees it as it is; a probe
\* takes the flag and owns it.
LEMMA KnownIsFenced ==
    ASSUME HostHealthAssumption, Fenced, NEW r \in Requests, NEW o \in Origins,
           BeginClosed(r, o) \/ BeginProbe(r, o)
    PROVE  Fenced'
<1>0. TypeOK /\ EvidenceSawTheResponses /\ ProbeFlagHasAnOwner
  BY DEF Fenced
<1>1. /\ lease[r] = NoLease /\ Touch(o)
      /\ nextGeneration' = nextGeneration /\ responses' = responses /\ now' = now
  BY DEF BeginClosed, BeginProbe, Touch
<1>2. /\ now \in Nat /\ entries[o] \in Entry
      /\ entries \in [Origins -> Entry] /\ lease \in [Requests -> Lease \cup {NoLease}]
  BY <1>0 DEF TypeOK
<1>3. \E probe \in BOOLEAN :
         /\ entries' = [entries EXCEPT ![o] =
                          [entries[o] EXCEPT !.lastUsedAt = now,
                                             !.probeInFlight = probe \/ entries[o].probeInFlight]]
         /\ entries[o].state = IF probe THEN "open" ELSE "closed"
         /\ lease' = [lease EXCEPT ![r] = LeaseFor(o, entries[o], probe)]
  <2>1. CASE BeginClosed(r, o)
    <3>1. [entries[o] EXCEPT !.lastUsedAt = now] =
             [entries[o] EXCEPT !.lastUsedAt = now,
                                !.probeInFlight = FALSE \/ entries[o].probeInFlight]
      BY <1>2 DEF Entry
    <3> QED
      BY <1>2, <2>1, <3>1 DEF BeginClosed
  <2>2. CASE BeginProbe(r, o)
    BY <1>2, <2>2 DEF BeginProbe
  <2> QED
    BY <2>1, <2>2
<1>4. PICK probe \in BOOLEAN :
         /\ entries' = [entries EXCEPT ![o] =
                          [entries[o] EXCEPT !.lastUsedAt = now,
                                             !.probeInFlight = probe \/ entries[o].probeInFlight]]
         /\ entries[o].state = IF probe THEN "open" ELSE "closed"
         /\ lease' = [lease EXCEPT ![r] = LeaseFor(o, entries[o], probe)]
  BY <1>3
<1>5. /\ entries' \in [Origins -> Entry]
      /\ \A p \in Origins \ {o} : entries'[p] = entries[p]
      /\ entries'[o].state = entries[o].state
      /\ entries'[o].generation = entries[o].generation
      /\ entries'[o].probeInFlight = (probe \/ entries[o].probeInFlight)
  BY <1>2, <1>4 DEF Entry
<1>6. /\ lease'[r] \in Lease /\ lease'[r] # NoLease
      /\ lease'[r].origin = o /\ lease'[r].generation = entries[o].generation
      /\ lease'[r].probe = probe /\ lease'[r].responses = responses[o]
  <2>1. lease'[r] = LeaseFor(o, entries[o], probe)
    BY <1>2, <1>4
  <2>2. lease'[r] \in Lease /\ lease'[r] # NoLease
    BY <1>0, <1>2, <2>1, LeaseForFits
  <2>3. /\ lease'[r].origin = o /\ lease'[r].generation = entries[o].generation
        /\ lease'[r].probe = probe /\ lease'[r].responses = responses[o]
    BY <2>1 DEF LeaseFor
  <2> QED
    BY <2>2, <2>3
<1>7. /\ lease' \in [Requests -> Lease \cup {NoLease}]
      /\ \A s \in Requests \ {r} : lease'[s] = lease[s]
  BY <1>2, <1>4, <1>6
<1>8. /\ failures' \in [Origins -> Seq(Failure)]
      /\ \A p \in Origins : Len(failures'[p]) <= FailureThreshold
      /\ \A p \in Origins : \A i \in DOMAIN failures'[p] :
            \E j \in DOMAIN failures[p] : failures'[p][i] = failures[p][j]
  BY <1>0, <1>1, TouchIsPart
<1>9. TypeOK'
  BY <1>0, <1>1, <1>5, <1>7, <1>8 DEF TypeOK
<1>10. \A p \in Origins : \A i \in DOMAIN failures'[p] : failures'[p][i].responses = responses[p]
  BY <1>0, <1>8 DEF EvidenceSawTheResponses
<1>11. ProbeFlagHasAnOwner'
  <2> SUFFICES ASSUME NEW p \in Origins, entries'[p].probeInFlight
               PROVE  /\ entries'[p].state = "open"
                      /\ \E s \in Requests : Current(s)' /\ lease'[s].probe
                                               /\ lease'[s].origin = p
    BY DEF ProbeFlagHasAnOwner
  <2>1. CASE p = o /\ probe
    <3>1. Current(r)'
      BY <1>4, <1>5, <1>6, <2>1 DEF Current, Live
    <3> QED
      BY <1>4, <1>5, <1>6, <2>1, <3>1
  <2>2. CASE ~ (p = o /\ probe)
    <3>1. /\ entries[p].probeInFlight /\ entries'[p].state = entries[p].state
          /\ entries'[p].generation = entries[p].generation
      BY <1>5, <2>2
    <3>2. PICK s \in Requests : Current(s) /\ lease[s].probe /\ lease[s].origin = p
      BY <1>0, <3>1 DEF ProbeFlagHasAnOwner
    <3>3. lease'[s] = lease[s]
      BY <1>1, <1>7, <3>2 DEF Current, Live
    <3>4. Current(s)'
      BY <3>1, <3>2, <3>3 DEF Current, Live
    <3> QED
      BY <1>0, <3>1, <3>2, <3>3, <3>4 DEF ProbeFlagHasAnOwner
  <2> QED
    BY <2>1, <2>2
<1>12. \A p \in Origins : /\ entries'[p].generation = entries[p].generation
                         /\ entries'[p].state = entries[p].state
  BY <1>5
<1>13. \A s \in Requests :
         \/ lease'[s] \in {lease[s], NoLease}
         \/ /\ lease'[s].origin \in Origins
            /\ lease'[s].generation = entries[lease'[s].origin].generation
            /\ lease'[s].responses = responses[lease'[s].origin]
            /\ lease'[s].probe => entries[lease'[s].origin].state = "open"
  BY <1>4, <1>6, <1>7
<1> QED
  BY <1>1, <1>9, <1>10, <1>11, <1>12, <1>13, SameGenerations

\* A request refused, a look at the entries and the clock leave every lease as
\* it is.
LEMMA RefusedIsFenced ==
    ASSUME HostHealthAssumption, Fenced,
           Reconcile \/ Tick \/ \E o \in Origins : BeginBlocked(o)
    PROVE  Fenced'
<1>0. TypeOK /\ EvidenceSawTheResponses /\ ProbeFlagHasAnOwner
  BY DEF Fenced
<1>1. /\ lease' = lease /\ nextGeneration' = nextGeneration /\ responses' = responses
      /\ now' \in Nat
  BY <1>0 DEF Reconcile, Tick, BeginBlocked, Touch, TypeOK
<1>2. /\ entries' \in [Origins -> Entry]
      /\ \A p \in Origins : /\ entries'[p].state = entries[p].state
                            /\ entries'[p].generation = entries[p].generation
                            /\ entries'[p].probeInFlight = entries[p].probeInFlight
  <2>1. CASE Reconcile \/ Tick
    BY <1>0, <2>1 DEF Reconcile, Tick, TypeOK
  <2>2. CASE \E o \in Origins : BeginBlocked(o)
    <3>1. PICK o \in Origins : entries' = [entries EXCEPT ![o].lastUsedAt = now]
      BY <2>2 DEF BeginBlocked
    <3> QED
      BY <1>0, <3>1 DEF TypeOK, Entry
  <2> QED
    BY <2>1, <2>2
<1>3. /\ failures' \in [Origins -> Seq(Failure)]
      /\ \A p \in Origins : Len(failures'[p]) <= FailureThreshold
      /\ \A p \in Origins : \A i \in DOMAIN failures'[p] :
            \E j \in DOMAIN failures[p] : failures'[p][i] = failures[p][j]
  <2>1. CASE Tick
    BY <1>0, <2>1 DEF Tick, TypeOK
  <2>2. CASE Reconcile
    <3>1. \A p \in Origins :
             /\ failures'[p] \in Seq(Failure) /\ Len(failures'[p]) <= Len(failures[p])
             /\ \A i \in DOMAIN failures'[p] :
                   \E j \in DOMAIN failures[p] : failures'[p][i] = failures[p][j]
      BY <1>0, <2>2, TrimmedIsPart DEF Reconcile, TypeOK
    <3>2. failures' \in [Origins -> Seq(Failure)]
      BY <2>2, <3>1 DEF Reconcile
    <3>3. ASSUME NEW p \in Origins PROVE Len(failures'[p]) <= FailureThreshold
      <4>1. /\ Len(failures[p]) \in Nat /\ Len(failures[p]) <= FailureThreshold
            /\ FailureThreshold \in Nat
        BY <1>0 DEF TypeOK, HostHealthAssumption
      <4>2. Len(failures'[p]) \in Nat
        BY <3>2
      <4> QED
        BY <3>1, <4>1, <4>2
    <3> QED
      BY <3>1, <3>2, <3>3
  <2>3. CASE \E o \in Origins : BeginBlocked(o)
    BY <1>0, <2>3, TouchIsPart DEF BeginBlocked
  <2> QED
    BY <2>1, <2>2, <2>3
<1>4. TypeOK'
  BY <1>0, <1>1, <1>2, <1>3 DEF TypeOK
<1>5. \A s \in Requests : lease[s] # NoLease => lease[s].origin \in Origins
  BY <1>0 DEF TypeOK, Lease
<1>6. \A s \in Requests : Current(s) => Current(s)'
  BY <1>1, <1>2, <1>5 DEF Current, Live
<1>7. ProbeFlagHasAnOwner'
  BY <1>0, <1>1, <1>2, <1>6 DEF ProbeFlagHasAnOwner
<1>8. \A p \in Origins : \A i \in DOMAIN failures'[p] : failures'[p][i].responses = responses[p]
  BY <1>0, <1>3 DEF EvidenceSawTheResponses
<1> QED
  BY <1>1, <1>2, <1>4, <1>7, <1>8, SameGenerations

\* A lease that is given back, whether it counts or not, takes with it the flag
\* that it owns and no other.
LEMMA ReleaseIsFenced ==
    ASSUME HostHealthAssumption, Fenced, NEW r \in Requests, Release(r) \/ SettleStale(r)
    PROVE  Fenced'
<1>0. TypeOK /\ EvidenceSawTheResponses /\ ProbeFlagHasAnOwner
  BY DEF Fenced
<1>1. /\ nextGeneration' = nextGeneration /\ responses' = responses /\ now' = now
      /\ failures' = failures /\ lease' = [lease EXCEPT ![r] = NoLease]
      /\ lease[r] # NoLease
  BY DEF Release, SettleStale, Current, Live
<1>2. /\ lease' \in [Requests -> Lease \cup {NoLease}] /\ lease'[r] = NoLease
      /\ \A s \in Requests \ {r} : lease'[s] = lease[s]
      /\ lease[r].origin \in Origins
      /\ \A s \in Requests : lease[s] # NoLease => lease[s].origin \in Origins
  BY <1>0, <1>1 DEF TypeOK, Lease
<1>3. /\ entries' \in [Origins -> Entry]
      /\ \A p \in Origins : /\ entries'[p].state = entries[p].state
                            /\ entries'[p].generation = entries[p].generation
                            /\ entries'[p].probeInFlight => entries[p].probeInFlight
      /\ Current(r) /\ lease[r].probe => ~ entries'[lease[r].origin].probeInFlight
  <2>1. CASE SettleStale(r)
    BY <1>0, <2>1 DEF SettleStale, TypeOK
  <2>2. CASE Release(r)
    <3>1. entries' = [entries EXCEPT ![lease[r].origin] =
                        [entries[lease[r].origin] EXCEPT
                           !.lastUsedAt = now,
                           !.probeInFlight = entries[lease[r].origin].probeInFlight
                                                /\ ~ lease[r].probe]]
      BY <1>0, <1>2, <2>2 DEF Release, TypeOK
    <3>2. /\ lease[r].probe \in BOOLEAN /\ now \in Nat /\ entries[lease[r].origin] \in Entry
          /\ entries \in [Origins -> Entry]
      BY <1>0, <1>1, <1>2 DEF TypeOK, Lease
    <3> QED
      BY <1>2, <3>1, <3>2 DEF Entry
  <2> QED
    BY <2>1, <2>2
<1>4. TypeOK'
  BY <1>0, <1>1, <1>2, <1>3 DEF TypeOK
<1>5. ProbeFlagHasAnOwner'
  <2> SUFFICES ASSUME NEW p \in Origins, entries'[p].probeInFlight
               PROVE  /\ entries'[p].state = "open"
                      /\ \E s \in Requests : Current(s)' /\ lease'[s].probe
                                               /\ lease'[s].origin = p
    BY DEF ProbeFlagHasAnOwner
  <2>1. entries[p].probeInFlight
    BY <1>3
  <2>2. PICK s \in Requests : Current(s) /\ lease[s].probe /\ lease[s].origin = p
    BY <1>0, <2>1 DEF ProbeFlagHasAnOwner
  <2>3. s # r /\ lease'[s] = lease[s]
    BY <1>2, <1>3, <2>2
  <2>4. Current(s)'
    BY <1>3, <2>2, <2>3 DEF Current, Live
  <2> QED
    BY <1>0, <1>3, <2>1, <2>2, <2>3, <2>4 DEF ProbeFlagHasAnOwner
<1>6. \A p \in Origins : \A i \in DOMAIN failures'[p] : failures'[p][i].responses = responses[p]
  BY <1>0, <1>1 DEF EvidenceSawTheResponses
<1> QED
  BY <1>1, <1>2, <1>3, <1>4, <1>5, <1>6, SameGenerations

\* A response that counts closes the host under a new generation.
LEMMA ResponseIsFenced ==
    ASSUME HostHealthAssumption, Fenced, NEW r \in Requests, SettleResponse(r)
    PROVE  Fenced'
<1> DEFINE o == lease[r].origin
<1>0. TypeOK /\ EvidenceSawTheResponses
  BY DEF Fenced
<1>1. o \in Origins
  BY <1>0 DEF SettleResponse, Current, Live, TypeOK, Lease
<1>2. /\ entries' = [entries EXCEPT ![o] = Close(o)]
      /\ failures' = [failures EXCEPT ![o] = << >>]
      /\ responses' = [responses EXCEPT ![o] = responses[o] + 1]
      /\ nextGeneration' = nextGeneration + 1
      /\ lease' = [lease EXCEPT ![r] = NoLease] /\ now' = now
  BY <1>0, <1>1 DEF SettleResponse, TypeOK
<1>3. /\ Close(o) \in Entry /\ Close(o).generation = nextGeneration
      /\ Close(o).probeInFlight = FALSE
  BY <1>0, <1>1, EntriesFit
<1> HIDE DEF o
<1>4. /\ entries' \in [Origins -> Entry] /\ entries'[o] = Close(o)
      /\ \A p \in Origins \ {o} : entries'[p] = entries[p]
  BY <1>0, <1>1, <1>2, <1>3 DEF TypeOK
<1>5. /\ responses' \in [Origins -> Nat]
      /\ \A p \in Origins \ {o} : responses'[p] = responses[p]
  BY <1>0, <1>1, <1>2 DEF TypeOK
<1>6. /\ failures' \in [Origins -> Seq(Failure)] /\ failures'[o] = << >>
      /\ \A p \in Origins \ {o} : failures'[p] = failures[p]
  BY <1>0, <1>1, <1>2 DEF TypeOK
<1>7. \A p \in Origins : Len(failures'[p]) <= FailureThreshold
  BY <1>0, <1>6 DEF TypeOK, HostHealthAssumption
<1>8. TypeOK'
  BY <1>0, <1>2, <1>4, <1>5, <1>6, <1>7 DEF TypeOK
<1>9. \A p \in Origins : \A i \in DOMAIN failures'[p] : failures'[p][i].responses = responses'[p]
  <2> SUFFICES ASSUME NEW p \in Origins, NEW i \in DOMAIN failures'[p]
               PROVE  failures'[p][i].responses = responses'[p]
    OBVIOUS
  <2>1. p # o
    BY <1>6
  <2> QED
    BY <1>0, <1>5, <1>6, <2>1 DEF EvidenceSawTheResponses
<1>10. \A s \in Requests :
          \/ lease'[s] = lease[s]
          \/ lease'[s] = NoLease /\ lease[s].origin = o
  BY <1>0, <1>2 DEF TypeOK, o
<1> QED
  BY <1>1, <1>2, <1>3, <1>4, <1>5, <1>8, <1>9, <1>10, NewGeneration

\* A failure that counts has seen every response, and so has the evidence it
\* joins; when a probe fails, what its lease counted for is over.
LEMMA FailureIsFenced ==
    ASSUME HostHealthAssumption, Fenced, NEW r \in Requests, SettleFailure(r)
    PROVE  Fenced'
<1> DEFINE o == lease[r].origin
           evidence == Recorded(Trimmed(failures[o]),
                                [at |-> now, responses |-> lease[r].responses])
           opens == lease[r].probe \/ Len(evidence) >= FailureThreshold
           touched == [entries[o] EXCEPT !.lastUsedAt = now]
           opened == [touched EXCEPT !.state = "open", !.openUntil = now + Cooldown,
                                     !.probeInFlight = FALSE]
           entry == IF lease[r].probe THEN [opened EXCEPT !.generation = nextGeneration]
                    ELSE IF opens THEN opened ELSE touched
<1>0. /\ TypeOK /\ LeasesSawTheResponses /\ EvidenceSawTheResponses /\ ProbeFlagHasAnOwner
      /\ Current(r) /\ lease[r] # NoLease
  BY DEF Fenced, SettleFailure, Current, Live
<1>1. /\ o \in Origins /\ lease[r].probe \in BOOLEAN /\ lease[r].responses = responses[o]
      /\ responses[o] \in Nat
  BY <1>0 DEF TypeOK, Lease, LeasesSawTheResponses
<1>2. /\ entries' = [entries EXCEPT ![o] = entry]
      /\ failures' = [failures EXCEPT ![o] = evidence]
      /\ nextGeneration' = IF lease[r].probe THEN nextGeneration + 1 ELSE nextGeneration
      /\ lease' = [lease EXCEPT ![r] = NoLease]
      /\ responses' = responses /\ now' = now
  BY DEF SettleFailure
<1>3. /\ entries[o] \in Entry /\ now \in Nat /\ nextGeneration \in Nat /\ now + Cooldown \in Nat
  BY <1>0, <1>1 DEF TypeOK, HostHealthAssumption
<1>4. /\ entry \in Entry
      /\ entry.generation = IF lease[r].probe THEN nextGeneration ELSE entries[o].generation
      /\ entry.state = IF opens THEN "open" ELSE entries[o].state
      /\ entry.probeInFlight = (~ opens /\ entries[o].probeInFlight)
  <2>1. /\ touched \in Entry /\ touched.generation = entries[o].generation
        /\ touched.state = entries[o].state
        /\ touched.probeInFlight = entries[o].probeInFlight
    BY <1>3 DEF Entry
  <2> HIDE DEF touched
  <2>2. /\ opened \in Entry /\ opened.generation = entries[o].generation
        /\ opened.state = "open" /\ opened.probeInFlight = FALSE
    BY <1>3, <2>1 DEF Entry
  <2> HIDE DEF opened
  <2>3. CASE lease[r].probe
    BY <1>3, <2>2, <2>3 DEF Entry
  <2>4. CASE ~ lease[r].probe /\ opens
    BY <2>2, <2>4
  <2>5. CASE ~ lease[r].probe /\ ~ opens
    <3>1. entry = touched
      BY <2>5
    <3>2. entries[o].probeInFlight \in BOOLEAN
      BY <1>3 DEF Entry
    <3>3. entry.probeInFlight = (~ opens /\ entries[o].probeInFlight)
      <4> HIDE DEF opens, entry
      <4> QED
        BY <2>1, <2>5, <3>1, <3>2
    <3> HIDE DEF opens, entry
    <3> QED
      BY <2>1, <2>5, <3>1, <3>3
  <2> QED
    BY <1>1, <2>3, <2>4, <2>5
<1>5. /\ evidence \in Seq(Failure) /\ Len(evidence) <= FailureThreshold
      /\ \A i \in DOMAIN evidence : evidence[i].responses = responses[o]
  <2> DEFINE trimmed == Trimmed(failures[o])
             failure == [at |-> now, responses |-> lease[r].responses]
  <2>1. /\ trimmed \in Seq(Failure)
        /\ \A i \in DOMAIN trimmed : \E j \in DOMAIN failures[o] : trimmed[i] = failures[o][j]
    BY <1>0, <1>1, TrimmedIsPart DEF TypeOK
  <2>2. \A i \in DOMAIN trimmed : trimmed[i].responses = responses[o]
    BY <1>0, <1>1, <2>1 DEF EvidenceSawTheResponses
  <2>3. failure \in Failure /\ failure.responses = responses[o]
    BY <1>1, <1>3 DEF Failure
  <2> HIDE DEF trimmed, failure
  <2>4. /\ Recorded(trimmed, failure) \in Seq(Failure)
        /\ Len(Recorded(trimmed, failure)) <= FailureThreshold
        /\ \A i \in DOMAIN Recorded(trimmed, failure) :
              Recorded(trimmed, failure)[i].responses = responses[o]
    <3>1. /\ Recorded(trimmed, failure) \in Seq(Failure)
          /\ Len(Recorded(trimmed, failure)) <= FailureThreshold
          /\ \A i \in DOMAIN Recorded(trimmed, failure) :
                \/ Recorded(trimmed, failure)[i] = failure
                \/ \E j \in DOMAIN trimmed : Recorded(trimmed, failure)[i] = trimmed[j]
      BY <2>1, <2>3, RecordedIsPart
    <3> DEFINE recorded == Recorded(trimmed, failure)
    <3> HIDE DEF recorded, o
    <3>2. \A i \in DOMAIN recorded :
             recorded[i] = failure \/ \E j \in DOMAIN trimmed : recorded[i] = trimmed[j]
      BY <3>1 DEF recorded
    <3>3. \A i \in DOMAIN recorded : recorded[i].responses = responses[o]
      BY <2>2, <2>3, <3>2
    <3> QED
      BY <3>1, <3>3 DEF recorded
  <2> QED
    BY <2>4 DEF trimmed, failure
<1> HIDE DEF o, entry, evidence
<1>6. /\ entries' \in [Origins -> Entry] /\ entries'[o] = entry
      /\ \A p \in Origins \ {o} : entries'[p] = entries[p]
  BY <1>0, <1>1, <1>2, <1>4 DEF TypeOK
<1>7. /\ failures' \in [Origins -> Seq(Failure)] /\ failures'[o] = evidence
      /\ \A p \in Origins \ {o} : failures'[p] = failures[p]
  BY <1>0, <1>1, <1>2, <1>5 DEF TypeOK
<1>8. /\ lease' \in [Requests -> Lease \cup {NoLease}] /\ lease'[r] = NoLease
      /\ \A s \in Requests \ {r} : lease'[s] = lease[s]
  BY <1>0, <1>2 DEF TypeOK
<1>9. nextGeneration' \in Nat
  BY <1>2, <1>3
<1>10. \A p \in Origins : Len(failures'[p]) <= FailureThreshold
  BY <1>0, <1>5, <1>7 DEF TypeOK
<1>11. TypeOK'
  BY <1>0, <1>2, <1>6, <1>7, <1>8, <1>9, <1>10 DEF TypeOK
<1>12. \A p \in Origins : \A i \in DOMAIN failures'[p] : failures'[p][i].responses = responses[p]
  BY <1>0, <1>5, <1>7 DEF EvidenceSawTheResponses
<1>13. CASE lease[r].probe
  <2>1. nextGeneration' = nextGeneration + 1
    BY <1>2, <1>13
  <2>2. entries'[o].generation = nextGeneration /\ entries'[o].probeInFlight = FALSE
    BY <1>4, <1>6, <1>13
  <2>3. \A s \in Requests :
          \/ lease'[s] = lease[s]
          \/ lease'[s] = NoLease /\ lease[s].origin = o
    BY <1>8 DEF o
  <2>4. \A p \in Origins \ {o} : entries'[p] = entries[p] /\ responses'[p] = responses[p]
    BY <1>2, <1>6
  <2>5. \A p \in Origins : \A i \in DOMAIN failures'[p] : failures'[p][i].responses = responses'[p]
    BY <1>2, <1>12
  <2> QED
    BY <1>1, <1>11, <2>1, <2>2, <2>3, <2>4, <2>5, NewGeneration
<1>14. CASE ~ lease[r].probe
  <2>1. entries[o].state # "absent"
    BY <1>0 DEF Current, o
  <2>2. /\ entries'[o].generation = entries[o].generation
        /\ entries'[o].state \in {"open", entries[o].state}
        /\ entries'[o].probeInFlight =>
              entries[o].probeInFlight /\ entries'[o].state = entries[o].state
    BY <1>4, <1>6, <1>14
  <2>3. ProbeFlagHasAnOwner'
    <3> SUFFICES ASSUME NEW p \in Origins, entries'[p].probeInFlight
                 PROVE  /\ entries'[p].state = "open"
                        /\ \E s \in Requests : Current(s)' /\ lease'[s].probe
                                                 /\ lease'[s].origin = p
      BY DEF ProbeFlagHasAnOwner
    <3>1. /\ entries[p].probeInFlight /\ entries'[p].state = entries[p].state
          /\ entries'[p].generation = entries[p].generation
      BY <1>6, <2>2
    <3>2. PICK s \in Requests : Current(s) /\ lease[s].probe /\ lease[s].origin = p
      BY <1>0, <3>1 DEF ProbeFlagHasAnOwner
    <3>3. lease'[s] = lease[s]
      BY <1>8, <1>14, <3>2
    <3>4. Current(s)'
      BY <3>1, <3>2, <3>3 DEF Current, Live
    <3> QED
      BY <1>0, <3>1, <3>2, <3>3, <3>4 DEF ProbeFlagHasAnOwner
  <2>4. \A p \in Origins :
          /\ entries'[p].generation = entries[p].generation
          /\ \/ entries'[p].state = entries[p].state
             \/ entries[p].state # "absent" /\ entries'[p].state = "open"
    BY <1>6, <2>1, <2>2
  <2>5. nextGeneration' = nextGeneration /\ responses' = responses
    BY <1>2, <1>14
  <2>6. \A s \in Requests : lease'[s] \in {lease[s], NoLease}
    BY <1>8
  <2> QED
    BY <1>11, <1>12, <2>3, <2>4, <2>5, <2>6, SameGenerations
<1> QED
  BY <1>13, <1>14

LEMMA FencedAtFirst ==
    ASSUME HostHealthAssumption, Init
    PROVE  Fenced
<1>1. Absent \in Entry /\ Absent.generation = 0 /\ Absent.probeInFlight = FALSE
  BY DEF Absent, Entry
<1>2. TypeOK
  BY <1>1 DEF Init, TypeOK, HostHealthAssumption
<1>3. \A r \in Requests : lease[r] = NoLease
  BY DEF Init
<1>4. \A o \in Origins : entries[o] = Absent /\ failures[o] = << >>
  BY DEF Init
<1>5. nextGeneration = 1
  BY DEF Init
<1> QED
  BY <1>1, <1>2, <1>3, <1>4, <1>5 DEF Fenced, NoneRunsAhead, LeasesSawTheResponses,
     EvidenceSawTheResponses, ProbesBelongToOpenHosts, ProbeFlagHasAnOwner, Current, Live

LEMMA FencedIsKept ==
    ASSUME HostHealthAssumption, Fenced, [Next]_vars
    PROVE  Fenced'
<1>1. CASE \E r \in Requests, o \in Origins :
             BeginFresh(r, o) \/ BeginClosed(r, o) \/ BeginProbe(r, o)
  BY <1>1, FreshIsFenced, KnownIsFenced
<1>2. CASE Reconcile \/ Tick \/ \E o \in Origins : BeginBlocked(o)
  BY <1>2, RefusedIsFenced
<1>3. CASE \E r \in Requests : SettleResponse(r) \/ SettleFailure(r)
  BY <1>3, ResponseIsFenced, FailureIsFenced
<1>4. CASE \E r \in Requests : Release(r) \/ SettleStale(r)
  BY <1>4, ReleaseIsFenced
<1>5. CASE UNCHANGED vars
  BY <1>5 DEF vars, Fenced, TypeOK, NoneRunsAhead, LeasesSawTheResponses,
     EvidenceSawTheResponses, ProbesBelongToOpenHosts, ProbeFlagHasAnOwner, Current, Live
<1> QED
  BY <1>1, <1>2, <1>3, <1>4, <1>5 DEF Next

\* Leases, evidence and probe flags stay fenced, whatever the hosts answer.
THEOREM HostsAreFenced == HostHealthAssumption => (Spec => []Fenced)
<1> SUFFICES ASSUME HostHealthAssumption PROVE Spec => []Fenced
  OBVIOUS
<1>1. Init => Fenced
  BY FencedAtFirst
<1>2. Fenced /\ [Next]_vars => Fenced'
  BY FencedIsKept
<1> QED
  BY <1>1, <1>2, PTL DEF Spec

\* No host is opened, and none blocked for good, by what was sent to it before
\* it answered.
THEOREM OldEvidenceIsHarmless ==
    HostHealthAssumption =>
        (Spec => [](EvidenceIsFenced /\ ProbesBelongToOpenHosts /\ ProbeFlagHasAnOwner))
<1> SUFFICES ASSUME HostHealthAssumption
             PROVE  Spec => [](EvidenceIsFenced /\ ProbesBelongToOpenHosts /\ ProbeFlagHasAnOwner)
  OBVIOUS
<1>1. Fenced => EvidenceIsFenced /\ ProbesBelongToOpenHosts /\ ProbeFlagHasAnOwner
  BY DEF Fenced, EvidenceIsFenced, EvidenceSawTheResponses
<1> QED
  BY <1>1, HostsAreFenced, PTL
=============================================================================
