------------------------------- MODULE Pacer --------------------------------
(***************************************************************************)
(* The start pacer of one upstream account (node/src/upstream-pacer.js):   *)
(* requests that come too early wait in a bounded queue that a timer, a    *)
(* microtask or a store notification drains one start at a time.           *)
(*                                                                         *)
(* Each action is one synchronous run of the event loop: acquire(), an     *)
(* abort listener, the timer callback, the microtask, or the reconcile()   *)
(* that follows every change of the upstream records.  Such a run may pass *)
(* through several methods, so the methods are operators from a record of  *)
(* the account's pacing state to the next one.                             *)
(***************************************************************************)
EXTENDS Integers, FiniteSets, Functions, WellFoundedInduction, TLAPS

CONSTANTS
    Requests,           \* callers of acquire(), each calls it once
    Models,
    Policies,           \* the pacing policies the operator switches between
    MaxTime,            \* bound of the clock
    MaxChanges          \* bound on policy changes and foreign notifications

Policy == [enabled : BOOLEAN, interval : Nat, modelInterval : [Models -> Nat],
           maxDepth : Nat \ {0}, maxAge : Nat \ {0}]

ASSUME PacerAssumption ==
    /\ IsFiniteSet(Requests)
    /\ Policies \subseteq Policy /\ Policies # {}
    /\ MaxTime \in Nat /\ MaxChanges \in Nat

Never == -1             \* lastStartAt, modelStarts and timer hold no time

VARIABLES
    queue,              \* state.queue: the entry of each waiting request
    outcome,            \* what acquire()'s promise came to
    lastStartAt, modelStarts,
    timer,              \* when the armed timer fires
    microtask,          \* is a schedule() queued as a microtask?
    policy,             \* upstream.pacing
    present,            \* is the upstream still in the store?
    closed,
    sequence, now, changes,
    starts              \* ghost: paced starts since the policy last changed

pacing == <<queue, outcome, lastStartAt, modelStarts, timer, microtask, starts>>
vars == <<pacing, policy, present, closed, sequence, now, changes>>

Entry == [sequence : Nat, model : Models, enqueuedAt : Nat]
Settled == {"started", "expired", "full", "would_wait", "removed", "aborted"}
StartEvent == [by : Requests, at : Nat, model : Models]

State == [queue |-> queue, outcome |-> outcome, lastStartAt |-> lastStartAt,
          modelStarts |-> modelStarts, timer |-> timer, microtask |-> microtask,
          starts |-> starts]

Become(state) ==
    \E s \in {state} :
        /\ queue' = s.queue
        /\ outcome' = s.outcome
        /\ lastStartAt' = s.lastStartAt
        /\ modelStarts' = s.modelStarts
        /\ timer' = s.timer
        /\ microtask' = s.microtask
        /\ starts' = s.starts

Waiting(s) == DOMAIN s.queue

-----------------------------------------------------------------------------

Later(t, u) == IF t >= u THEN t ELSE u

\* mutant: the model's own interval is forgotten
EligibleAtOfAccount(s, p, model) ==
    IF s.lastStartAt = Never THEN 0 ELSE s.lastStartAt + p.interval

\* eligibleAt(): the account interval and the model's own interval.
EligibleAt(s, p, model) ==
    Later(IF s.lastStartAt = Never THEN 0 ELSE s.lastStartAt + p.interval,
          IF s.modelStarts[model] = Never THEN 0
          ELSE s.modelStarts[model] + p.modelInterval[model])

\* removeEntry() with resolveEntry() or rejectEntry(), for a set of waiters
Drain(s, waiters, result) ==
    [s EXCEPT !.queue = Restrict(@, Waiting(s) \ waiters),
              !.outcome = [r \in Requests |-> IF r \in waiters THEN result ELSE @[r]]]

\* started(), and what schedule() does for the entry it starts
Start(s, p, r, model) ==
    [Drain(s, {r}, "started") EXCEPT
        !.lastStartAt = now,
        !.modelStarts[model] = IF p.modelInterval[model] > 0 THEN now ELSE @,
        !.starts = @ \cup {[by |-> r, at |-> now, model |-> model]}]

\* mutants: off by one at the deadline, and a result no caller knows
ExpireLate(s, p) ==
    Drain(s, {r \in Waiting(s) : s.queue[r].enqueuedAt + p.maxAge < now}, "expired")
ExpireUnknown(s, p) ==
    Drain(s, {r \in Waiting(s) : s.queue[r].enqueuedAt + p.maxAge <= now}, "dropped")

\* expire()
Expire(s, p) ==
    Drain(s, {r \in Waiting(s) : s.queue[r].enqueuedAt + p.maxAge <= now}, "expired")

PruneModelStarts(s, p) ==
    [s EXCEPT !.modelStarts = [m \in Models |-> IF p.modelInterval[m] > 0 THEN @[m] ELSE Never]]

\* states.delete(): a timer is cleared, a microtask left behind finds nothing.
Forget(s) ==
    [s EXCEPT !.lastStartAt = Never, !.modelStarts = [m \in Models |-> Never],
              !.timer = Never, !.microtask = FALSE]

Ready(s, p) == {r \in Waiting(s) : EligibleAt(s, p, s.queue[r].model) <= now}

\* the sort in schedule(): earliest slot, then longest in the queue
Precedes(s, p, r, other) ==
    LET slot(x) == EligibleAt(s, p, s.queue[x].model) IN
    \/ slot(r) < slot(other)
    \/ slot(r) = slot(other) /\ s.queue[r].sequence <= s.queue[other].sequence

Winner(s, p) ==
    CHOOSE r \in Ready(s, p) : \A other \in Ready(s, p) : Precedes(s, p, r, other)

\* mutant: the timer is armed for the next slot only
MomentsOfSlots(s, p) == {EligibleAt(s, p, s.queue[r].model) : r \in Waiting(s)}

\* the moments at which some waiter expires or may start
Moments(s, p) ==
    UNION {{s.queue[r].enqueuedAt + p.maxAge, EligibleAt(s, p, s.queue[r].model)} :
              r \in Waiting(s)}

NextAt(s, p) == CHOOSE t \in Moments(s, p) : \A u \in Moments(s, p) : t <= u

\* mutant: nothing looks at the queue again after a start
StartNextOnly(s, p) ==
    LET winner == Winner(s, p) IN Start(s, p, winner, s.queue[winner].model)

StartNext(s, p) ==
    LET winner == Winner(s, p)
    IN  [Start(s, p, winner, s.queue[winner].model) EXCEPT !.microtask = TRUE]

\* schedule(), for an upstream that is still in the store
Schedule(s, p) ==
    LET pruned == PruneModelStarts([s EXCEPT !.timer = Never], p)
        fresh == Expire(pruned, p)
    IN  CASE ~ p.enabled -> Forget(Drain(pruned, Waiting(pruned), "started"))
          [] p.enabled /\ Waiting(fresh) = {} -> fresh
          [] p.enabled /\ Ready(fresh, p) # {} -> StartNext(fresh, p)
          [] OTHER -> [fresh EXCEPT !.timer = NextAt(fresh, p)]

-----------------------------------------------------------------------------
(* acquire() *)

Answer(r, result) ==
    /\ outcome' = [outcome EXCEPT ![r] = result]
    /\ UNCHANGED <<queue, lastStartAt, modelStarts, timer, microtask, starts>>

\* Closed, removed, unpaced and already cancelled callers never see the queue.
AcquireUnpaced(r) ==
    /\ outcome[r] = "idle"
    /\ \/ closed /\ Answer(r, "aborted")
       \/ ~ closed /\ ~ present /\ Answer(r, "removed")
       \/ ~ closed /\ present /\ ~ policy.enabled /\ Answer(r, "started")
       \/ ~ closed /\ present /\ policy.enabled /\ Answer(r, "aborted")
    /\ UNCHANGED <<policy, present, closed, sequence, now, changes>>

Paced(r) == outcome[r] = "idle" /\ ~ closed /\ present /\ policy.enabled

\* mutant: a newcomer takes any free slot
MustWaitForSlot(s, model) == EligibleAt(s, policy, model) > now

\* Every paced acquire() first expires the overdue waiters.
MustWait(s, model) == Waiting(s) # {} \/ EligibleAt(s, policy, model) > now

AcquireNow(r, model) ==
    LET s == Expire(State, policy) IN
    /\ Paced(r)
    /\ ~ MustWait(s, model)
    /\ Become(Start(s, policy, r, model))
    /\ UNCHANGED <<policy, present, closed, sequence, now, changes>>

AcquireRefused(r, model, mayQueue) ==
    LET s == Expire(State, policy) IN
    /\ Paced(r)
    /\ MustWait(s, model)
    /\ ~ mayQueue \/ Cardinality(Waiting(s)) >= policy.maxDepth
    /\ Become([s EXCEPT !.outcome[r] = IF mayQueue THEN "full" ELSE "would_wait"])
    /\ UNCHANGED <<policy, present, closed, sequence, now, changes>>

AcquireQueued(r, model) ==
    LET s == Expire(State, policy)
        e == [sequence |-> sequence, model |-> model, enqueuedAt |-> now]
    IN
    /\ Paced(r)
    /\ now + policy.maxAge <= MaxTime
    /\ MustWait(s, model)
    /\ Cardinality(Waiting(s)) < policy.maxDepth
    /\ sequence' = sequence + 1
    /\ Become(Schedule([s EXCEPT !.queue = [w \in Waiting(s) \cup {r} |-> IF w = r THEN e ELSE @[w]],
                                 !.outcome[r] = "waiting"], policy))
    /\ UNCHANGED <<policy, present, closed, now, changes>>

-----------------------------------------------------------------------------
(* What wakes the queue up *)

\* the abort listener of a waiting entry
Abort(r) ==
    /\ r \in Waiting(State)
    /\ Become(Schedule(Drain(State, {r}, "aborted"), policy))
    /\ UNCHANGED <<policy, present, closed, sequence, now, changes>>

TimerFires ==
    /\ timer # Never /\ timer <= now
    /\ Become(Schedule(State, policy))
    /\ UNCHANGED <<policy, present, closed, sequence, now, changes>>

MicrotaskRuns ==
    /\ microtask
    /\ Become(Schedule([State EXCEPT !.microtask = FALSE], policy))
    /\ UNCHANGED <<policy, present, closed, sequence, now, changes>>

\* reconcile() after update(id, {pacing}) ...
SetPolicy(p) ==
    /\ present /\ ~ closed /\ changes < MaxChanges
    /\ p # policy
    /\ \A r \in Waiting(State) : now + p.maxAge <= MaxTime
    /\ policy' = p
    /\ changes' = changes + 1
    /\ Become(Schedule([State EXCEPT !.starts = {}], p))
    /\ UNCHANGED <<present, closed, sequence, now>>

\* ... or after a change of any other upstream field
Notify ==
    /\ present /\ ~ closed /\ changes < MaxChanges
    /\ changes' = changes + 1
    /\ Become(Schedule(State, policy))
    /\ UNCHANGED <<policy, present, closed, sequence, now>>

Remove ==
    /\ present /\ ~ closed
    /\ present' = FALSE
    /\ Become(Forget(Drain(State, Waiting(State), "removed")))
    /\ UNCHANGED <<policy, closed, sequence, now, changes>>

Close ==
    /\ ~ closed
    /\ closed' = TRUE
    /\ Become(Forget(Drain(State, Waiting(State), "aborted")))
    /\ UNCHANGED <<policy, present, sequence, now, changes>>

Tick ==
    /\ now < MaxTime
    /\ now' = now + 1
    /\ UNCHANGED <<pacing, policy, present, closed, sequence, changes>>

-----------------------------------------------------------------------------

Init ==
    /\ queue = [r \in {} |-> Never]
    /\ outcome = [r \in Requests |-> "idle"]
    /\ lastStartAt = Never
    /\ modelStarts = [m \in Models |-> Never]
    /\ timer = Never
    /\ microtask = FALSE
    /\ policy \in Policies
    /\ present = TRUE
    /\ closed = FALSE
    /\ sequence = 1
    /\ now = 0
    /\ changes = 0
    /\ starts = {}

Next ==
    \/ \E r \in Requests : AcquireUnpaced(r) \/ Abort(r)
    \/ \E r \in Requests, model \in Models :
          \/ AcquireNow(r, model)
          \/ AcquireQueued(r, model)
          \/ \E mayQueue \in BOOLEAN : AcquireRefused(r, model, mayQueue)
    \/ TimerFires
    \/ MicrotaskRuns
    \/ \E p \in Policies : SetPolicy(p)
    \/ Notify
    \/ Remove
    \/ Close
    \/ Tick

Spec == Init /\ [][Next]_vars

\* Time passes, and the event loop runs microtasks and due timers.
FairSpec == Spec /\ WF_vars(Tick) /\ WF_vars(TimerFires) /\ WF_vars(MicrotaskRuns)

-----------------------------------------------------------------------------
(* Properties *)

\* Every variable keeps the shape the pacer gives it.
TypeOK ==
    /\ DOMAIN queue \subseteq Requests
    /\ queue \in [DOMAIN queue -> Entry]
    /\ outcome \in [Requests -> {"idle", "waiting"} \cup Settled]
    /\ lastStartAt \in Nat \cup {Never}
    /\ modelStarts \in [Models -> Nat \cup {Never}]
    /\ timer \in Nat \cup {Never}
    /\ microtask \in BOOLEAN
    /\ policy \in Policy
    /\ present \in BOOLEAN /\ closed \in BOOLEAN
    /\ sequence \in Nat /\ now \in Nat /\ changes \in Nat
    /\ starts \in SUBSET StartEvent

\* No wake-up is lost or late: a promise that is pending has its entry in the
\* live queue, and then either a microtask is about to look at the queue or a
\* timer is armed no later than the moment the entry expires or may start,
\* whatever expired, aborted or started meanwhile.
WakeUpInTime ==
    \A r \in Requests : outcome[r] = "waiting" =>
        /\ r \in Waiting(State)
        /\ microtask \/
            /\ timer # Never
            /\ timer <= queue[r].enqueuedAt + policy.maxAge
            /\ timer <= EligibleAt(State, policy, queue[r].model)

\* Under one policy, starts keep the account's interval and, per model, the
\* model's interval; fast path, queue and wake-ups all respect each other.
StartsAreSpaced ==
    policy.enabled =>
        \A s, t \in starts : s.by # t.by /\ s.at <= t.at =>
            /\ s.at + policy.interval <= t.at
            /\ s.model = t.model => s.at + policy.modelInterval[s.model] <= t.at

\* Requests for one model start in the order they queued, and a newcomer never
\* overtakes a waiter for its own model.
FirstComeFirstStarted ==
    [][\A start \in starts' \ starts, w \in Waiting(State) \cap DOMAIN queue' :
          queue[w].model = start.model =>
              /\ start.by \in Waiting(State)
              /\ queue[start.by].sequence < queue[w].sequence]_vars

\* A waiter that its deadline has overtaken is never started late, however late
\* the timer fires.
NoStartAfterDeadline ==
    [][\A r \in Waiting(State) :
          outcome'[r] = "started" /\ policy'.enabled => now < queue[r].enqueuedAt + policy'.maxAge]_vars

\* Every queued request is eventually started, expired or rejected: a request
\* queues once and never leaves a settled state, so that an account's queue that
\* is empty again and again has settled every one of them.
EveryWaiterSettles == []<>(\A r \in Requests : outcome[r] # "waiting")

-----------------------------------------------------------------------------
(* Proofs: what schedule() does of a state, that every method leaves the      *)
(* account's state sound, and the properties from that.                        *)

Times == Nat \cup {Never}
Outcomes == {"idle", "waiting"} \cup Settled
Queues == UNION {[waiters -> Entry] : waiters \in SUBSET Requests}

\* What the methods work on, and what they keep of it.
States == [queue : Queues, outcome : [Requests -> Outcomes], lastStartAt : Times,
           modelStarts : [Models -> Times], timer : Times, microtask : BOOLEAN,
           starts : SUBSET StartEvent]

\* Every set of numbers that is not empty has a least one.
LEMMA HasMinimum ==
    ASSUME NEW T, T \subseteq Nat, T # {}
    PROVE  \E x \in T : \A y \in T : x <= y
<1>1. PICK x \in T : \A y \in T : ~ (<<y, x>> \in OpToRel(<, Nat))
  BY NatLessThanWellFounded, WFMin, Zenon
<1>2. \A y \in T : ~ (y < x)
  BY <1>1 DEF OpToRel
<1> QED
  BY <1>2

LEMMA QueueIs ==
    ASSUME NEW q
    PROVE  q \in Queues <=> DOMAIN q \subseteq Requests /\ q \in [DOMAIN q -> Entry]
BY DEF Queues

LEMMA EligibleAtIs ==
    ASSUME NEW s \in States, NEW p \in Policy, NEW model \in Models
    PROVE  /\ EligibleAt(s, p, model) \in Nat
           /\ s.lastStartAt # Never => s.lastStartAt + p.interval <= EligibleAt(s, p, model)
           /\ s.modelStarts[model] # Never =>
                s.modelStarts[model] + p.modelInterval[model] <= EligibleAt(s, p, model)
BY DEF EligibleAt, Later, States, Policy, Times, Never

LEMMA EligibleAtLooksAt ==
    ASSUME NEW s, NEW t, NEW p, s.lastStartAt = t.lastStartAt, s.modelStarts = t.modelStarts
    PROVE  \A model \in Models : EligibleAt(s, p, model) = EligibleAt(t, p, model)
BY DEF EligibleAt

\* d is s with some waiters settled.
Drained(s, d, waiters, result) ==
    /\ d \in States
    /\ Waiting(d) = Waiting(s) \ waiters
    /\ \A r \in Waiting(d) : d.queue[r] = s.queue[r]
    /\ \A r \in Requests : d.outcome[r] = IF r \in waiters THEN result ELSE s.outcome[r]
    /\ d.lastStartAt = s.lastStartAt /\ d.modelStarts = s.modelStarts
    /\ d.timer = s.timer /\ d.microtask = s.microtask /\ d.starts = s.starts

LEMMA DrainIs ==
    ASSUME NEW s \in States, NEW waiters \in SUBSET Requests, NEW result \in Settled
    PROVE  Drained(s, Drain(s, waiters, result), waiters, result)
<1> DEFINE q == Restrict(s.queue, Waiting(s) \ waiters)
           o == [r \in Requests |-> IF r \in waiters THEN result ELSE s.outcome[r]]
           d == Drain(s, waiters, result)
<1>1. s.queue \in Queues /\ s.outcome \in [Requests -> Outcomes]
  BY DEF States
<1>2. DOMAIN q = Waiting(s) \ waiters /\ \A r \in DOMAIN q : q[r] = s.queue[r]
  BY DEF Restrict
<1>3. q \in Queues
  <2>1. DOMAIN q \subseteq Requests /\ q \in [DOMAIN q -> Entry]
    BY <1>1, QueueIs DEF Restrict, Waiting
  <2> QED
    BY <2>1, QueueIs
<1>4. o \in [Requests -> Outcomes]
  BY <1>1 DEF Outcomes
<1>5. d = [s EXCEPT !.queue = q, !.outcome = o]
  BY DEF Drain
<1> HIDE DEF q, o, d
<1>6. /\ d \in States /\ d.queue = q /\ d.outcome = o
      /\ d.lastStartAt = s.lastStartAt /\ d.modelStarts = s.modelStarts
      /\ d.timer = s.timer /\ d.microtask = s.microtask /\ d.starts = s.starts
  BY <1>3, <1>4, <1>5 DEF States
<1>7. \A r \in Requests : d.outcome[r] = IF r \in waiters THEN result ELSE s.outcome[r]
  BY <1>6 DEF o
<1>8. Waiting(d) = Waiting(s) \ waiters /\ \A r \in Waiting(d) : d.queue[r] = s.queue[r]
  BY <1>2, <1>6 DEF Waiting
<1> QED
  BY <1>6, <1>7, <1>8 DEF d, Drained

Overdue(s, p) == {r \in Waiting(s) : s.queue[r].enqueuedAt + p.maxAge <= now}

LEMMA WaitersAre ==
    ASSUME NEW s \in States
    PROVE  /\ Waiting(s) \subseteq Requests
           /\ \A r \in Waiting(s) :
                s.queue[r] \in Entry /\ s.queue[r].model \in Models
                /\ s.queue[r].enqueuedAt \in Nat /\ s.queue[r].sequence \in Nat
<1>1. s.queue \in Queues
  BY DEF States
<1>2. DOMAIN s.queue \subseteq Requests /\ s.queue \in [DOMAIN s.queue -> Entry]
  BY <1>1, QueueIs
<1> QED
  BY <1>2 DEF Waiting, Entry

LEMMA ExpireIs ==
    ASSUME NEW s \in States, NEW p \in Policy
    PROVE  Drained(s, Expire(s, p), Overdue(s, p), "expired")
<1>1. Overdue(s, p) \in SUBSET Requests
  BY WaitersAre DEF Overdue
<1>2. "expired" \in Settled
  BY DEF Settled
<1>3. Expire(s, p) = Drain(s, Overdue(s, p), "expired")
  BY DEF Expire, Overdue
<1> QED
  BY <1>1, <1>2, <1>3, DrainIs

\* d is s with r started.
Started(s, d, p, r, model) ==
    /\ d \in States
    /\ Waiting(d) = Waiting(s) \ {r}
    /\ \A w \in Waiting(d) : d.queue[w] = s.queue[w]
    /\ \A w \in Requests : d.outcome[w] = IF w = r THEN "started" ELSE s.outcome[w]
    /\ d.lastStartAt = now
    /\ \A m \in Models : d.modelStarts[m] = IF m = model /\ p.modelInterval[m] > 0
                                            THEN now ELSE s.modelStarts[m]
    /\ d.timer = s.timer
    /\ d.starts = s.starts \cup {[by |-> r, at |-> now, model |-> model]}

LEMMA StartIs ==
    ASSUME NEW s \in States, NEW p \in Policy, NEW r \in Requests, NEW model \in Models,
           now \in Nat
    PROVE  /\ Started(s, Start(s, p, r, model), p, r, model)
           /\ Start(s, p, r, model).microtask = s.microtask
<1> DEFINE e == Drain(s, {r}, "started")
           d == Start(s, p, r, model)
           ms == [e.modelStarts EXCEPT ![model] = IF p.modelInterval[model] > 0 THEN now ELSE @]
           st == e.starts \cup {[by |-> r, at |-> now, model |-> model]}
<1>1. "started" \in Settled /\ {r} \in SUBSET Requests
  BY DEF Settled
<1>2. Drained(s, e, {r}, "started")
  BY <1>1, DrainIs
<1> HIDE DEF e
<1> USE <1>2 DEF Drained
<1>3. ms \in [Models -> Times]
  <2>1. e.modelStarts \in [Models -> Times]
    BY <1>2 DEF States
  <2> QED
    BY <2>1 DEF Times
<1>4. \A m \in Models : ms[m] = IF m = model /\ p.modelInterval[m] > 0
                                THEN now ELSE s.modelStarts[m]
  <2>1. e.modelStarts \in [Models -> Times]
    BY <1>2 DEF States
  <2> QED
    BY <1>2, <2>1
<1>5. st \in SUBSET StartEvent
  BY <1>2 DEF States, StartEvent
<1>6. d = [e EXCEPT !.lastStartAt = now, !.modelStarts = ms, !.starts = st]
  BY DEF Start, e
<1> HIDE DEF d, ms, st
<1>7. /\ d \in States /\ d.queue = e.queue /\ d.outcome = e.outcome
      /\ d.lastStartAt = now /\ d.modelStarts = ms /\ d.timer = e.timer
      /\ d.microtask = e.microtask /\ d.starts = st
  BY <1>2, <1>3, <1>5, <1>6 DEF States, Times
<1>8. st = s.starts \cup {[by |-> r, at |-> now, model |-> model]}
  BY <1>2 DEF st
<1>9. Waiting(d) = Waiting(e)
  BY <1>7 DEF Waiting
<1> QED
  BY <1>2, <1>4, <1>7, <1>8, <1>9 DEF d, Started

\* d is s without timer, and without what no interval needs.
Pruned(s, d, p) ==
    /\ d \in States
    /\ d.queue = s.queue /\ d.outcome = s.outcome /\ d.starts = s.starts
    /\ d.lastStartAt = s.lastStartAt /\ d.microtask = s.microtask
    /\ d.timer = Never
    /\ \A m \in Models : d.modelStarts[m] = IF p.modelInterval[m] > 0
                                            THEN s.modelStarts[m] ELSE Never

LEMMA PruneIs ==
    ASSUME NEW s \in States, NEW p \in Policy
    PROVE  Pruned(s, PruneModelStarts([s EXCEPT !.timer = Never], p), p)
<1> DEFINE t == [s EXCEPT !.timer = Never]
           ms == [m \in Models |-> IF p.modelInterval[m] > 0 THEN t.modelStarts[m] ELSE Never]
           d == PruneModelStarts(t, p)
<1>1. /\ t \in States /\ t.timer = Never
      /\ t.queue = s.queue /\ t.outcome = s.outcome /\ t.starts = s.starts
      /\ t.lastStartAt = s.lastStartAt /\ t.microtask = s.microtask
      /\ t.modelStarts = s.modelStarts
  BY DEF States, Times
<1> HIDE DEF t
<1>2. ms \in [Models -> Times]
  BY <1>1 DEF States, Times
<1>3. d = [t EXCEPT !.modelStarts = ms]
  BY DEF PruneModelStarts
<1>4. \A m \in Models : ms[m] = IF p.modelInterval[m] > 0 THEN s.modelStarts[m] ELSE Never
  BY <1>1
<1> HIDE DEF ms, d
<1>5. /\ d \in States /\ d.modelStarts = ms /\ d.timer = t.timer
      /\ d.queue = t.queue /\ d.outcome = t.outcome /\ d.starts = t.starts
      /\ d.lastStartAt = t.lastStartAt /\ d.microtask = t.microtask
  BY <1>1, <1>2, <1>3 DEF States
<1> QED
  BY <1>1, <1>4, <1>5 DEF d, t, Pruned

LEMMA ForgetIs ==
    ASSUME NEW s \in States
    PROVE  /\ Forget(s) \in States
           /\ Forget(s).queue = s.queue /\ Forget(s).outcome = s.outcome
           /\ Forget(s).starts = s.starts
           /\ Forget(s).timer = Never /\ Forget(s).microtask = FALSE
BY DEF Forget, States, Times

LEMMA WinnerIs ==
    ASSUME NEW s \in States, NEW p \in Policy, Ready(s, p) # {}
    PROVE  /\ Winner(s, p) \in Ready(s, p)
           /\ \A other \in Ready(s, p) : Precedes(s, p, Winner(s, p), other)
<1> DEFINE slot(r) == EligibleAt(s, p, s.queue[r].model)
           slots == {slot(r) : r \in Ready(s, p)}
<1>1. \A r \in Ready(s, p) : slot(r) \in Nat /\ s.queue[r].sequence \in Nat
  BY WaitersAre, EligibleAtIs DEF Ready
<1>2. \A r, other \in Ready(s, p) :
        Precedes(s, p, r, other) <=>
          \/ slot(r) < slot(other)
          \/ slot(r) = slot(other) /\ s.queue[r].sequence <= s.queue[other].sequence
  BY DEF Precedes
<1>3. PICK first \in slots : \A u \in slots : first <= u
  <2>1. slots \subseteq Nat /\ slots # {}
    BY <1>1
  <2> QED
    BY <2>1, HasMinimum
<1> DEFINE early == {r \in Ready(s, p) : slot(r) = first}
           numbers == {s.queue[r].sequence : r \in early}
<1>4. PICK least \in numbers : \A n \in numbers : least <= n
  <2>1. numbers \subseteq Nat /\ numbers # {}
    BY <1>1, <1>3
  <2> QED
    BY <2>1, HasMinimum
<1>5. PICK r \in early : s.queue[r].sequence = least
  BY <1>4
<1>6. \A other \in Ready(s, p) : Precedes(s, p, r, other)
  <2> SUFFICES ASSUME NEW other \in Ready(s, p) PROVE Precedes(s, p, r, other)
    OBVIOUS
  <2>1. slot(r) = first /\ first <= slot(other) /\ r \in Ready(s, p)
    BY <1>3, <1>5
  <2>2. CASE slot(other) = first
    <3>1. least <= s.queue[other].sequence
      BY <2>2, <1>4
    <3> QED
      BY <3>1, <2>1, <2>2, <1>2, <1>5
  <2>3. CASE slot(other) # first
    <3>1. first \in Nat /\ slot(other) \in Nat
      BY <2>1, <1>1
    <3>2. slot(r) < slot(other)
      BY <3>1, <2>1, <2>3
    <3> QED
      BY <3>2, <2>1, <1>2
  <2> QED
    BY <2>2, <2>3
<1>7. \E w \in Ready(s, p) : \A other \in Ready(s, p) : Precedes(s, p, w, other)
  BY <1>5, <1>6
<1> HIDE DEF slot
<1> QED
  BY <1>7 DEF Winner

LEMMA NextAtIs ==
    ASSUME NEW s \in States, NEW p \in Policy, Waiting(s) # {}
    PROVE  /\ NextAt(s, p) \in Nat
           /\ \A r \in Waiting(s) :
                /\ NextAt(s, p) <= s.queue[r].enqueuedAt + p.maxAge
                /\ NextAt(s, p) <= EligibleAt(s, p, s.queue[r].model)
<1>1. \A r \in Waiting(s) : /\ s.queue[r].enqueuedAt + p.maxAge \in Nat
                            /\ EligibleAt(s, p, s.queue[r].model) \in Nat
  BY WaitersAre, EligibleAtIs DEF Policy
<1>2. \A r \in Waiting(s) : /\ s.queue[r].enqueuedAt + p.maxAge \in Moments(s, p)
                            /\ EligibleAt(s, p, s.queue[r].model) \in Moments(s, p)
  BY DEF Moments
<1>3. Moments(s, p) \subseteq Nat
  BY <1>1 DEF Moments
<1>4. \E t \in Moments(s, p) : \A u \in Moments(s, p) : t <= u
  BY <1>2, <1>3, HasMinimum
<1>5. NextAt(s, p) \in Moments(s, p) /\ \A u \in Moments(s, p) : NextAt(s, p) <= u
  BY <1>4 DEF NextAt
<1> QED
  BY <1>2, <1>3, <1>5

-----------------------------------------------------------------------------

\* Every waiter of s is about to be looked at in time.
Awake(s, p) ==
    \A r \in Waiting(s) :
        s.microtask \/
            /\ s.timer # Never
            /\ s.timer <= s.queue[r].enqueuedAt + p.maxAge
            /\ s.timer <= EligibleAt(s, p, s.queue[r].model)

\* From s to d nothing is started, ...
NoStart(s, d, p) ==
    /\ d.starts = s.starts /\ d.lastStartAt = s.lastStartAt
    /\ \A m \in Models : p.modelInterval[m] > 0 => d.modelStarts[m] = s.modelStarts[m]

\* ... or r is, at a time that is free.
NewStart(s, d, p, r, model) ==
    /\ s.lastStartAt # Never => s.lastStartAt + p.interval <= now
    /\ p.modelInterval[model] > 0 /\ s.modelStarts[model] # Never =>
         s.modelStarts[model] + p.modelInterval[model] <= now
    /\ d.starts = s.starts \cup {[by |-> r, at |-> now, model |-> model]}
    /\ d.lastStartAt = now
    /\ \A m \in Models : p.modelInterval[m] > 0 =>
         d.modelStarts[m] = IF m = model THEN now ELSE s.modelStarts[m]

\* Those who leave the queue from s to d are settled, the others are as before.
Settles(s, d) ==
    /\ Waiting(d) \subseteq Waiting(s)
    /\ \A r \in Waiting(d) : d.queue[r] = s.queue[r]
    /\ \A r \in Requests : IF r \in Waiting(s) \ Waiting(d) THEN d.outcome[r] \in Settled
                           ELSE d.outcome[r] = s.outcome[r]

\* schedule() under a policy that paces: who leaves the queue has expired, but for
\* one who is started in time, before every later waiter for its model.
Waits(s, d, p) ==
    /\ NoStart(s, d, p)
    /\ \A r \in Waiting(s) \ Waiting(d) : d.outcome[r] = "expired"

StartsOne(s, d, p, r) ==
    /\ r \in Waiting(s) \ Waiting(d)
    /\ NewStart(s, d, p, r, s.queue[r].model)
    /\ now < s.queue[r].enqueuedAt + p.maxAge
    /\ \A w \in Waiting(d) : s.queue[w].model = s.queue[r].model =>
                               s.queue[r].sequence <= s.queue[w].sequence
    /\ \A w \in Waiting(s) \ Waiting(d) : w # r => d.outcome[w] = "expired"

LEMMA UnpacedScheduleIs ==
    ASSUME NEW s \in States, NEW p \in Policy, ~ p.enabled
    PROVE  LET d == Schedule(s, p) IN
           /\ d \in States /\ Settles(s, d) /\ Waiting(d) = {}
           /\ d.timer = Never /\ d.microtask = FALSE /\ d.starts = s.starts
<1> DEFINE pruned == PruneModelStarts([s EXCEPT !.timer = Never], p)
           e == Drain(pruned, Waiting(pruned), "started")
<1>1. Schedule(s, p) = Forget(e)
  BY DEF Schedule
<1>2. Pruned(s, pruned, p)
  BY PruneIs
<1> HIDE DEF pruned
<1>3. pruned \in States /\ Waiting(pruned) = Waiting(s) /\ pruned.queue = s.queue
      /\ pruned.outcome = s.outcome /\ pruned.starts = s.starts
  BY <1>2 DEF Pruned, Waiting
<1>4. Drained(pruned, e, Waiting(pruned), "started")
  <2>1. Waiting(pruned) \in SUBSET Requests /\ "started" \in Settled
    BY <1>3, WaitersAre DEF Settled
  <2> QED
    BY <2>1, <1>3, DrainIs
<1> HIDE DEF e
<1>5. e \in States /\ Waiting(e) = {} /\ e.starts = s.starts
      /\ \A r \in Requests : e.outcome[r] = IF r \in Waiting(s) THEN "started" ELSE s.outcome[r]
  BY <1>3, <1>4 DEF Drained
<1>6. /\ Forget(e) \in States
      /\ Forget(e).queue = e.queue /\ Forget(e).outcome = e.outcome
      /\ Forget(e).starts = e.starts
      /\ Forget(e).timer = Never /\ Forget(e).microtask = FALSE
  BY <1>5, ForgetIs
<1>7. Waiting(Forget(e)) = {}
  BY <1>5, <1>6 DEF Waiting
<1>8. Settles(s, Forget(e))
  BY <1>5, <1>6, <1>7 DEF Settles, Settled
<1> QED
  BY <1>1, <1>5, <1>6, <1>7, <1>8

LEMMA PacedScheduleIs ==
    ASSUME NEW s \in States, NEW p \in Policy, p.enabled, now \in Nat
    PROVE  /\ Schedule(s, p) \in States
           /\ Settles(s, Schedule(s, p))
           /\ Awake(Schedule(s, p), p)
           /\ \/ Waits(s, Schedule(s, p), p)
              \/ \E r \in Waiting(s) : StartsOne(s, Schedule(s, p), p, r)
<1> DEFINE pruned == PruneModelStarts([s EXCEPT !.timer = Never], p)
           fresh == Expire(pruned, p)
           d == Schedule(s, p)
<1>1. Pruned(s, pruned, p)
  BY PruneIs
<1> HIDE DEF pruned
<1>2. Drained(pruned, fresh, Overdue(pruned, p), "expired")
  BY <1>1, ExpireIs DEF Pruned
<1> HIDE DEF fresh
<1>3. /\ fresh \in States
      /\ Waiting(fresh) \subseteq Waiting(s)
      /\ \A r \in Waiting(fresh) : fresh.queue[r] = s.queue[r]
      /\ fresh.lastStartAt = s.lastStartAt /\ fresh.starts = s.starts
      /\ \A m \in Models : fresh.modelStarts[m] = IF p.modelInterval[m] > 0
                                                  THEN s.modelStarts[m] ELSE Never
      /\ \A r \in Requests : fresh.outcome[r] = IF r \in Waiting(s) \ Waiting(fresh)
                                                THEN "expired" ELSE s.outcome[r]
  <2>1. Waiting(pruned) = Waiting(s)
    BY <1>1 DEF Pruned, Waiting
  <2>2. Overdue(pruned, p) = Waiting(s) \ Waiting(fresh)
    BY <1>2, <2>1 DEF Drained, Overdue
  <2> QED
    BY <1>1, <1>2, <2>1, <2>2 DEF Drained, Pruned
<1>4. \A r \in Waiting(fresh) : now < s.queue[r].enqueuedAt + p.maxAge
  <2> SUFFICES ASSUME NEW r \in Waiting(fresh)
               PROVE  now < s.queue[r].enqueuedAt + p.maxAge
    OBVIOUS
  <2>1. Waiting(pruned) = Waiting(s) /\ pruned.queue = s.queue
    BY <1>1 DEF Pruned, Waiting
  <2>2. ~ (s.queue[r].enqueuedAt + p.maxAge <= now)
    BY <1>2, <2>1 DEF Drained, Overdue
  <2>3. s.queue[r].enqueuedAt \in Nat /\ p.maxAge \in Nat
    BY <1>3, WaitersAre DEF Policy
  <2> QED
    BY <2>2, <2>3
<1>5. Settles(s, fresh) /\ Waits(s, fresh, p)
  BY <1>3, WaitersAre DEF Settles, Waits, NoStart, Settled
<1>6. CASE Waiting(fresh) = {}
  <2>1. d = fresh
    BY <1>6 DEF Schedule, fresh, pruned, Ready
  <2> QED
    BY <2>1, <1>3, <1>5, <1>6 DEF Awake
<1>7. CASE Waiting(fresh) # {} /\ Ready(fresh, p) # {}
  <2> DEFINE w == Winner(fresh, p)
             model == fresh.queue[w].model
             e == Start(fresh, p, w, model)
  <2>1. d = [e EXCEPT !.microtask = TRUE]
    BY <1>7 DEF Schedule, fresh, pruned, StartNext
  <2>2. /\ w \in Ready(fresh, p) /\ \A other \in Ready(fresh, p) : Precedes(fresh, p, w, other)
    BY <1>3, <1>7, WinnerIs
  <2> HIDE DEF w
  <2>3. /\ w \in Waiting(fresh) /\ w \in Requests /\ model \in Models
        /\ EligibleAt(fresh, p, model) <= now
    BY <1>3, <2>2, WaitersAre DEF Ready
  <2>4. Started(fresh, e, p, w, model)
    BY <1>3, <2>3, StartIs
  <2> HIDE DEF e
  <2>5. /\ d \in States /\ d.queue = e.queue /\ d.outcome = e.outcome /\ d.microtask = TRUE
        /\ d.lastStartAt = e.lastStartAt /\ d.modelStarts = e.modelStarts
        /\ d.starts = e.starts
    <3>1. e \in States
      BY <2>4 DEF Started
    <3> QED
      BY <2>1, <3>1 DEF States
  <2> HIDE DEF d
  <2>6. /\ Waiting(d) = Waiting(fresh) \ {w}
        /\ \A r \in Waiting(d) : d.queue[r] = s.queue[r]
        /\ \A r \in Requests : d.outcome[r] = IF r = w THEN "started" ELSE fresh.outcome[r]
    BY <1>3, <2>4, <2>5 DEF Started, Waiting
  <2>7. Settles(s, d)
    BY <1>3, <2>3, <2>6 DEF Settles, Settled
  <2>8. Awake(d, p)
    BY <2>5 DEF Awake
  <2>9. w \in Waiting(s) \ Waiting(d) /\ model = s.queue[w].model
    BY <1>3, <2>3, <2>6
  <2>10. NewStart(s, d, p, w, model)
    <3>1. /\ EligibleAt(fresh, p, model) \in Nat
          /\ fresh.lastStartAt # Never =>
               fresh.lastStartAt + p.interval <= EligibleAt(fresh, p, model)
          /\ fresh.modelStarts[model] # Never =>
               fresh.modelStarts[model] + p.modelInterval[model] <= EligibleAt(fresh, p, model)
      BY <1>3, <2>3, EligibleAtIs
    <3>2. s.lastStartAt # Never => s.lastStartAt + p.interval <= now
      <4>1. s.lastStartAt \in Times /\ p.interval \in Nat
        BY DEF States, Policy
      <4> QED
        BY <4>1, <3>1, <2>3, <1>3 DEF Times, Never
    <3>3. p.modelInterval[model] > 0 /\ s.modelStarts[model] # Never =>
            s.modelStarts[model] + p.modelInterval[model] <= now
      <4>1. s.modelStarts[model] \in Times /\ p.modelInterval[model] \in Nat
        BY <2>3 DEF States, Policy
      <4> QED
        BY <4>1, <3>1, <2>3, <1>3 DEF Times, Never
    <3>4. /\ d.starts = s.starts \cup {[by |-> w, at |-> now, model |-> model]}
          /\ d.lastStartAt = now
          /\ \A m \in Models : p.modelInterval[m] > 0 =>
               d.modelStarts[m] = IF m = model THEN now ELSE s.modelStarts[m]
      BY <1>3, <2>4, <2>5 DEF Started
    <3> QED
      BY <3>2, <3>3, <3>4 DEF NewStart
  <2>11. \A v \in Waiting(d) : s.queue[v].model = model =>
                                 s.queue[w].sequence <= s.queue[v].sequence
    <3> SUFFICES ASSUME NEW v \in Waiting(d), s.queue[v].model = model
                 PROVE  s.queue[w].sequence <= s.queue[v].sequence
      OBVIOUS
    <3>1. v \in Waiting(fresh) /\ fresh.queue[v].model = model
      BY <1>3, <2>6
    <3>2. v \in Ready(fresh, p)
      BY <3>1, <2>3 DEF Ready
    <3>3. Precedes(fresh, p, w, v)
      BY <2>2, <3>2
    <3>4. EligibleAt(fresh, p, model) \in Nat
      BY <1>3, <2>3, EligibleAtIs
    <3>5. fresh.queue[w].sequence <= fresh.queue[v].sequence
      BY <3>1, <3>3, <3>4 DEF Precedes
    <3> QED
      BY <3>1, <3>5, <1>3, <2>3
  <2>12. StartsOne(s, d, p, w)
    BY <1>3, <1>4, <2>3, <2>6, <2>9, <2>10, <2>11, WaitersAre DEF StartsOne
  <2> QED
    BY <2>5, <2>7, <2>8, <2>9, <2>12 DEF d
<1>8. CASE Waiting(fresh) # {} /\ Ready(fresh, p) = {}
  <2>1. d = [fresh EXCEPT !.timer = NextAt(fresh, p)]
    BY <1>8 DEF Schedule, fresh, pruned
  <2>2. NextAt(fresh, p) \in Nat
        /\ \A r \in Waiting(fresh) : /\ NextAt(fresh, p) <= fresh.queue[r].enqueuedAt + p.maxAge
                                     /\ NextAt(fresh, p) <= EligibleAt(fresh, p, fresh.queue[r].model)
    BY <1>3, <1>8, NextAtIs
  <2>3. /\ d \in States /\ d.queue = fresh.queue /\ d.outcome = fresh.outcome
        /\ d.timer = NextAt(fresh, p) /\ d.starts = fresh.starts
        /\ d.lastStartAt = fresh.lastStartAt /\ d.modelStarts = fresh.modelStarts
    BY <2>1, <2>2, <1>3 DEF States, Times
  <2> HIDE DEF d
  <2>4. Waiting(d) = Waiting(fresh)
    BY <2>3 DEF Waiting
  <2>5. Settles(s, d) /\ Waits(s, d, p)
    BY <1>5, <2>3, <2>4 DEF Settles, Waits, NoStart
  <2>6. Awake(d, p)
    <3>1. \A r \in Waiting(fresh) :
            EligibleAt(d, p, fresh.queue[r].model) = EligibleAt(fresh, p, fresh.queue[r].model)
      BY <1>3, <2>3, EligibleAtLooksAt, WaitersAre
    <3>2. d.timer # Never
      BY <2>2, <2>3 DEF Never
    <3> QED
      BY <2>2, <2>3, <2>4, <3>1, <3>2 DEF Awake
  <2> QED
    BY <2>3, <2>5, <2>6 DEF d
<1> QED
  BY <1>6, <1>7, <1>8

-----------------------------------------------------------------------------

\* What waits is in the queue, and the queue is in the order of its numbers.
Linked(s) == \A r \in Requests : r \in Waiting(s) <=> s.outcome[r] = "waiting"

Numbered(s, next) ==
    \A r \in Waiting(s) :
        /\ s.queue[r].sequence < next
        /\ \A w \in Waiting(s) : w # r => s.queue[w].sequence # s.queue[r].sequence

\* The pacer remembers of each start what its intervals need, ...
Remembered(s, p) ==
    \A e \in s.starts :
        /\ s.lastStartAt # Never /\ e.at <= s.lastStartAt
        /\ p.modelInterval[e.model] > 0 =>
             s.modelStarts[e.model] # Never /\ e.at <= s.modelStarts[e.model]

\* ... and has kept them.
Spaced(s, p) ==
    \A e, f \in s.starts : e.by # f.by /\ e.at <= f.at =>
        /\ e.at + p.interval <= f.at
        /\ e.model = f.model => e.at + p.modelInterval[e.model] <= f.at

\* What every method leaves of an account that is in use ...
Sound(s, p, next) ==
    /\ s \in States /\ Linked(s) /\ Numbered(s, next)
    /\ p.enabled => Awake(s, p) /\ Remembered(s, p) /\ Spaced(s, p)
    /\ ~ p.enabled => Waiting(s) = {} /\ s.timer = Never /\ ~ s.microtask

\* ... and of one that is removed or whose pacer is closed.
Quiet(s, p) ==
    /\ s \in States /\ Linked(s)
    /\ Waiting(s) = {} /\ s.timer = Never /\ ~ s.microtask
    /\ p.enabled => Spaced(s, p)

InUse == present /\ ~ closed

IInv ==
    /\ policy \in Policy /\ present \in BOOLEAN /\ closed \in BOOLEAN
    /\ sequence \in Nat /\ now \in Nat /\ changes \in Nat
    /\ InUse => Sound(State, policy, sequence)
    /\ ~ InUse => Quiet(State, policy)

\* Starts of one step come in order and in time.
InOrder(s, d) ==
    \A start \in d.starts \ s.starts, w \in Waiting(d) :
        s.queue[w].model = start.model =>
            /\ start.by \in Waiting(s)
            /\ s.queue[start.by].sequence < s.queue[w].sequence

InTime(s, d, p) ==
    \A r \in Waiting(s) : d.outcome[r] = "started" /\ p.enabled =>
        now < s.queue[r].enqueuedAt + p.maxAge

LEMMA StateIs ==
    ASSUME TypeOK
    PROVE  State \in States
<1>1. queue \in Queues
  BY QueueIs DEF TypeOK
<1> QED
  BY <1>1 DEF TypeOK, State, States, Times, Outcomes

LEMMA TypesOfInv ==
    ASSUME IInv
    PROVE  TypeOK /\ State \in States
<1>1. State \in States
  BY DEF IInv, Sound, Quiet
<1>2. /\ queue \in Queues /\ outcome \in [Requests -> Outcomes] /\ lastStartAt \in Times
      /\ modelStarts \in [Models -> Times] /\ timer \in Times /\ microtask \in BOOLEAN
      /\ starts \in SUBSET StartEvent
  BY <1>1 DEF State, States
<1>3. DOMAIN queue \subseteq Requests /\ queue \in [DOMAIN queue -> Entry]
  BY <1>2, QueueIs
<1> QED
  BY <1>1, <1>2, <1>3 DEF IInv, TypeOK, Times, Outcomes

LEMMA BecomeIs ==
    ASSUME NEW d \in States, Become(d)
    PROVE  State' = d
BY DEF Become, State, States

LEMMA NewStartKeeps ==
    ASSUME NEW s \in States, NEW d \in States, NEW p \in Policy, NEW r \in Requests,
           NEW model \in Models, now \in Nat,
           NewStart(s, d, p, r, model), Remembered(s, p), Spaced(s, p)
    PROVE  Remembered(d, p) /\ Spaced(d, p)
<1> DEFINE new == [by |-> r, at |-> now, model |-> model]
<1>1. /\ s.lastStartAt \in Times /\ s.starts \subseteq StartEvent
      /\ \A m \in Models : s.modelStarts[m] \in Times
      /\ \A m \in Models : p.modelInterval[m] \in Nat
      /\ p.interval \in Nat
  BY DEF States, Policy
<1>2. \A e \in s.starts : e.at \in Nat /\ e.model \in Models
  BY <1>1 DEF StartEvent
<1>3. d.starts = s.starts \cup {new} /\ d.lastStartAt = now
      /\ \A m \in Models : p.modelInterval[m] > 0 =>
           d.modelStarts[m] = IF m = model THEN now ELSE s.modelStarts[m]
  BY DEF NewStart
<1>4. new.by = r /\ new.at = now /\ new.model = model
  OBVIOUS
<1> HIDE DEF new
<1>5. \A e \in s.starts : e.at + p.interval <= now
  <2> SUFFICES ASSUME NEW e \in s.starts PROVE e.at + p.interval <= now
    OBVIOUS
  <2>1. s.lastStartAt # Never /\ e.at <= s.lastStartAt
    BY DEF Remembered
  <2>2. s.lastStartAt + p.interval <= now
    BY <2>1 DEF NewStart
  <2> QED
    BY <2>1, <2>2, <1>1, <1>2 DEF Times
<1>6. \A e \in s.starts : e.model = model => e.at + p.modelInterval[model] <= now
  <2> SUFFICES ASSUME NEW e \in s.starts, e.model = model
               PROVE  e.at + p.modelInterval[model] <= now
    OBVIOUS
  <2>1. CASE p.modelInterval[model] > 0
    <3>1. s.modelStarts[model] # Never /\ e.at <= s.modelStarts[model]
      BY <2>1 DEF Remembered
    <3>2. s.modelStarts[model] + p.modelInterval[model] <= now
      BY <2>1, <3>1 DEF NewStart
    <3> QED
      BY <3>1, <3>2, <1>1, <1>2 DEF Times
  <2>2. CASE ~ (p.modelInterval[model] > 0)
    <3>1. p.modelInterval[model] = 0
      BY <2>2, <1>1
    <3> QED
      BY <3>1, <1>1, <1>2, <1>5
  <2> QED
    BY <2>1, <2>2
<1>7. \A e \in s.starts : e.at <= now
  BY <1>1, <1>2, <1>5
<1>8. Remembered(d, p)
  <2> SUFFICES ASSUME NEW e \in d.starts
               PROVE  /\ d.lastStartAt # Never /\ e.at <= d.lastStartAt
                      /\ p.modelInterval[e.model] > 0 =>
                           d.modelStarts[e.model] # Never /\ e.at <= d.modelStarts[e.model]
    BY DEF Remembered
  <2>1. d.lastStartAt # Never /\ now # Never
    BY <1>3 DEF Never
  <2>2. CASE e = new
    BY <2>1, <2>2, <1>3, <1>4
  <2>3. CASE e \in s.starts
    <3>1. e.at <= now /\ e.model \in Models
      BY <2>3, <1>2, <1>7
    <3>2. p.modelInterval[e.model] > 0 =>
             s.modelStarts[e.model] # Never /\ e.at <= s.modelStarts[e.model]
      BY <2>3 DEF Remembered
    <3> QED
      BY <2>1, <3>1, <3>2, <1>3
  <2> QED
    BY <2>2, <2>3, <1>3
<1>9. Spaced(d, p)
  <2> SUFFICES ASSUME NEW e \in d.starts, NEW f \in d.starts, e.by # f.by, e.at <= f.at
               PROVE  /\ e.at + p.interval <= f.at
                      /\ e.model = f.model => e.at + p.modelInterval[e.model] <= f.at
    BY DEF Spaced
  <2>1. CASE e \in s.starts /\ f \in s.starts
    BY <2>1 DEF Spaced
  <2>2. CASE e \in s.starts /\ f = new
    BY <2>2, <1>4, <1>5, <1>6
  <2>3. CASE e = new /\ f \in s.starts
    <3>1. f.at + p.interval <= now /\ now <= f.at /\ f.at \in Nat
      BY <2>3, <1>2, <1>4, <1>5
    <3>2. f.at = now /\ p.interval = 0
      BY <3>1, <1>1
    <3>3. f.model = model => p.modelInterval[model] = 0
      <4>1. f.model = model => f.at + p.modelInterval[model] <= now
        BY <2>3, <1>6
      <4> QED
        BY <4>1, <3>2, <1>1
    <3> QED
      BY <2>3, <3>2, <3>3, <1>4
  <2> QED
    BY <2>1, <2>2, <2>3, <1>3
<1> QED
  BY <1>8, <1>9

LEMMA NoStartKeeps ==
    ASSUME NEW s \in States, NEW d \in States, NEW p \in Policy,
           NoStart(s, d, p), Remembered(s, p), Spaced(s, p)
    PROVE  Remembered(d, p) /\ Spaced(d, p)
<1>1. \A e \in s.starts : e.model \in Models
  BY DEF States, StartEvent
<1> QED
  BY <1>1 DEF NoStart, Remembered, Spaced

LEMMA SettlesKeeps ==
    ASSUME NEW s \in States, NEW d \in States, NEW next, Settles(s, d), Linked(s), Numbered(s, next)
    PROVE  Linked(d) /\ Numbered(d, next)
<1>1. "waiting" \notin Settled
  BY DEF Settled
<1>2. Waiting(s) \subseteq Requests
  BY WaitersAre
<1>3. Linked(d)
  BY <1>1, <1>2 DEF Linked, Settles
<1>4. Numbered(d, next)
  BY DEF Numbered, Settles
<1> QED
  BY <1>3, <1>4

\* schedule(), whatever called it.
LEMMA ScheduleKeeps ==
    ASSUME NEW s \in States, NEW p \in Policy, NEW next, now \in Nat,
           Linked(s), Numbered(s, next), p.enabled => Remembered(s, p) /\ Spaced(s, p)
    PROVE  /\ Sound(Schedule(s, p), p, next)
           /\ InTime(s, Schedule(s, p), p)
           /\ InOrder(s, Schedule(s, p))
           /\ Waiting(Schedule(s, p)) \subseteq Waiting(s)
<1> DEFINE d == Schedule(s, p)
<1>1. CASE ~ p.enabled
  <2>1. /\ d \in States /\ Settles(s, d) /\ Waiting(d) = {}
        /\ d.timer = Never /\ d.microtask = FALSE /\ d.starts = s.starts
    BY <1>1, UnpacedScheduleIs
  <2> HIDE DEF d
  <2>2. Sound(d, p, next)
    BY <1>1, <2>1, SettlesKeeps DEF Sound
  <2> QED
    BY <1>1, <2>1, <2>2 DEF d, InTime, InOrder
<1>2. CASE p.enabled
  <2>1. /\ d \in States /\ Settles(s, d) /\ Awake(d, p)
        /\ Waits(s, d, p) \/ \E r \in Waiting(s) : StartsOne(s, d, p, r)
    BY <1>2, PacedScheduleIs
  <2> HIDE DEF d
  <2>2. Waiting(s) \subseteq Requests
        /\ \A r \in Waiting(s) : s.queue[r].model \in Models /\ s.queue[r].sequence \in Nat
    BY WaitersAre
  <2>3. Linked(d) /\ Numbered(d, next) /\ Waiting(d) \subseteq Waiting(s)
    BY <2>1, SettlesKeeps DEF Settles
  <2>4. \A r \in Waiting(s) : d.outcome[r] = "started" => r \notin Waiting(d)
    BY <2>2, <2>3 DEF Linked
  <2>5. CASE Waits(s, d, p)
    <3>1. Remembered(d, p) /\ Spaced(d, p)
      BY <1>2, <2>1, <2>5, NoStartKeeps DEF Waits
    <3>2. InTime(s, d, p)
      BY <2>4, <2>5 DEF Waits, InTime
    <3>3. InOrder(s, d)
      BY <2>5 DEF Waits, NoStart, InOrder
    <3> QED
      BY <1>2, <2>1, <2>3, <3>1, <3>2, <3>3 DEF d, Sound
  <2>6. ASSUME NEW r \in Waiting(s), StartsOne(s, d, p, r)
        PROVE  Sound(d, p, next) /\ InTime(s, d, p) /\ InOrder(s, d)
    <3>1. Remembered(d, p) /\ Spaced(d, p)
      BY <1>2, <2>1, <2>2, <2>6, NewStartKeeps DEF StartsOne
    <3>2. InTime(s, d, p)
      BY <2>4, <2>6 DEF StartsOne, InTime
    <3>3. InOrder(s, d)
      <4> SUFFICES ASSUME NEW start \in d.starts \ s.starts, NEW w \in Waiting(d),
                          s.queue[w].model = start.model
                   PROVE  /\ start.by \in Waiting(s)
                          /\ s.queue[start.by].sequence < s.queue[w].sequence
        BY DEF InOrder
      <4>1. start = [by |-> r, at |-> now, model |-> s.queue[r].model]
        BY <2>6 DEF StartsOne, NewStart
      <4>2. start.by = r /\ start.model = s.queue[r].model
        BY <4>1
      <4>3. s.queue[r].sequence <= s.queue[w].sequence /\ w # r
        BY <2>6, <4>2 DEF StartsOne
      <4>4. s.queue[r].sequence # s.queue[w].sequence /\ w \in Waiting(s)
        BY <4>3, <2>3 DEF Numbered
      <4> QED
        BY <4>2, <4>3, <4>4, <2>2
    <3> QED
      BY <1>2, <2>1, <2>3, <3>1, <3>2, <3>3 DEF Sound
  <2> QED
    BY <2>1, <2>3, <2>5, <2>6 DEF d
<1> QED
  BY <1>1, <1>2

-----------------------------------------------------------------------------

\* What the action properties ask of a step.
StepIsInOrder ==
    \A start \in starts' \ starts, w \in Waiting(State) \cap DOMAIN queue' :
        queue[w].model = start.model =>
            /\ start.by \in Waiting(State)
            /\ queue[start.by].sequence < queue[w].sequence

StepIsInTime ==
    \A r \in Waiting(State) :
        outcome'[r] = "started" /\ policy'.enabled =>
            now < queue[r].enqueuedAt + policy'.maxAge

Careful == IInv' /\ StepIsInOrder /\ StepIsInTime

LEMMA Fields ==
    /\ State.queue = queue /\ State.outcome = outcome /\ State.lastStartAt = lastStartAt
    /\ State.modelStarts = modelStarts /\ State.timer = timer /\ State.microtask = microtask
    /\ State.starts = starts /\ Waiting(State) = DOMAIN queue
BY DEF State, Waiting

\* A step that ends in d, which is sound, and neither starts anyone out of order
\* nor late.
LEMMA SoundStep ==
    ASSUME NEW d, Become(d), Sound(d, policy', sequence'),
           policy' \in Policy, InUse', present' \in BOOLEAN, closed' \in BOOLEAN,
           sequence' \in Nat, now' \in Nat, changes' \in Nat
    PROVE  IInv'
<1>1. State' = d
  BY BecomeIs DEF Sound
<1>2. Sound(State', policy', sequence')
  BY <1>1
<1> QED
  BY <1>2 DEF IInv

LEMMA ScheduleStep ==
    ASSUME NEW s \in States, now \in Nat, Linked(s), Numbered(s, sequence'),
           policy'.enabled => Remembered(s, policy') /\ Spaced(s, policy'),
           Become(Schedule(s, policy')),
           policy' \in Policy, InUse', present' \in BOOLEAN, closed' \in BOOLEAN,
           sequence' \in Nat, now' \in Nat, changes' \in Nat
    PROVE  /\ IInv'
           /\ InTime(s, State', policy') /\ InOrder(s, State')
           /\ Waiting(State') \subseteq Waiting(s)
<1> DEFINE d == Schedule(s, policy')
<1>1. /\ Sound(d, policy', sequence')
      /\ InTime(s, d, policy') /\ InOrder(s, d) /\ Waiting(d) \subseteq Waiting(s)
  BY ScheduleKeeps
<1> HIDE DEF d
<1>2. State' = d
  BY <1>1, BecomeIs DEF d, Sound
<1>3. IInv'
  BY <1>1, SoundStep DEF d
<1> QED
  BY <1>1, <1>2, <1>3

\* What IInv says of an account somebody can do something about.
LEMMA InUseIs ==
    ASSUME IInv
    PROVE  /\ State \in States /\ Linked(State)
           /\ InUse => /\ Sound(State, policy, sequence) /\ Numbered(State, sequence)
                       /\ policy.enabled => Awake(State, policy) /\ Remembered(State, policy)
                                            /\ Spaced(State, policy)
           /\ Waiting(State) # {} \/ timer # Never \/ microtask => InUse /\ policy.enabled
BY Fields DEF IInv, Sound, Quiet

LEMMA CarefulSchedule ==
    ASSUME IInv, InUse, InUse', NEW s \in States,
           Waiting(s) \subseteq Waiting(State), Linked(s),
           \A r \in Waiting(s) : s.queue[r] = queue[r],
           \A r \in Waiting(State) \ Waiting(s) : s.outcome[r] # "started",
           policy'.enabled => Remembered(s, policy') /\ Spaced(s, policy'),
           starts' \ starts \subseteq starts' \ s.starts,
           Become(Schedule(s, policy')), policy' \in Policy,
           UNCHANGED <<present, closed, sequence, now>>, changes' \in Nat
    PROVE  Careful
<1>1. now \in Nat /\ sequence' \in Nat /\ now' \in Nat
      /\ present' \in BOOLEAN /\ closed' \in BOOLEAN
  BY DEF IInv
<1>2. Numbered(s, sequence')
  BY InUseIs, Fields DEF Numbered
<1>3. /\ IInv'
      /\ InTime(s, State', policy') /\ InOrder(s, State')
      /\ Waiting(State') \subseteq Waiting(s)
  BY <1>1, <1>2, ScheduleStep
<1>4. Settles(s, State')
  <2>1. Schedule(s, policy') = State'
    BY <1>1, <1>2, ScheduleKeeps, BecomeIs DEF Sound
  <2>2. Settles(s, Schedule(s, policy'))
    BY <1>1, UnpacedScheduleIs, PacedScheduleIs
  <2> QED
    BY <2>1, <2>2
<1>5. /\ State'.outcome = outcome' /\ State'.starts = starts' /\ State'.queue = queue'
      /\ Waiting(State') = DOMAIN queue'
  BY DEF State, Waiting
<1>6. Waiting(State) \subseteq Requests
  BY InUseIs, WaitersAre
<1>7. StepIsInTime
  <2> SUFFICES ASSUME NEW r \in Waiting(State), outcome'[r] = "started", policy'.enabled
               PROVE  now < queue[r].enqueuedAt + policy'.maxAge
    BY DEF StepIsInTime
  <2>1. r \in Waiting(s)
    BY <1>4, <1>5, <1>6 DEF Settles
  <2> QED
    BY <2>1, <1>3, <1>5 DEF InTime
<1>8. StepIsInOrder
  BY <1>3, <1>5 DEF InOrder, StepIsInOrder
<1> QED
  BY <1>3, <1>7, <1>8 DEF Careful

\* A step that settles or refuses without a start, and leaves no new starts.
LEMMA CarefulOtherwise ==
    ASSUME IInv', starts' = starts,
           \A r \in Waiting(State) : outcome'[r] # "started"
    PROVE  Careful
BY DEF Careful, StepIsInOrder, StepIsInTime

LEMMA ExpireKeeps ==
    ASSUME IInv, InUse, policy.enabled
    PROVE  LET s == Expire(State, policy) IN
           /\ Drained(State, s, Overdue(State, policy), "expired")
           /\ s \in States /\ Linked(s) /\ Numbered(s, sequence) /\ Awake(s, policy)
           /\ Remembered(s, policy) /\ Spaced(s, policy)
<1> DEFINE s == Expire(State, policy)
<1>1. /\ State \in States /\ Linked(State) /\ Numbered(State, sequence) /\ policy \in Policy
      /\ Awake(State, policy) /\ Remembered(State, policy) /\ Spaced(State, policy)
  BY InUseIs DEF IInv
<1>2. Drained(State, s, Overdue(State, policy), "expired")
  BY <1>1, ExpireIs
<1> HIDE DEF s
<1>3. s \in States /\ Settles(State, s) /\ NoStart(State, s, policy)
  <2>1. Overdue(State, policy) \subseteq Waiting(State)
    BY DEF Overdue
  <2> QED
    BY <1>2, <2>1 DEF Drained, Settles, NoStart, Settled
<1>4. Linked(s) /\ Numbered(s, sequence)
  BY <1>1, <1>3, SettlesKeeps
<1>5. Remembered(s, policy) /\ Spaced(s, policy)
  BY <1>1, <1>3, NoStartKeeps
<1>6. Awake(s, policy)
  <2>1. \A model \in Models : EligibleAt(s, policy, model) = EligibleAt(State, policy, model)
    BY <1>2, EligibleAtLooksAt DEF Drained
  <2>2. \A r \in Waiting(s) : r \in Waiting(State) /\ s.queue[r] = State.queue[r]
                              /\ State.queue[r].model \in Models
    BY <1>1, <1>3, WaitersAre DEF Settles
  <2> QED
    BY <1>1, <1>2, <2>1, <2>2 DEF Awake, Drained
<1> QED
  BY <1>2, <1>3, <1>4, <1>5, <1>6 DEF s

LEMMA AcquireUnpacedIsCareful ==
    ASSUME IInv, NEW r \in Requests, AcquireUnpaced(r)
    PROVE  Careful
<1>1. PICK result \in Settled : outcome' = [outcome EXCEPT ![r] = result]
  BY DEF AcquireUnpaced, Answer, Settled
<1>2. /\ outcome[r] = "idle"
      /\ UNCHANGED <<queue, lastStartAt, modelStarts, timer, microtask, starts>>
      /\ UNCHANGED <<policy, present, closed, sequence, now, changes>>
  BY DEF AcquireUnpaced, Answer
<1>3. State \in States /\ Linked(State) /\ outcome \in [Requests -> Outcomes]
  BY InUseIs, TypesOfInv DEF TypeOK, Outcomes
<1>4. outcome' \in [Requests -> Outcomes]
  BY <1>1, <1>3 DEF Outcomes
<1>5. /\ State' = [State EXCEPT !.outcome = outcome']
      /\ State' \in States
  BY <1>2, <1>3, <1>4 DEF State, States
<1>6. /\ Waiting(State') = Waiting(State) /\ State'.queue = State.queue
      /\ State'.lastStartAt = State.lastStartAt /\ State'.modelStarts = State.modelStarts
      /\ State'.timer = State.timer /\ State'.microtask = State.microtask
      /\ State'.starts = State.starts /\ State'.outcome = outcome'
  BY <1>2 DEF State, Waiting
<1>7. Linked(State')
  BY <1>1, <1>2, <1>3, <1>6, Fields DEF Linked, Settled
<1>8. IInv'
  <2>1. CASE InUse
    <3>1. Sound(State, policy, sequence)
      BY <2>1 DEF IInv
    <3>2. \A model : EligibleAt(State', policy, model) = EligibleAt(State, policy, model)
      BY <1>6 DEF EligibleAt
    <3>3. Sound(State', policy, sequence)
      BY <3>1, <3>2, <1>5, <1>6, <1>7 DEF Sound, Numbered, Awake, Remembered, Spaced
    <3> QED
      BY <2>1, <3>3, <1>2 DEF IInv, InUse
  <2>2. CASE ~ InUse
    <3>1. Quiet(State, policy)
      BY <2>2 DEF IInv
    <3>2. Quiet(State', policy)
      BY <3>1, <1>5, <1>6, <1>7 DEF Quiet, Spaced
    <3> QED
      BY <2>2, <3>2, <1>2 DEF IInv, InUse
  <2> QED
    BY <2>1, <2>2
<1>9. \A w \in Waiting(State) : outcome'[w] # "started"
  <2>1. Waiting(State) \subseteq Requests
    BY <1>3, WaitersAre
  <2> QED
    BY <1>1, <1>2, <1>3, <2>1, Fields DEF Linked
<1> QED
  BY <1>2, <1>8, <1>9, CarefulOtherwise

LEMMA AcquireNowIsCareful ==
    ASSUME IInv, NEW r \in Requests, NEW model \in Models, AcquireNow(r, model)
    PROVE  Careful
<1> DEFINE s == Expire(State, policy)
           d == Start(s, policy, r, model)
<1>1. InUse /\ policy.enabled /\ outcome[r] = "idle"
  BY DEF AcquireNow, Paced, InUse
<1>2. /\ Drained(State, s, Overdue(State, policy), "expired")
      /\ s \in States /\ Linked(s) /\ Remembered(s, policy) /\ Spaced(s, policy)
  BY <1>1, ExpireKeeps
<1>3. Waiting(s) = {} /\ EligibleAt(s, policy, model) <= now
  <2>1. Waiting(s) = {} /\ ~ (EligibleAt(s, policy, model) > now)
    BY DEF AcquireNow, MustWait
  <2>2. EligibleAt(s, policy, model) \in Nat /\ now \in Nat
    BY <1>2, EligibleAtIs DEF IInv
  <2> QED
    BY <2>1, <2>2
<1>4. Become(d) /\ UNCHANGED <<policy, present, closed, sequence, now, changes>>
  BY DEF AcquireNow
<1>5. /\ now \in Nat /\ policy \in Policy /\ State \in States /\ Linked(State)
      /\ sequence \in Nat /\ present \in BOOLEAN /\ closed \in BOOLEAN /\ changes \in Nat
  BY InUseIs DEF IInv
<1> HIDE DEF s
<1>6. Started(s, d, policy, r, model)
  BY <1>2, <1>5, StartIs
<1>7. d.microtask = s.microtask
  BY <1>2, <1>5, StartIs
<1> HIDE DEF d
<1>8. NewStart(s, d, policy, r, model)
  <2>1. /\ EligibleAt(s, policy, model) \in Nat
        /\ s.lastStartAt # Never =>
             s.lastStartAt + policy.interval <= EligibleAt(s, policy, model)
        /\ s.modelStarts[model] # Never =>
             s.modelStarts[model] + policy.modelInterval[model] <= EligibleAt(s, policy, model)
    BY <1>2, <1>5, EligibleAtIs
  <2>2. /\ s.lastStartAt \in Times /\ policy.interval \in Nat
        /\ s.modelStarts[model] \in Times /\ policy.modelInterval[model] \in Nat
    BY <1>2, <1>5 DEF States, Policy
  <2>3. /\ s.lastStartAt # Never => s.lastStartAt + policy.interval <= now
        /\ s.modelStarts[model] # Never =>
             s.modelStarts[model] + policy.modelInterval[model] <= now
    BY <1>3, <1>5, <2>1, <2>2 DEF Times, Never
  <2> QED
    BY <1>6, <2>3 DEF NewStart, Started
<1>9. d \in States /\ Waiting(d) = {} /\ Linked(d)
  <2>1. "started" # "waiting"
    OBVIOUS
  <2> QED
    BY <1>2, <1>3, <1>6 DEF Started, Linked
<1>10. Remembered(d, policy) /\ Spaced(d, policy)
  BY <1>2, <1>5, <1>8, <1>9, NewStartKeeps
<1>11. Sound(d, policy, sequence)
  BY <1>1, <1>9, <1>10 DEF Sound, Numbered, Awake
<1>12. IInv'
  BY <1>1, <1>4, <1>5, <1>11, SoundStep DEF InUse
<1>13. State' = d
  BY <1>4, <1>9, BecomeIs
<1>14. DOMAIN queue' = {} /\ outcome' = d.outcome
  BY <1>9, <1>13 DEF State, Waiting
<1>15. \A w \in Waiting(State) : outcome'[w] # "started"
  <2>1. Waiting(State) \subseteq Requests
    BY <1>5, WaitersAre
  <2>2. r \notin Waiting(State)
    BY <1>1, <1>5, Fields DEF Linked
  <2>3. \A w \in Waiting(State) : s.outcome[w] = "expired"
    BY <1>2, <1>3, <2>1 DEF Drained
  <2> QED
    BY <1>6, <1>14, <2>1, <2>2, <2>3 DEF Started
<1> QED
  BY <1>12, <1>14, <1>15 DEF Careful, StepIsInOrder, StepIsInTime

LEMMA AcquireRefusedIsCareful ==
    ASSUME IInv, NEW r \in Requests, NEW model \in Models, NEW mayQueue \in BOOLEAN,
           AcquireRefused(r, model, mayQueue)
    PROVE  Careful
<1> DEFINE s == Expire(State, policy)
           d == [s EXCEPT !.outcome[r] = IF mayQueue THEN "full" ELSE "would_wait"]
<1>1. InUse /\ policy.enabled /\ outcome[r] = "idle"
  BY DEF AcquireRefused, Paced, InUse
<1>2. /\ Drained(State, s, Overdue(State, policy), "expired")
      /\ s \in States /\ Linked(s) /\ Numbered(s, sequence) /\ Awake(s, policy)
      /\ Remembered(s, policy) /\ Spaced(s, policy)
  BY <1>1, ExpireKeeps
<1>3. Become(d) /\ UNCHANGED <<policy, present, closed, sequence, now, changes>>
  BY DEF AcquireRefused
<1>4. /\ now \in Nat /\ policy \in Policy /\ State \in States /\ Linked(State)
      /\ sequence \in Nat /\ present \in BOOLEAN /\ closed \in BOOLEAN /\ changes \in Nat
  BY InUseIs DEF IInv
<1> HIDE DEF s
<1>5. /\ d \in States /\ d.queue = s.queue /\ d.lastStartAt = s.lastStartAt
      /\ d.modelStarts = s.modelStarts /\ d.timer = s.timer /\ d.microtask = s.microtask
      /\ d.starts = s.starts
      /\ \A w \in Requests : d.outcome[w] = IF w = r THEN IF mayQueue THEN "full" ELSE "would_wait"
                                            ELSE s.outcome[w]
  BY <1>2 DEF States, Outcomes, Settled
<1> HIDE DEF d
<1>6. r \notin Waiting(State) /\ r \notin Waiting(s)
  BY <1>1, <1>2, <1>4, Fields DEF Linked, Drained
<1>7. Waiting(d) = Waiting(s) /\ Linked(d)
  BY <1>2, <1>5, <1>6 DEF Linked, Waiting
<1>8. \A m : EligibleAt(d, policy, m) = EligibleAt(s, policy, m)
  BY <1>5 DEF EligibleAt
<1>9. Sound(d, policy, sequence)
  BY <1>1, <1>2, <1>5, <1>7, <1>8 DEF Sound, Numbered, Awake, Remembered, Spaced
<1>10. IInv'
  BY <1>1, <1>3, <1>4, <1>9, SoundStep DEF InUse
<1>11. State' = d
  BY <1>3, <1>5, BecomeIs
<1>12. starts' = starts /\ outcome' = d.outcome
  BY <1>2, <1>5, <1>11 DEF State, Drained
<1>13. \A w \in Waiting(State) : outcome'[w] # "started"
  <2> SUFFICES ASSUME NEW w \in Waiting(State) PROVE outcome'[w] # "started"
    OBVIOUS
  <2>1. w \in Requests /\ w # r
    BY <1>4, <1>6, WaitersAre
  <2>2. State.outcome[w] = "waiting"
    BY <1>4, <2>1 DEF Linked
  <2> QED
    BY <1>2, <1>5, <1>12, <2>1, <2>2 DEF Drained
<1> QED
  BY <1>10, <1>12, <1>13, CarefulOtherwise

LEMMA AcquireQueuedIsCareful ==
    ASSUME IInv, NEW r \in Requests, NEW model \in Models, AcquireQueued(r, model)
    PROVE  Careful
<1> DEFINE s == Expire(State, policy)
           e == [sequence |-> sequence, model |-> model, enqueuedAt |-> now]
           q == [w \in Waiting(s) \cup {r} |-> IF w = r THEN e ELSE s.queue[w]]
           t == [s EXCEPT !.queue = q, !.outcome[r] = "waiting"]
           d == Schedule(t, policy)
<1>1. InUse /\ policy.enabled /\ outcome[r] = "idle"
  BY DEF AcquireQueued, Paced, InUse
<1>2. /\ Drained(State, s, Overdue(State, policy), "expired")
      /\ s \in States /\ Linked(s) /\ Numbered(s, sequence)
      /\ Remembered(s, policy) /\ Spaced(s, policy)
  BY <1>1, ExpireKeeps
<1>3. /\ Become(d) /\ sequence' = sequence + 1
      /\ UNCHANGED <<policy, present, closed, now, changes>>
  BY DEF AcquireQueued
<1>4. /\ now \in Nat /\ policy \in Policy /\ State \in States /\ Linked(State)
      /\ Numbered(State, sequence)
      /\ sequence \in Nat /\ present \in BOOLEAN /\ closed \in BOOLEAN /\ changes \in Nat
  BY <1>1, InUseIs DEF IInv
<1> HIDE DEF s
<1>5. /\ e \in Entry /\ e.sequence = sequence /\ e.enqueuedAt = now
  BY <1>4 DEF Entry
<1> HIDE DEF e
<1>6. /\ Waiting(s) \subseteq Requests
      /\ \A w \in Waiting(s) : s.queue[w] \in Entry
  BY <1>2, WaitersAre
<1>7. DOMAIN q = Waiting(s) \cup {r} /\ \A w \in DOMAIN q : q[w] = IF w = r THEN e ELSE s.queue[w]
  OBVIOUS
<1>8. q \in Queues
  <2>1. DOMAIN q \subseteq Requests /\ q \in [DOMAIN q -> Entry]
    BY <1>5, <1>6
  <2> QED
    BY <2>1, QueueIs
<1> HIDE DEF q
<1>9. /\ t \in States /\ t.queue = q /\ t.lastStartAt = s.lastStartAt
      /\ t.modelStarts = s.modelStarts /\ t.starts = s.starts
      /\ \A w \in Requests : t.outcome[w] = IF w = r THEN "waiting" ELSE s.outcome[w]
  BY <1>2, <1>8 DEF States, Outcomes
<1> HIDE DEF t
<1>10. r \notin Waiting(State) /\ r \notin Waiting(s)
  BY <1>1, <1>2, <1>4, Fields DEF Linked, Drained
<1>11. Waiting(t) = Waiting(s) \cup {r}
  BY <1>7, <1>9 DEF Waiting
<1>12. Linked(t)
  BY <1>2, <1>9, <1>11 DEF Linked
<1>13. Numbered(t, sequence')
  <2>1. \A w \in Waiting(s) : t.queue[w] = s.queue[w] /\ s.queue[w].sequence \in Nat
    BY <1>2, <1>7, <1>9, <1>10, WaitersAre
  <2>2. t.queue[r].sequence = sequence
    BY <1>5, <1>7, <1>9
  <2> QED
    BY <1>2, <1>3, <1>4, <1>11, <2>1, <2>2 DEF Numbered
<1>14. Remembered(t, policy) /\ Spaced(t, policy)
  BY <1>2, <1>9 DEF Remembered, Spaced
<1>15. /\ IInv'
       /\ InTime(t, State', policy') /\ InOrder(t, State')
       /\ Waiting(State') \subseteq Waiting(t)
  BY <1>1, <1>3, <1>4, <1>9, <1>12, <1>13, <1>14, ScheduleStep DEF InUse
<1>16. Settles(t, State')
  <2>1. d \in States
    BY <1>4, <1>9, <1>12, <1>13, <1>14, ScheduleKeeps DEF Sound
  <2>2. Settles(t, d)
    BY <1>1, <1>4, <1>9, PacedScheduleIs
  <2>3. State' = d
    BY <1>3, <2>1, BecomeIs
  <2> QED
    BY <2>2, <2>3
<1>17. /\ State'.outcome = outcome' /\ State'.starts = starts'
       /\ Waiting(State') = DOMAIN queue'
  BY DEF State, Waiting
<1>18. /\ Waiting(s) \subseteq Waiting(State)
       /\ \A w \in Waiting(s) : t.queue[w] = queue[w] /\ w # r
       /\ Waiting(State) \subseteq Requests
  BY <1>2, <1>4, <1>7, <1>9, <1>10, Fields, WaitersAre DEF Drained
<1>19. t.starts = starts
  BY <1>2, <1>9, Fields DEF Drained
<1>20. StepIsInTime
  <2> SUFFICES ASSUME NEW w \in Waiting(State), outcome'[w] = "started", policy'.enabled
               PROVE  now < queue[w].enqueuedAt + policy'.maxAge
    BY DEF StepIsInTime
  <2>1. CASE w \in Waiting(s)
    BY <2>1, <1>11, <1>15, <1>17, <1>18 DEF InTime
  <2>2. CASE w \notin Waiting(s)
    <3>1. w \in Requests /\ w # r /\ w \notin Waiting(t)
      BY <2>2, <1>10, <1>11, <1>18
    <3>2. s.outcome[w] = "expired"
      BY <2>2, <3>1, <1>2 DEF Drained
    <3>3. outcome'[w] = "expired"
      BY <3>1, <3>2, <1>9, <1>16, <1>17 DEF Settles
    <3> QED
      BY <3>3
  <2> QED
    BY <2>1, <2>2
<1>21. StepIsInOrder
  <2> SUFFICES ASSUME NEW start \in starts' \ starts,
                      NEW w \in Waiting(State) \cap DOMAIN queue',
                      queue[w].model = start.model
               PROVE  /\ start.by \in Waiting(State)
                      /\ queue[start.by].sequence < queue[w].sequence
    BY DEF StepIsInOrder
  <2>1. w \in Waiting(State') /\ w \in Waiting(t) /\ w # r
    BY <1>10, <1>15, <1>17
  <2>2. w \in Waiting(s) /\ t.queue[w] = queue[w]
    BY <2>1, <1>11, <1>18
  <2>3. start.by \in Waiting(t) /\ t.queue[start.by].sequence < t.queue[w].sequence
    BY <2>1, <2>2, <1>15, <1>17, <1>19 DEF InOrder
  <2>4. queue[w].sequence < sequence /\ queue[w].sequence \in Nat
    BY <1>4, Fields, WaitersAre DEF Numbered
  <2>5. t.queue[r].sequence = sequence
    BY <1>5, <1>7, <1>9
  <2>6. start.by # r
    BY <2>2, <2>3, <2>4, <2>5, <1>4
  <2> QED
    BY <2>2, <2>3, <2>6, <1>11, <1>18
<1> QED
  BY <1>15, <1>20, <1>21 DEF Careful

LEMMA AbortIsCareful ==
    ASSUME IInv, NEW r \in Requests, Abort(r)
    PROVE  Careful
<1> DEFINE s == Drain(State, {r}, "aborted")
<1>1. r \in Waiting(State) /\ Become(Schedule(s, policy))
      /\ UNCHANGED <<policy, present, closed, sequence, now, changes>>
  BY DEF Abort
<1>2. InUse /\ policy.enabled
  BY <1>1, InUseIs
<1>3. /\ State \in States /\ Linked(State) /\ policy \in Policy /\ changes \in Nat
      /\ Numbered(State, sequence) /\ Remembered(State, policy) /\ Spaced(State, policy)
  BY <1>2, InUseIs DEF IInv
<1>4. Drained(State, s, {r}, "aborted")
  <2>1. "aborted" \in Settled /\ {r} \in SUBSET Requests
    BY DEF Settled
  <2> QED
    BY <2>1, <1>3, DrainIs
<1> HIDE DEF s
<1>5. s \in States /\ Settles(State, s) /\ NoStart(State, s, policy)
  BY <1>1, <1>4 DEF Drained, Settles, NoStart, Settled
<1>6. Linked(s) /\ Remembered(s, policy) /\ Spaced(s, policy)
  BY <1>3, <1>5, SettlesKeeps, NoStartKeeps
<1>7. /\ Waiting(s) = Waiting(State) \ {r} /\ s.outcome[r] = "aborted"
      /\ \A w \in Waiting(s) : s.queue[w] = queue[w]
      /\ s.starts = starts
  BY <1>4, Fields DEF Drained
<1> QED
  BY <1>1, <1>2, <1>3, <1>5, <1>6, <1>7, CarefulSchedule DEF InUse

LEMMA RescheduleIsCareful ==
    ASSUME IInv, InUse, NEW s \in States, s.queue = queue, s.outcome = outcome,
           s.lastStartAt = lastStartAt, s.modelStarts = modelStarts, s.starts = starts,
           Become(Schedule(s, policy)), UNCHANGED <<policy, present, closed, sequence, now>>,
           changes' \in Nat
    PROVE  Careful
<1>1. /\ State \in States /\ Linked(State) /\ policy \in Policy
      /\ policy.enabled => Remembered(State, policy) /\ Spaced(State, policy)
  BY InUseIs DEF IInv
<1>2. Waiting(s) = Waiting(State)
  BY Fields DEF Waiting
<1>3. Linked(s)
  BY <1>1, <1>2, Fields DEF Linked
<1>4. policy.enabled => Remembered(s, policy) /\ Spaced(s, policy)
  BY <1>1, Fields DEF Remembered, Spaced
<1> QED
  BY <1>1, <1>2, <1>3, <1>4, CarefulSchedule DEF InUse

LEMMA WakeUpIsCareful ==
    ASSUME IInv, TimerFires \/ MicrotaskRuns \/ Notify
    PROVE  Careful
<1>1. State \in States /\ changes \in Nat
  BY InUseIs DEF IInv
<1>2. CASE TimerFires
  <2>1. InUse
    BY <1>2, InUseIs DEF TimerFires
  <2> QED
    BY <1>1, <1>2, <2>1, Fields, RescheduleIsCareful DEF TimerFires
<1>3. CASE MicrotaskRuns
  <2> DEFINE s == [State EXCEPT !.microtask = FALSE]
  <2>1. InUse
    BY <1>3, InUseIs DEF MicrotaskRuns
  <2>2. /\ s \in States /\ s.queue = queue /\ s.outcome = outcome /\ s.lastStartAt = lastStartAt
        /\ s.modelStarts = modelStarts /\ s.starts = starts
    BY <1>1, Fields DEF States
  <2>3. Become(Schedule(s, policy)) /\ UNCHANGED <<policy, present, closed, sequence, now, changes>>
    BY <1>3 DEF MicrotaskRuns
  <2> HIDE DEF s
  <2> QED
    BY <1>1, <2>1, <2>2, <2>3, RescheduleIsCareful
<1>4. CASE Notify
  <2>1. InUse /\ changes' \in Nat
    BY <1>1, <1>4 DEF Notify, InUse
  <2> QED
    BY <1>1, <1>4, <2>1, Fields, RescheduleIsCareful DEF Notify
<1> QED
  BY <1>2, <1>3, <1>4

LEMMA SetPolicyIsCareful ==
    ASSUME IInv, NEW p \in Policies, SetPolicy(p)
    PROVE  Careful
<1> DEFINE s == [State EXCEPT !.starts = {}]
<1>1. /\ InUse /\ policy' = p /\ changes' = changes + 1
      /\ Become(Schedule(s, p)) /\ UNCHANGED <<present, closed, sequence, now>>
  BY DEF SetPolicy, InUse
<1>2. State \in States /\ Linked(State) /\ changes' \in Nat
  BY <1>1, InUseIs DEF IInv
<1>3. /\ s \in States /\ s.queue = queue /\ s.outcome = outcome /\ s.starts = {}
  BY <1>2, Fields DEF States
<1> HIDE DEF s
<1>4. Waiting(s) = Waiting(State)
  BY <1>3, Fields DEF Waiting
<1>5. Linked(s)
  BY <1>2, <1>3, <1>4, Fields DEF Linked
<1>6. Remembered(s, p) /\ Spaced(s, p)
  BY <1>3 DEF Remembered, Spaced
<1>7. p \in Policy
  BY PacerAssumption
<1> QED
  BY <1>1, <1>2, <1>3, <1>4, <1>5, <1>6, <1>7, CarefulSchedule DEF InUse

\* remove and close: forget(), after everybody was told.
LEMMA EndIsCareful ==
    ASSUME IInv, Remove \/ Close
    PROVE  Careful
<1>1. PICK result \in Settled \ {"started"} :
        Become(Forget(Drain(State, Waiting(State), result)))
  BY DEF Remove, Close, Settled
<1>2. /\ ~ InUse' /\ present' \in BOOLEAN /\ closed' \in BOOLEAN
      /\ UNCHANGED <<policy, sequence, now, changes>>
  BY DEF Remove, Close, InUse, IInv
<1>3. /\ State \in States /\ Linked(State)
      /\ policy.enabled => Spaced(State, policy)
  BY InUseIs DEF IInv, Quiet
<1> DEFINE e == Drain(State, Waiting(State), result)
           d == Forget(e)
<1>4. Drained(State, e, Waiting(State), result)
  <2>1. Waiting(State) \in SUBSET Requests
    BY <1>3, WaitersAre
  <2> QED
    BY <2>1, <1>3, DrainIs
<1> HIDE DEF e
<1>5. /\ e \in States /\ Waiting(e) = {} /\ e.starts = starts
      /\ \A r \in Requests : e.outcome[r] = IF r \in Waiting(State) THEN result ELSE outcome[r]
  BY <1>4, Fields DEF Drained
<1>6. /\ d \in States
      /\ d.queue = e.queue /\ d.outcome = e.outcome
      /\ d.starts = e.starts
      /\ d.timer = Never /\ d.microtask = FALSE
  BY <1>5, ForgetIs
<1>7. Become(d)
  BY <1>1 DEF e
<1> HIDE DEF d
<1>8. State' = d
  BY <1>6, <1>7, BecomeIs
<1>9. Waiting(d) = {}
  BY <1>5, <1>6 DEF Waiting
<1>10. Linked(d)
  BY <1>3, <1>5, <1>6, <1>9, Fields DEF Linked, Settled
<1>11. policy.enabled => Spaced(d, policy)
  BY <1>3, <1>5, <1>6, Fields DEF Spaced
<1>12. Quiet(State', policy)
  BY <1>6, <1>8, <1>9, <1>10, <1>11 DEF Quiet
<1>13. IInv'
  BY <1>2, <1>12 DEF IInv
<1>14. starts' = starts /\ outcome' = d.outcome
  BY <1>5, <1>6, <1>8 DEF State
<1>15. \A r \in Waiting(State) : outcome'[r] # "started"
  BY <1>3, <1>5, <1>6, <1>14, WaitersAre
<1> QED
  BY <1>13, <1>14, <1>15, CarefulOtherwise

LEMMA NothingMovesIsCareful ==
    ASSUME IInv, UNCHANGED <<pacing, policy, present, closed, sequence, changes>>, now' \in Nat
    PROVE  Careful
<1>1. State' = State /\ starts' = starts /\ outcome' = outcome
  BY DEF pacing, State
<1>2. IInv'
  BY <1>1 DEF IInv, InUse
<1>3. \A r \in Waiting(State) : outcome'[r] # "started"
  <2>1. Linked(State) /\ Waiting(State) \subseteq Requests
    BY InUseIs, WaitersAre
  <2> QED
    BY <1>1, <2>1, Fields DEF Linked
<1> QED
  BY <1>1, <1>2, <1>3, CarefulOtherwise

-----------------------------------------------------------------------------

LEMMA InvAtFirst ==
    ASSUME Init
    PROVE  IInv
<1>1. queue \in Queues
  BY QueueIs DEF Init
<1>2. State \in States
  BY <1>1 DEF Init, State, States, Times, Outcomes, StartEvent
<1>3. Waiting(State) = {} /\ \A r \in Requests : State.outcome[r] = "idle"
  BY Fields DEF Init
<1>4. Sound(State, policy, sequence)
  BY <1>2, <1>3, Fields DEF Init, Sound, Linked, Numbered, Awake, Remembered, Spaced
<1> QED
  BY <1>4, PacerAssumption DEF Init, IInv, InUse

LEMMA EveryStepIsCareful ==
    ASSUME IInv, [Next]_vars
    PROVE  Careful
<1>1. CASE \E r \in Requests : AcquireUnpaced(r) \/ Abort(r)
  BY <1>1, AcquireUnpacedIsCareful, AbortIsCareful
<1>2. ASSUME NEW r \in Requests, NEW model \in Models,
             \/ AcquireNow(r, model)
             \/ AcquireQueued(r, model)
             \/ \E mayQueue \in BOOLEAN : AcquireRefused(r, model, mayQueue)
      PROVE  Careful
  BY <1>2, AcquireNowIsCareful, AcquireQueuedIsCareful, AcquireRefusedIsCareful
<1>3. CASE TimerFires \/ MicrotaskRuns \/ Notify
  BY <1>3, WakeUpIsCareful
<1>4. CASE \E p \in Policies : SetPolicy(p)
  BY <1>4, SetPolicyIsCareful
<1>5. CASE Remove \/ Close
  BY <1>5, EndIsCareful
<1>6. CASE Tick
  <2>1. now' \in Nat
    BY <1>6 DEF Tick, IInv
  <2> QED
    BY <1>6, <2>1, NothingMovesIsCareful DEF Tick
<1>7. CASE UNCHANGED vars
  <2>1. now' \in Nat
    BY <1>7 DEF vars, IInv
  <2> QED
    BY <1>7, <2>1, NothingMovesIsCareful DEF vars
<1> QED
  BY <1>1, <1>2, <1>3, <1>4, <1>5, <1>6, <1>7 DEF Next

LEMMA InvGives ==
    ASSUME IInv
    PROVE  TypeOK /\ WakeUpInTime /\ StartsAreSpaced
<1>1. TypeOK /\ State \in States /\ Linked(State)
  BY TypesOfInv, InUseIs
<1>2. WakeUpInTime
  <2> SUFFICES ASSUME NEW r \in Requests, outcome[r] = "waiting"
               PROVE  /\ r \in Waiting(State)
                      /\ microtask \/
                          /\ timer # Never
                          /\ timer <= queue[r].enqueuedAt + policy.maxAge
                          /\ timer <= EligibleAt(State, policy, queue[r].model)
    BY DEF WakeUpInTime
  <2>1. r \in Waiting(State)
    BY <1>1, Fields DEF Linked
  <2>2. Awake(State, policy)
    BY <2>1, InUseIs
  <2> QED
    BY <2>1, <2>2, Fields DEF Awake
<1>3. StartsAreSpaced
  <2>1. policy.enabled => Spaced(State, policy)
    BY InUseIs DEF IInv, Quiet
  <2> QED
    BY <2>1, Fields DEF Spaced, StartsAreSpaced
<1> QED
  BY <1>1, <1>2, <1>3

\* The invariant of the pacer: its queue is who waits, in the order of their
\* numbers; somebody will look at it in time; it remembers of its starts what the
\* intervals need, and forgets that only when nobody waits and nothing starts.
THEOREM QueueIsSound == Spec => []IInv
<1>1. IInv /\ [Next]_vars => IInv'
  BY EveryStepIsCareful DEF Careful
<1> QED
  BY <1>1, InvAtFirst, PTL DEF Spec

\* Type correctness of the pacer, for any requests, models and policies.
THEOREM PacerTypes == Spec => []TypeOK
BY QueueIsSound, InvGives, PTL

\* No waiter is forgotten: a microtask or a timer in time is there for each of
\* them, whatever expired, aborted, started or was reconfigured meanwhile.
THEOREM NobodyIsForgotten == Spec => []WakeUpInTime
BY QueueIsSound, InvGives, PTL

\* The account's and the models' intervals hold between any two starts under one
\* policy.
THEOREM IntervalsHold == Spec => []StartsAreSpaced
BY QueueIsSound, InvGives, PTL

\* Requests for one model start in the order in which they queued.
THEOREM OrderHolds == Spec => FirstComeFirstStarted
<1>1. IInv /\ [Next]_vars => [StepIsInOrder]_vars
  BY EveryStepIsCareful DEF Careful
<1> QED
  BY <1>1, QueueIsSound, PTL DEF Spec, FirstComeFirstStarted, StepIsInOrder

\* A waiter whose time is over is not started, however late the timer fires.
THEOREM DeadlinesHold == Spec => NoStartAfterDeadline
<1>1. IInv /\ [Next]_vars => [StepIsInTime]_vars
  BY EveryStepIsCareful DEF Careful
<1> QED
  BY <1>1, QueueIsSound, PTL DEF Spec, NoStartAfterDeadline, StepIsInTime

=============================================================================
