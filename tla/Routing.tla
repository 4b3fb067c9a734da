------------------------------ MODULE Routing ------------------------------
(***************************************************************************)
(* Which account a request is sent to: the planner of store.js             *)
(* (candidatePlanDetails and the functions that order its candidates), the *)
(* session pins and response pins it reads, and the callers in proxy.js    *)
(* that write those pins when headers arrive, when output is relayed and   *)
(* when usage settles.                                                     *)
(*                                                                         *)
(* Health, spending caps, model support and circuits decide whether an     *)
(* account can be planned at all; the other modules model them, here an    *)
(* account is "ready", "blocked" or "gone".  A request that is sent may    *)
(* settle after others of its session, which is what the pins must bear.   *)
(***************************************************************************)
EXTENDS Naturals, Sequences, FiniteSets, SequencesExt

CONSTANTS
    Accounts,       \* the accounts of one scope
    Requests,       \* requests of one API key, each sent once
    Sessions,       \* session ids the clients use
    NoAccount,      \* an absent account id
    NoRequest,      \* an absent previous_response_id
    Capacity,       \* capacityTier of an account: 0 ordinary, 1 windowless, 2 credits
    Priority,       \* its place in the priority list
    Preferred,      \* accounts of the type the route prefers
    Quota,          \* remaining quota, fresh ones only; Unknown otherwise
    Unknown,
    Strategies,     \* the routing strategies the operator can choose
    Rotation,       \* SESSION_ROTATION_SPEND_MICROS
    Costs,          \* what a settled request can cost
    SessionLimit,   \* SESSION_LIMIT
    PinLimit,       \* RESPONSE_PIN_LIMIT
    Ttl,            \* SESSION_TTL_MS and RESPONSE_PIN_TTL_MS
    MaxTime,        \* bound: the clock stops here
    MaxChanges      \* bound: how often an account changes its state

RoutingAssumption ==
    /\ {Rotation, SessionLimit, PinLimit} \subseteq Nat \ {0}
    /\ Costs \subseteq Nat /\ MaxTime \in Nat

VARIABLES
    now,
    state,          \* per account: ready, blocked or gone
    lastUsed,       \* lastSuccessfulAt of each account, 0 for never
    session,        \* db.sessions: per session id its entry or NoEntry
    pin,            \* db.responsePins: per response its entry or NoPin
    req,            \* what each request is doing
    settled,        \* history: what each session settled on each account
    owed,           \* history: the account a session must leave, or NoAccount
    changes

vars == <<now, state, lastUsed, session, pin, req, settled, owed, changes>>

NoEntry == [up |-> NoAccount, rotate |-> NoAccount, spent |-> 0, used |-> 0, kept |-> FALSE]
NoPin   == [up |-> NoAccount, used |-> 0, kept |-> FALSE]
Idle    == [phase |-> "new", kind |-> "http", session |-> CHOOSE s \in Sessions : TRUE,
            plan |-> <<>>, at |-> NoAccount, strict |-> NoAccount]

TypeOK ==
    /\ now \in 0..MaxTime /\ changes \in 0..MaxChanges
    /\ state \in [Accounts -> {"ready", "blocked", "gone"}]
    /\ lastUsed \in [Accounts -> 0..MaxTime]
    /\ \A s \in Sessions :
         /\ session[s].up \in Accounts \cup {NoAccount}
         /\ session[s].rotate \in Accounts \cup {NoAccount}
         /\ session[s].spent \in 0..Rotation
         /\ owed[s] \in Accounts \cup {NoAccount}
    /\ \A r \in Requests :
         /\ pin[r].up \in Accounts \cup {NoAccount}
         /\ req[r].phase \in {"new", "planned", "sent", "relaying", "done"}
         /\ req[r].kind \in {"http", "raw", "socket"}
         /\ req[r].plan \in Seq(Accounts)

-----------------------------------------------------------------------------
(* Reading the pins. *)

Fresh(entry) == entry.kept /\ now - entry.used <= Ttl
SessionUpstream(s) == IF Fresh(session[s]) THEN session[s].up ELSE NoAccount
SessionRotation(s) == IF Fresh(session[s]) THEN session[s].rotate ELSE NoAccount
ResponseUpstream(p) ==
    IF p # NoRequest /\ Fresh(pin[p]) /\ state[pin[p].up] # "gone" THEN pin[p].up ELSE NoAccount

(* Ordering the candidates: each strategy is a rank, compared left to right. *)

Known(S) == {a \in S : Quota[a] # Unknown}
Median(S) ==
    LET known == SetToSortSeq(Known(S), LAMBDA a, b : Quota[a] < Quota[b])
        n == Len(known)
    IN IF n = 0 THEN 50
       ELSE IF n % 2 = 1 THEN Quota[known[(n \div 2) + 1]]
       ELSE (Quota[known[n \div 2]] + Quota[known[(n \div 2) + 1]]) \div 2
Score(a, S) ==
    IF Quota[a] # Unknown THEN Quota[a]
    ELSE Median({b \in S : Priority[b] = Priority[a]})

\* The hash of (seed, id) and the store's own order are arbitrary but fixed.
Position == CHOOSE f \in [Accounts -> 1..Cardinality(Accounts)] : IsInjective(f)

Rank(a, S, strategy) ==
    <<Capacity[a], Priority[a],
      IF strategy = "most-remaining-quota" THEN 100 - Score(a, S) ELSE 0,
      IF strategy \in {"cache-locality", "deterministic-rotation"} THEN 0 ELSE lastUsed[a],
      Position[a]>>
Before(x, y) ==
    \E i \in 1..Len(x) : x[i] < y[i] /\ \A j \in 1..(i - 1) : x[j] = y[j]
Rotated(s, k) == SubSeq(s, k + 1, Len(s)) \o SubSeq(s, 1, k)

OneTier(S, a) == {b \in S : Capacity[b] = Capacity[a] /\ Priority[b] = Priority[a]}

\* deterministic-rotation starts each tier of equals at an offset of the seed.
Ordered(S, strategy, seed) ==
    LET order == SetToSortSeq(S, LAMBDA a, b : Before(Rank(a, S, strategy), Rank(b, S, strategy)))
        offset(a) == IF strategy # "deterministic-rotation" THEN 0
                     ELSE seed % Cardinality(OneTier(S, a))
        first(a) == CHOOSE i \in 1..Len(order) :
                       order[i] \in OneTier(S, a) /\ \A j \in 1..(i - 1) : order[j] \notin OneTier(S, a)
        place(i) == LET a == order[i]
                        n == Cardinality(OneTier(S, a))
                    IN first(a) + ((i - first(a) + offset(a)) % n)
    IN [i \in 1..Len(order) |-> order[place(i)]]

ToFront(a, order) ==
    IF /\ a \in ToSet(order)
       /\ \A i \in 1..Len(order) : Capacity[order[i]] >= Capacity[a]
    THEN <<a>> \o SelectSeq(order, LAMBDA b : b # a)
    ELSE order

\* candidatePlanDetails.  A selector (an account the client or a response pin
\* names) is strict; otherwise a session past its threshold skips the account
\* it leaves unless no other can serve it, and its affinity goes first.
Ready == {a \in Accounts : state[a] = "ready"}

\* Mutant: a selector that cannot be served falls back to any account.
PlanAnyone(affinity, strict, rotate, strategy, seed) ==
    IF Ready \cap {strict} = {} THEN ToFront(affinity, Ordered(Ready, strategy, seed)) ELSE <<strict>>

Plan(affinity, strict, rotate, strategy, seed) ==
    LET kept == IF rotate # NoAccount /\ Ready \ {rotate} # {} THEN Ready \ {rotate} ELSE Ready
    IN IF strict # NoAccount THEN (IF strict \in Ready THEN <<strict>> ELSE <<>>)
       ELSE ToFront(affinity, Ordered(kept \cap Preferred, strategy, seed)
                              \o Ordered(kept \ Preferred, strategy, seed))

-----------------------------------------------------------------------------
(* Writing the pins. *)

\* Entries past their time go first, then the least recently used over the limit.
Pruned(table, limit) ==
    LET live == {k \in DOMAIN table : Fresh(table[k])}
        over == {k \in live : Cardinality({j \in live : table[j].used > table[k].used}) >= limit}
    IN live \ over

\* Mutant: the spend of a session follows it to another account.
PinSessionWithSpend(s, a) ==
    [session EXCEPT ![s] = [@ EXCEPT !.up = a, !.rotate = NoAccount, !.used = now, !.kept = TRUE]]

PinSession(s, a) ==
    LET entry == [up |-> a, rotate |-> NoAccount, used |-> now, kept |-> TRUE,
                  spent |-> IF session[s].up = a THEN session[s].spent ELSE 0]
        table == [session EXCEPT ![s] = entry]
    IN [k \in Sessions |-> IF k \in Pruned(table, SessionLimit) THEN table[k] ELSE NoEntry]

PinResponse(p, a) ==
    LET table == [pin EXCEPT ![p] = [up |-> a, used |-> now, kept |-> TRUE]]
    IN [k \in Requests |-> IF k \in Pruned(table, PinLimit) THEN table[k] ELSE NoPin]

\* addSessionUsage: spend belongs to the pin of the account it was made on.
AddSessionUsage(s, a, cost) ==
    IF cost = 0 \/ ~session[s].kept \/ session[s].up # a THEN session
    ELSE LET spent == session[s].spent + cost
         IN [session EXCEPT ![s] =
              IF spent >= Rotation
              THEN [NoEntry EXCEPT !.rotate = a, !.used = now, !.kept = TRUE]
              ELSE [@ EXCEPT !.spent = spent, !.used = now]]

ClearSessionPins(a) ==
    [s \in Sessions |-> IF a \in {session[s].up, session[s].rotate} THEN NoEntry ELSE session[s]]

-----------------------------------------------------------------------------
(* A request: chooseUpstreamPlan, the dispatch loop, the answer. *)

Init ==
    /\ now = 1 /\ changes = 0
    /\ state = [a \in Accounts |-> "ready"]
    /\ lastUsed = [a \in Accounts |-> 0]
    /\ session = [s \in Sessions |-> NoEntry]
    /\ pin = [r \in Requests |-> NoPin]
    /\ req = [r \in Requests |-> Idle]
    /\ settled = [s \in Sessions |-> [a \in Accounts |-> 0]]
    /\ owed = [s \in Sessions |-> NoAccount]

\* The client may name an account, and may continue an earlier response; the
\* two must agree or there is no candidate.  Reading a response pin renews it.
Choose(r) ==
    /\ req[r].phase = "new"
    /\ \E kind \in {"http", "raw", "socket"}, s \in Sessions,
          wanted \in Accounts \cup {NoAccount},
          previous \in {NoRequest} \cup {p \in Requests : req[p].phase = "done"},
          strategy \in Strategies, seed \in 0..1 :
         LET pinned   == IF kind = "raw" THEN NoAccount ELSE ResponseUpstream(previous)
             strict   == IF pinned # NoAccount THEN pinned ELSE wanted
             conflict == pinned # NoAccount /\ wanted \notin {NoAccount, pinned}
             affinity == SessionUpstream(s)
             rotate   == IF affinity = NoAccount /\ strict = NoAccount THEN SessionRotation(s) ELSE NoAccount
             plan     == IF conflict THEN <<>> ELSE Plan(affinity, strict, rotate, strategy, seed)
         IN /\ req' = [req EXCEPT ![r] =
                 [phase |-> IF plan = <<>> THEN "done" ELSE "planned", kind |-> kind,
                  session |-> s, plan |-> plan, at |-> NoAccount, strict |-> strict]]
            /\ pin' = IF pinned = NoAccount THEN pin ELSE [pin EXCEPT ![previous].used = now]
            /\ owed' = IF strict = NoAccount THEN [owed EXCEPT ![s] = NoAccount] ELSE owed
    /\ UNCHANGED <<now, state, lastUsed, session, settled, changes>>

\* The dispatch loop takes the next account that still admits an attempt.
Send(r) ==
    /\ req[r].phase = "planned"
    /\ LET a == Head(req[r].plan)
           rest == Tail(req[r].plan)
       IN req' = [req EXCEPT ![r] =
            IF a \in Ready THEN [@ EXCEPT !.phase = "sent", !.at = a, !.plan = rest]
            ELSE [@ EXCEPT !.plan = rest, !.phase = IF rest = <<>> THEN "done" ELSE "planned"]]
    /\ UNCHANGED <<now, state, lastUsed, session, pin, settled, owed, changes>>

\* An attempt fails before any output: the next candidate, or an error.  A
\* quota failure blocks the account and drops the pins of its sessions.
Fail(r, quota) ==
    /\ req[r].phase = "sent"
    /\ LET a == req[r].at
       IN /\ req' = [req EXCEPT ![r].phase = IF req[r].plan = <<>> THEN "done" ELSE "planned"]
          /\ quota => state[a] = "ready" /\ changes < MaxChanges
          /\ state' = IF quota THEN [state EXCEPT ![a] = "blocked"] ELSE state
          /\ changes' = IF quota THEN changes + 1 ELSE changes
          /\ session' = IF quota THEN ClearSessionPins(a) ELSE session
          /\ owed' = IF quota THEN [s \in Sessions |-> IF owed[s] = a THEN NoAccount ELSE owed[s]] ELSE owed
    /\ UNCHANGED <<now, lastUsed, pin, settled>>

\* The account answers.  A gateway request pins an unpinned session; a raw
\* request and a socket pin it whatever it holds.
Answer(r) ==
    /\ req[r].phase = "sent"
    /\ LET a == req[r].at
           s == req[r].session
           pins == state[a] # "gone" /\ (req[r].kind # "http" \/ SessionUpstream(s) = NoAccount)
       IN /\ session' = IF pins THEN PinSession(s, a) ELSE session
          /\ req' = [req EXCEPT ![r].phase = IF state[a] = "gone" THEN "done" ELSE "relaying"]
    /\ UNCHANGED <<now, state, lastUsed, pin, settled, owed, changes>>

\* The answer ends and its usage settles: the session pays, the account has a
\* success, the response is pinned.
Settle(r, cost) ==
    /\ req[r].phase = "relaying"
    /\ LET a == req[r].at
           s == req[r].session
           after == AddSessionUsage(s, a, cost)
       IN /\ session' = after
          /\ owed' = IF after[s].rotate = a /\ session[s].up = a THEN [owed EXCEPT ![s] = a] ELSE owed
          /\ settled' = [settled EXCEPT ![s][a] = @ + cost]
          /\ lastUsed' = IF state[a] = "gone" THEN lastUsed ELSE [lastUsed EXCEPT ![a] = now]
          /\ pin' = IF state[a] = "gone" \/ req[r].kind = "raw" THEN pin ELSE PinResponse(r, a)
          /\ req' = [req EXCEPT ![r].phase = "done"]
    /\ UNCHANGED <<now, state, changes>>

\* Health, caps and circuits move, and the operator removes accounts.
Change(a, to) ==
    /\ changes < MaxChanges
    /\ state[a] \notin {to, "gone"}
    /\ state' = [state EXCEPT ![a] = to]
    /\ changes' = changes + 1
    /\ UNCHANGED <<now, lastUsed, session, pin, req, settled, owed>>

\* Time passes; what a session is owed is forgotten with its entry.
Tick ==
    /\ now < MaxTime
    /\ now' = now + 1
    /\ owed' = [s \in Sessions |-> IF session[s].kept /\ now + 1 - session[s].used <= Ttl
                                   THEN owed[s] ELSE NoAccount]
    /\ UNCHANGED <<state, lastUsed, session, pin, req, settled, changes>>

Next ==
    \/ \E r \in Requests :
         \/ Choose(r) \/ Send(r) \/ Answer(r)
         \/ \E quota \in BOOLEAN : Fail(r, quota)
         \/ \E cost \in Costs : Settle(r, cost)
    \/ \E a \in Accounts, to \in {"ready", "blocked", "gone"} : Change(a, to)
    \/ Tick

Spec == Init /\ [][Next]_vars

-----------------------------------------------------------------------------
(* A pin is charged only with what its own session settled on its own      *)
(* account (store.js pinSession and addSessionUsage): whatever the order   *)
(* in which requests of one session are pinned, moved and settled, no      *)
(* session is rotated early for money spent elsewhere.                     *)
SpendIsThePinsOwn ==
    \A s \in Sessions : session[s].up # NoAccount => session[s].spent <= settled[s][session[s].up]

(* A response continuation leaves its pinned account for no other, however *)
(* accounts come, go and fail meanwhile (candidatePlanDetails with         *)
(* pinnedId, and the loop that works the plan off).                        *)
ContinuationsStay ==
    \A r \in Requests : req[r].strict # NoAccount =>
        /\ req[r].at \in {NoAccount, req[r].strict}
        /\ ToSet(req[r].plan) \subseteq {req[r].strict}

(* "Each pin rotates after $5 of settled, priced spend: the next ordinary  *)
(* request excludes the prior upstream once" (node/README.md:553): the     *)
(* first ordinary plan after a rotation puts another account first when    *)
(* one can serve.                                                          *)
RotationIsHonoured ==
    [][\A r \in Requests :
         LET s == req'[r].session
         IN /\ req[r].phase = "new" /\ req'[r].phase = "planned" /\ req'[r].strict = NoAccount
            /\ owed[s] # NoAccount /\ Ready \ {owed[s]} # {}
            => Head(req'[r].plan) # owed[s]]_vars

\* Inductive, with what the tables hold and where each request is.
SessionEntry == [up : Accounts \cup {NoAccount}, rotate : Accounts \cup {NoAccount},
                 spent : Nat, used : Nat, kept : BOOLEAN]

Shapes ==
    /\ now \in Nat
    /\ session \in [Sessions -> SessionEntry]
    /\ settled \in [Sessions -> [Accounts -> Nat]]

\* A request is sent to an account there is; if to a named one, to no other.
Placed(job) ==
    /\ DOMAIN job = {"phase", "kind", "session", "plan", "at", "strict"}
    /\ job.phase # "new" => job.session \in Sessions
    /\ job.phase \in {"sent", "relaying"} => job.at \in Accounts
    /\ job.strict # NoAccount =>
        /\ job.at \in {NoAccount, job.strict} /\ job.plan \in {<<>>, <<job.strict>>}
        /\ job.phase = "planned" => job.plan # <<>>

JobsArePlaced == DOMAIN req = Requests /\ \A r \in Requests : Placed(req[r])

RoutingInv == Shapes /\ JobsArePlaced /\ SpendIsThePinsOwn

=============================================================================
