------------------------------- MODULE Usage -------------------------------
(***************************************************************************)
(* What settled attempts cost one account and one API key: recordUsage,    *)
(* setSpendingCap and pruneSettlements of domain.js, and the daily totals  *)
(* of store.js (addGatewayUsage, compactGatewayUsage).  A settlement may   *)
(* be delivered again, with the same or a corrected cost: the account      *)
(* keeps the last settlements to apply only the difference, and the daily  *)
(* totals keep the last attempts to count each one once.                   *)
(***************************************************************************)
EXTENDS Integers, Sequences, FiniteSets, SequencesExt, FiniteSetsExt

CONSTANTS
    Attempts,       \* gateway attempts
    Costs,          \* what an attempt can cost
    Caps,           \* spending caps the operator can set; 0 is no cap
    Window,         \* SETTLEMENT_LIMIT and GATEWAY_USAGE_ATTEMPT_LIMIT
    DayLength,      \* ticks per day
    Retention,      \* GATEWAY_USAGE_DAYS
    MaxTime,        \* bound: the clock stops here
    MaxCaps,        \* bound: how often the cap changes
    MaxDeliveries   \* bound: settlements delivered, repetitions included

\* number of domain.js admits no negative cost and no negative cap.
SpendingAssumption ==
    /\ Window \in Nat \ {0} /\ DayLength \in Nat \ {0} /\ MaxTime \in Nat \ {0}
    /\ {Retention, MaxCaps, MaxDeliveries} \cup Costs \cup Caps \subseteq Nat

VARIABLES
    now,
    started,        \* when each attempt started, 0 before
    cap, capStart,  \* the cap and when its period began
    spent,          \* spentCostMicros
    settlements,    \* attempt -> cost, for the attempts remembered
    days,           \* day -> [requests, cost, seen] for one API key
    caps, deliveries

vars == <<now, started, cap, capStart, spent, settlements, days, caps, deliveries>>

Day(t) == t \div DayLength
NoDay == [requests |-> 0, cost |-> 0, seen |-> <<>>]
Daily == [requests : Nat, cost : Nat, seen : Seq(Attempts)]

TypeOK ==
    /\ now \in 1..MaxTime /\ caps \in 0..MaxCaps /\ deliveries \in 0..MaxDeliveries
    /\ started \in [Attempts -> 0..MaxTime]
    /\ cap \in Caps \cup {0} /\ capStart \in 0..MaxTime
    /\ spent \in Nat
    /\ DOMAIN settlements \subseteq Attempts /\ Cardinality(DOMAIN settlements) <= Window
    /\ DOMAIN days = Day(1)..Day(MaxTime)
    /\ \A d \in DOMAIN days : /\ days[d] \in Daily
                             /\ Len(days[d].seen) <= Window
                             /\ days[d].requests >= Len(days[d].seen)

Init ==
    /\ now = 1 /\ caps = 0 /\ deliveries = 0
    /\ started = [a \in Attempts |-> 0]
    /\ cap = 0 /\ capStart = 0 /\ spent = 0
    /\ settlements = << >>
    /\ days = [d \in Day(1)..Day(MaxTime) |-> NoDay]

Start(a) ==
    /\ started[a] = 0
    /\ started' = [started EXCEPT ![a] = now]
    /\ UNCHANGED <<now, cap, capStart, spent, settlements, days, caps, deliveries>>

\* setSpendingCap: a new period begins and forgets the old one.
\* Mutant: the settlements of the period that ended are kept.
NewPeriodRemembering(c) ==
    /\ cap' = c /\ spent' = 0
    /\ capStart' = IF c > 0 THEN now ELSE 0
    /\ UNCHANGED settlements

NewPeriod(c) ==
    /\ cap' = c /\ spent' = 0
    /\ capStart' = IF c > 0 THEN now ELSE 0
    /\ settlements' = << >>

SetCap(c) ==
    /\ caps < MaxCaps
    /\ caps' = caps + 1
    /\ NewPeriod(c)
    /\ UNCHANGED <<now, started, days, deliveries>>

\* An attempt counts when it began in the period of the cap.
Counted(a) == cap > 0 /\ capStart > 0 /\ started[a] >= capStart

\* pruneSettlements: those that started first go, the one just recorded too;
\* of several that started together any may stay.
Kept(table) ==
    {kept \in SUBSET DOMAIN table :
        /\ Cardinality(kept) = Min({Window, Cardinality(DOMAIN table)})
        /\ \A a \in kept, b \in DOMAIN table \ kept : started[b] <= started[a]}

RecordUsage(a, cost) ==
    LET previous == IF a \in DOMAIN settlements THEN settlements[a] ELSE 0
        recorded == [x \in DOMAIN settlements \cup {a} |->
                       IF x = a THEN cost ELSE settlements[x]]
    IN /\ spent' = IF Counted(a) THEN Max({0, spent + (cost - previous)}) ELSE spent
       /\ \E kept \in Kept(recorded) : settlements' = [x \in kept |-> recorded[x]]

\* addGatewayUsage on the compacted table: days past retention are gone, and
\* an attempt the day still remembers is not counted again.
AddGatewayUsage(a, cost) ==
    LET today == Day(started[a])
        live  == [d \in DOMAIN days |-> IF d < Day(now) - Retention THEN NoDay ELSE days[d]]
        entry == live[today]
        seen  == Append(entry.seen, a)
    IN days' = IF a \in ToSet(entry.seen) THEN live
               ELSE [live EXCEPT ![today] =
                      [requests |-> entry.requests + 1, cost |-> entry.cost + cost,
                       seen |-> SubSeq(seen, Max({1, Len(seen) - Window + 1}), Len(seen))]]

\* addUsage with recordGatewayUsage, or the settlement of finalizeGatewayRequest.
Settle(a, cost) ==
    /\ started[a] > 0
    /\ deliveries < MaxDeliveries
    /\ deliveries' = deliveries + 1
    /\ RecordUsage(a, cost)
    /\ AddGatewayUsage(a, cost)
    /\ UNCHANGED <<now, started, cap, capStart, caps>>

Tick ==
    /\ now < MaxTime
    /\ now' = now + 1
    /\ UNCHANGED <<started, cap, capStart, spent, settlements, days, caps, deliveries>>

Next ==
    \/ \E a \in Attempts : Start(a) \/ \E cost \in Costs : Settle(a, cost)
    \/ \E c \in Caps \cup {0} : SetCap(c)
    \/ Tick

Spec == Init /\ [][Next]_vars

(* However settlements are repeated, corrected, forgotten and separated by *)
(* changes of the cap, an account is never charged less than the           *)
(* settlements of the period it still remembers (domain.js recordUsage and *)
(* pruneSettlements): what the window forgets is counted again, never      *)
(* dropped, and a correction never pays for another period.                *)
SpentCoversTheWindow ==
    cap > 0 =>
      spent >= MapThenSumSet(LAMBDA a : settlements[a], {a \in DOMAIN settlements : started[a] >= capStart})

(* The inductive invariant: what is remembered has started and cost        *)
(* something, a cap has a period, and SpentCoversTheWindow.                *)
SpendingInv ==
    /\ TypeOK
    /\ IsFiniteSet(DOMAIN settlements)
    /\ \A a \in DOMAIN settlements : started[a] > 0 /\ settlements[a] \in Nat
    /\ cap > 0 => capStart > 0
    /\ SpentCoversTheWindow
=============================================================================
