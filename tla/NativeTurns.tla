---------------------------- MODULE NativeTurns ----------------------------
(***************************************************************************)
(* Receipts of native turns (native-turn-recovery.js), the lanes that      *)
(* deliver them (native-response-steering.js, streamResponse of proxy.js)  *)
(* and their records (store.js), through disconnects and crashes. A lane   *)
(* is a native WebSocket or one HTTP request.                              *)
(*                                                                         *)
(* The receipt of a lease and its copy in the store differ only while a    *)
(* function runs, so there is one copy, "mem". "disk" follows it whenever  *)
(* the durability barrier lets it. An output item is named by the          *)
(* generation that wrote it; a seal is the sequence it seals. Accounts,    *)
(* options and the 330 seconds only add refusals, and a turn may always be *)
(* refused; no receipt gets a day old.                                     *)
(***************************************************************************)
EXTENDS Naturals, SequencesExt, FiniteSets, FiniteSetTheorems, TLAPS

CONSTANTS
    Keys,             \* turns of clients, as nativeTurnIdentity names them
    Lanes,
    Json,             \* whether an HTTP answer may come in one piece
    MaxItems,         \* MAX_ITEMS
    MaxReceipts,      \* the 1000 of saveNativeTurnReceipt
    MaxGenerations,   \* bound on the executions
    MaxCrashes        \* bound on the restarts

NativeTurnsAssumption ==
    /\ Json \in BOOLEAN
    /\ {MaxItems, MaxReceipts} \subseteq Nat \ {0}
    /\ {MaxGenerations, MaxCrashes} \subseteq Nat

VARIABLES
    mem,              \* nativeTurnReceipts
    disk,
    owner,            \* OWNER, one per process
    active,           \* the unfinished lease of a key: its generation, or 0
    lane,             \* one NativeResponseSteering per connection
    exec,             \* every execution: its key and its input
    got               \* items the clients received, and those they may have

vars == <<mem, disk, owner, active, lane, exec, got>>

-----------------------------------------------------------------------------
(* State *)

Generations == 1 .. MaxGenerations
Item == [gen : Generations, n : 0 .. MaxItems + 1, kind : {"plain", "tool", "results", "mail"}]

Statuses == {"absent", "in_progress", "interrupted", "failed", "succeeded"}
Record == [gen : 0 .. MaxGenerations, owner : 0 .. MaxCrashes + 1, status : Statuses,
           input : Seq(Item), items : Seq(Item),
           partial : BOOLEAN, poisoned : BOOLEAN, pending : BOOLEAN]

NoReceipt == [gen |-> 0, owner |-> 0, status |-> "absent", input |-> <<>>, items |-> <<>>,
              partial |-> FALSE, poisoned |-> FALSE, pending |-> FALSE]

\* phase: of the delivery of "event", or "idle"; "gen": the lease it belongs
\* to; "current": the lease of the turn in progress; "made": items so far.
Lane == [closed : BOOLEAN, current : 0 .. MaxGenerations, gen : 0 .. MaxGenerations,
         phase : {"idle", "barrier", "writing", "settling"}, late : BOOLEAN,
         event : {"none", "known", "item", "tool", "arguments", "unknown", "success", "failure"},
         made : 0 .. MaxItems + 1]

NewLane == [closed |-> FALSE, current |-> 0, gen |-> 0, phase |-> "idle", late |-> FALSE,
            event |-> "none", made |-> 0]

Idle(x) == [x EXCEPT !.phase = "idle", !.gen = 0, !.event = "none"]
\* After a failure the client's socket is closing.
Usable(l) == ~ lane[l].closed /\ ~ lane[l].late

KeyOf(g) == exec[g].key
Leased(g) == g # 0 /\ active[KeyOf(g)] = g

\* Items of one key that were written to a client.
Received(k) == {i \in got : KeyOf(i.gen) = k}

-----------------------------------------------------------------------------
(* store.saveNativeTurnReceipt *)

Stored(k) == mem[k] # NoReceipt
HasRoom(k) ==
    \/ Stored(k)
    \/ Cardinality({j \in Keys : Stored(j)}) < MaxReceipts
    \/ \E j \in Keys : Stored(j) /\ mem[j].status # "in_progress"

\* Too many receipts: those not in progress go.
Saved(k, receipt) ==
    LET kept == {j \in Keys : Stored(j)} \cup {k}
        idle == {j \in kept \ {k} : mem[j].status # "in_progress"}
    IN  \E gone \in SUBSET idle :
           /\ Cardinality(gone) = LET excess == Cardinality(kept) - MaxReceipts
                                  IN  IF excess <= 0 THEN 0
                                      ELSE IF excess < Cardinality(idle) THEN excess
                                      ELSE Cardinality(idle)
           /\ mem' = [j \in Keys |-> IF j = k THEN receipt
                                     ELSE IF j \in gone THEN NoReceipt ELSE mem[j]]

Change(g, receipt) == Saved(KeyOf(g), receipt)

-----------------------------------------------------------------------------
(* beginNativeTurn *)

Ends(k) ==
    \/ mem[k].status = "interrupted"
    \/ mem[k].status = "in_progress" /\ mem[k].owner # owner

\* mutant: an interrupted write counts as not written
ProvedUnwritten(k) == ~ mem[k].poisoned /\ ~ mem[k].partial

Proved(k) == ~ mem[k].poisoned /\ ~ mem[k].partial /\ ~ mem[k].pending

Exact(k, input) == input = mem[k].input /\ mem[k].items = <<>>

\* verifyContinuation: the whole output, then nothing, the results of its
\* calls, or mail.
HasCall(items) == \E i \in DOMAIN items : items[i].kind = "tool"
Continues(k, input) ==
    /\ mem[k].items # <<>>
    /\ \/ input = mem[k].input \o mem[k].items
       \/ /\ Front(input) = mem[k].input \o mem[k].items
          /\ CASE Last(input).kind = "results" -> HasCall(mem[k].items)
               [] Last(input).kind = "mail" -> ~ HasCall(mem[k].items)
               [] OTHER -> FALSE

AnswersTools(k, input) == mem[k].status = "succeeded" /\ Last(input).kind = "results"

Admits(k, input) ==
    \/ ~ Stored(k)
    \/ /\ active[k] = 0 /\ Proved(k)
       /\ \/ Ends(k) /\ (Exact(k, input) \/ Continues(k, input))
          \/ Continues(k, input) /\ AnswersTools(k, input)

Receipt(g, input) ==
    [NoReceipt EXCEPT !.gen = g, !.owner = owner, !.status = "in_progress",
                      !.input = input]

\* What a client may send: what it sent before, as much of the output as it
\* got of it, and perhaps results or mail.
Outputs(g) ==
    LET seen == {i \in got : i.gen = g}
    IN  SetToSortSeq(seen, LAMBDA i, j : i.n < j.n)
Histories(k) ==
    {<<>>} \cup UNION {
        LET out == Outputs(g) IN
        {exec[g].input \o SubSeq(out, 1, n) : n \in 0 .. Len(out)} \cup
        {Append(exec[g].input \o out, [gen |-> g, n |-> 0, kind |-> mark]) :
             mark \in {"results", "mail"}}
        : g \in {h \in DOMAIN exec : KeyOf(h) = k}}

\* dispatch and open; the share may still refuse the turn.
Request(l, k, input) ==
    LET g == Len(exec) + 1 IN
    /\ Usable(l) /\ lane[l].current = 0
    /\ input \in Seq(Item)   \* nativeTurnIdentity: the input is a list
    /\ g <= MaxGenerations
    /\ Admits(k, input) /\ HasRoom(k)
    /\ exec' = Append(exec, [key |-> k, input |-> input])
    /\ \/ /\ Saved(k, Receipt(g, input))
          /\ active' = [active EXCEPT ![k] = g]
          /\ lane' = [lane EXCEPT ![l].current = g, ![l].made = 0]
       \/ /\ Saved(k, [Receipt(g, input) EXCEPT !.status = "failed"])
          /\ UNCHANGED <<active, lane>>
    /\ UNCHANGED <<disk, owner, got>>

-----------------------------------------------------------------------------
(* Receipts along a delivery *)

\* finishNativeTurn: nothing happens to a finished lease.
Finish(g, receipt, status) ==
    IF Leased(g)
    THEN /\ Change(g, [receipt EXCEPT !.status = status])
         /\ active' = [active EXCEPT ![KeyOf(g)] = 0]
    ELSE UNCHANGED <<mem, active>>

\* The item that a delivery carries.
Carried(i) == [gen |-> i.gen, n |-> i.made,
               kind |-> IF i.event = "tool" THEN "tool" ELSE "plain"]

\* nativeEventWritten
Noted(receipt, i) ==
    CASE i.event \in {"item", "tool"} ->
           IF Len(receipt.items) >= MaxItems
           THEN [receipt EXCEPT !.poisoned = TRUE, !.pending = FALSE]
           ELSE [receipt EXCEPT
                    !.items = Append(receipt.items, Carried(i)),
                    !.partial = receipt.partial /\ i.event # "tool", !.pending = FALSE]
      [] i.event = "arguments" -> [receipt EXCEPT !.partial = TRUE, !.pending = FALSE]
      [] i.event = "unknown" -> [receipt EXCEPT !.poisoned = TRUE, !.pending = FALSE]
      [] OTHER -> [receipt EXCEPT !.pending = FALSE]

FinalStatus(event) ==
    CASE event = "success" -> "succeeded" [] event = "failure" -> "failed" [] OTHER -> "none"

\* An event of the upstream: event(), then deliver() up to its first barrier.
\* A terminal one lets the next turn in before it is delivered.
Deliver(l, event) ==
    LET g == lane[l].current
        n == lane[l].made + (IF event \in {"item", "tool"} THEN 1 ELSE 0) IN
    /\ Usable(l) /\ lane[l].phase = "idle" /\ g # 0
    /\ n <= MaxItems + 1
    /\ lane' = [lane EXCEPT ![l].event = event, ![l].gen = g, ![l].phase = "barrier",
                            ![l].made = n,
                            ![l].current = IF event \in {"success", "failure"} THEN 0 ELSE g]
    /\ IF Leased(g) THEN Change(g, [mem[KeyOf(g)] EXCEPT !.pending = TRUE]) ELSE UNCHANGED mem
    /\ UNCHANGED <<disk, owner, active, exec, got>>

Durable == disk = mem

Write(l) ==
    /\ lane[l].phase = "barrier" /\ Durable /\ ~ lane[l].late /\ ~ lane[l].closed
    /\ lane' = [lane EXCEPT ![l].phase = "writing"]
    /\ UNCHANGED <<mem, disk, owner, active, exec, got>>

\* What was handed to the socket arrives or does not, even when the deadline
\* passed or the callback reports an error.
Arrives(l) ==
    /\ lane[l].phase = "writing" /\ lane[l].event \in {"item", "tool"}
    /\ got' = got \cup {Carried(lane[l])}
    /\ UNCHANGED <<mem, disk, owner, active, lane, exec>>

\* The write's callback: the receipt is brought up to date, and the lease
\* ends with a terminal event or with the connection.
Written(l) ==
    LET g == lane[l].gen
        final == FinalStatus(lane[l].event)
        receipt == Noted(mem[KeyOf(g)], lane[l]) IN
    /\ lane[l].phase = "writing" /\ ~ lane[l].late
    /\ lane' = [lane EXCEPT ![l].phase = "settling"]
    /\ IF ~ Leased(g) THEN UNCHANGED <<mem, active>>
       ELSE IF final # "none" THEN Finish(g, receipt, final)
       ELSE IF lane[l].closed THEN Finish(g, receipt, "interrupted")
       ELSE Change(g, receipt) /\ UNCHANGED active
    /\ UNCHANGED <<disk, owner, exec, got>>

Settled(l) ==
    LET g == lane[l].gen IN
    /\ lane[l].phase = "settling" /\ Durable /\ ~ lane[l].late
    /\ lane' = [lane EXCEPT ![l] = Idle(lane[l])]
    /\ IF lane[l].closed /\ Leased(g) THEN Finish(g, mem[KeyOf(g)], "interrupted")
                                      ELSE UNCHANGED <<mem, active>>
    /\ UNCHANGED <<disk, owner, exec, got>>

\* The barrier or the write fails, or the deadline passes: the lease ends as
\* interrupted and the connection is closed (closeBoth).
DeliveryFails(l) ==
    LET g == lane[l].gen IN
    /\ lane[l].phase # "idle" /\ ~ lane[l].late
    /\ lane' = [lane EXCEPT ![l] = IF lane[l].phase = "writing"
                                   THEN [lane[l] EXCEPT !.late = TRUE]
                                   ELSE [Idle(lane[l]) EXCEPT !.late = TRUE]]
    /\ Finish(g, mem[KeyOf(g)], "interrupted")
    /\ UNCHANGED <<disk, owner, exec, got>>

\* mutant: the turn in progress is left as it is
CloseAndLeave(l) ==
    /\ ~ lane[l].closed
    /\ lane' = [lane EXCEPT ![l].closed = TRUE, ![l].current = 0]
    /\ UNCHANGED <<mem, disk, owner, active, exec, got>>

\* close: a delivery in flight keeps its lease.
Close(l) ==
    LET g == lane[l].current
        delivering == lane[l].phase # "idle" /\ ~ lane[l].late /\ lane[l].gen = g IN
    /\ ~ lane[l].closed
    /\ lane' = [lane EXCEPT ![l].closed = TRUE, ![l].current = 0]
    /\ IF g # 0 /\ ~ delivering THEN Finish(g, mem[KeyOf(g)], "interrupted")
                                ELSE UNCHANGED <<mem, active>>
    /\ UNCHANGED <<disk, owner, exec, got>>

\* A new connection in the place of a closed one.
Reconnect(l) ==
    /\ lane[l].closed /\ (lane[l].phase = "idle" \/ lane[l].late)
    /\ lane' = [lane EXCEPT ![l] = NewLane]
    /\ UNCHANGED <<mem, disk, owner, active, exec, got>>

\* An HTTP answer in one piece: one write, and no barrier before it.
AnswerWhole(l) ==
    LET g == lane[l].current
        item == [gen |-> g, n |-> 1, kind |-> "plain"] IN
    /\ Json /\ Usable(l) /\ g # 0 /\ lane[l].phase = "idle" /\ lane[l].made = 0
    /\ disk[KeyOf(g)].gen = g   \* the barrier after beginNativeTurn
    /\ got' = got \cup {item}
    /\ lane' = [lane EXCEPT ![l].current = 0]
    /\ Finish(g, [mem[KeyOf(g)] EXCEPT !.items = <<item>>], "succeeded")
    /\ UNCHANGED <<disk, owner, exec>>

-----------------------------------------------------------------------------
(* Durability and crashes *)

Persist == disk # mem /\ disk' = mem /\ UNCHANGED <<mem, owner, active, lane, exec, got>>

Crash ==
    /\ owner < MaxCrashes + 1
    /\ owner' = owner + 1
    /\ mem' = disk
    /\ active' = [k \in Keys |-> 0]
    /\ lane' = [l \in Lanes |-> NewLane]
    /\ UNCHANGED <<disk, exec, got>>

-----------------------------------------------------------------------------
(* Specification *)

Init ==
    /\ mem = [k \in Keys |-> NoReceipt] /\ disk = mem
    /\ owner = 1
    /\ active = [k \in Keys |-> 0]
    /\ lane = [l \in Lanes |-> NewLane]
    /\ exec = <<>>
    /\ got = {}

Events == {"known", "item", "tool", "arguments", "unknown", "success", "failure"}

Next ==
    \/ \E l \in Lanes :
          \/ \E k \in Keys : \E input \in Histories(k) : Request(l, k, input)
          \/ \E event \in Events : Deliver(l, event)
          \/ Write(l) \/ Arrives(l) \/ Written(l) \/ Settled(l) \/ DeliveryFails(l)
          \/ Close(l) \/ Reconnect(l) \/ AnswerWhole(l)
    \/ Persist \/ Crash

Spec == Init /\ [][Next]_vars

-----------------------------------------------------------------------------
(* Properties *)

TypeOK ==
    /\ {mem, disk} \subseteq [Keys -> Record]
    /\ \A k \in Keys : Len(mem[k].items) <= MaxItems /\ Len(disk[k].items) <= MaxItems
    /\ owner \in 1 .. MaxCrashes + 1
    /\ active \in [Keys -> 0 .. MaxGenerations]
    /\ lane \in [Lanes -> Lane]
    /\ exec \in Seq([key : Keys, input : Seq(Item)])
    /\ got \subseteq Item

\* The step that runs a turn again knows what an earlier run was answered.
RunsKnowTheAnswer ==
    Len(exec') > Len(exec) => Received(Last(exec').key) \subseteq Range(Last(exec').input)

\* A turn runs again only with a history that contains every item an earlier
\* run showed the client, whatever was disconnected, delayed or crashed in
\* between (beginNativeTurn, deliver).
NoBlindReplay == [][RunsKnowTheAnswer]_vars

\* A receipt in progress in this process belongs to a lane that will finish
\* it; without one the client is refused until the process ends
\* (NativeResponseSteering.close, finishNativeTurn).
RunningHasALane ==
    \A k \in Keys : active[k] # 0 =>
        \E l \in Lanes : \/ lane[l].current = active[k]
                         \/ lane[l].gen = active[k] /\ lane[l].phase # "idle" /\ ~ lane[l].late

-----------------------------------------------------------------------------
(* The inductive invariants *)

Terminal == {"success", "failure"}

\* Turns have numbers of executions, and an execution has one key.
TurnsAreKnown ==
    /\ \A k \in Keys : active[k] # 0 => active[k] \in DOMAIN exec /\ KeyOf(active[k]) = k
    /\ \A l \in Lanes : {lane[l].current, lane[l].gen} \subseteq {0} \cup DOMAIN exec
    /\ \A l \in Lanes : lane[l].phase # "idle" => lane[l].gen # 0
    /\ \A i \in got : i.gen \in DOMAIN exec

\* A delivery is one of the turn in progress, or its end.
DeliveriesAreCurrent ==
    \A l \in Lanes :
        /\ lane[l].closed => lane[l].current = 0
        /\ lane[l].phase # "idle" /\ ~ lane[l].late /\ ~ lane[l].closed =>
               lane[l].current = lane[l].gen \/ lane[l].event \in Terminal
        /\ lane[l].phase = "settling" /\ ~ lane[l].late /\ lane[l].event \in Terminal =>
               active[KeyOf(lane[l].gen)] # lane[l].gen

LInv == TypeOK /\ TurnsAreKnown /\ DeliveriesAreCurrent /\ RunningHasALane

On(l, g) == lane[l].current = g \/ (lane[l].phase # "idle" /\ lane[l].gen = g)
Delivering(l) == lane[l].phase \in {"barrier", "writing"}

\* A turn is on one lane, and holds its lease while it can still be answered.
TurnsAreLeased ==
    /\ \A l, m \in Lanes : \A g \in DOMAIN exec : On(l, g) /\ On(m, g) => l = m
    /\ \A l \in Lanes :
          /\ Usable(l) /\ lane[l].current # 0 => Leased(lane[l].current)
          /\ Delivering(l) /\ ~ lane[l].late => Leased(lane[l].gen)
          /\ lane[l].phase # "idle" /\ lane[l].event \in Terminal =>
                 lane[l].current # lane[l].gen
    /\ \A k \in Keys : active[k] # 0 => mem[k].gen = active[k]

Shown(r) == Range(r.input) \cup Range(r.items)
Flying(l) == IF lane[l].event \in {"item", "tool"} THEN {Carried(lane[l])} ELSE {}

\* A receipt without a doubt names all that its client received.
ReceiptsAreComplete ==
    \A k \in Keys : \A r \in {mem[k], disk[k]} :
        ~ r.pending /\ ~ r.poisoned => Received(k) \subseteq Shown(r)

\* What is on its way is in doubt, in memory and on disk.
WritesAreDoubted ==
    \A l \in Lanes :
        LET k == KeyOf(lane[l].gen) IN
        /\ lane[l].phase = "writing" =>
              /\ mem[k].pending /\ disk[k].pending
              /\ lane[l].late => active[k] = 0
        /\ lane[l].phase = "barrier" /\ ~ lane[l].late =>
              /\ mem[k].pending
              /\ mem[k].poisoned \/ Received(k) \subseteq Shown(mem[k])
        /\ lane[l].phase = "writing" /\ ~ lane[l].late =>
              mem[k].poisoned \/ Received(k) \subseteq Shown(mem[k]) \cup Flying(l)

\* A lane at rest has nothing in doubt.
RestIsCertain ==
    \A l \in Lanes :
        Usable(l) /\ lane[l].current # 0
            /\ ~ (Delivering(l) /\ lane[l].gen = lane[l].current)
        => ~ mem[KeyOf(lane[l].current)].pending

RInv == LInv /\ TurnsAreLeased /\ ReceiptsAreComplete /\ WritesAreDoubted /\ RestIsCertain
-----------------------------------------------------------------------------
(* Proofs. First the facts that most steps use. *)

\* An execution has a key, and a lane a gen, that may be looked up.
LEMMA KeysOfTurns ==
    ASSUME TypeOK, NEW g \in DOMAIN exec
    PROVE  /\ KeyOf(g) \in Keys /\ exec[g].input \in Seq(Item)
           /\ g \in Nat \ {0} /\ g <= Len(exec)
<1> DEFINE Run == [key : Keys, input : Seq(Item)]
<1>1. exec \in Seq(Run)
  BY DEF TypeOK
<1>2. exec[g] \in Run /\ g \in 1 .. Len(exec) /\ Len(exec) \in Nat
  <2> HIDE DEF Run
  <2> QED
    BY <1>1
<1> QED
  BY <1>2 DEF KeyOf

\* Whatever saveNativeTurnReceipt drops, the rest are receipts.
LEMMA SavedTypes ==
    ASSUME NativeTurnsAssumption, TypeOK, NEW k \in Keys, NEW r \in Record,
           Len(r.items) <= MaxItems, Saved(k, r)
    PROVE  mem' \in [Keys -> Record] /\ \A j \in Keys : Len(mem'[j].items) <= MaxItems
<1>1. NoReceipt \in Record /\ Len(NoReceipt.items) <= MaxItems
  BY DEF NoReceipt, Record, Statuses, NativeTurnsAssumption
<1>2. PICK gone : mem' = [j \in Keys |-> IF j = k THEN r
                                         ELSE IF j \in gone THEN NoReceipt ELSE mem[j]]
  BY DEF Saved
<1>3. mem \in [Keys -> Record] /\ \A j \in Keys : Len(mem[j].items) <= MaxItems
  BY DEF TypeOK
<1> QED
  BY <1>1, <1>2, <1>3

\* A status changes nothing else of a receipt.
LEMMA StatusChanges ==
    ASSUME NEW r \in Record, NEW status \in Statuses
    PROVE  /\ [r EXCEPT !.status = status] \in Record
           /\ [r EXCEPT !.status = status].items = r.items
           /\ [r EXCEPT !.status = status].input = r.input
           /\ [r EXCEPT !.status = status].gen = r.gen
           /\ [r EXCEPT !.status = status].pending = r.pending
           /\ [r EXCEPT !.status = status].poisoned = r.poisoned
BY DEF Record

\* Neither does a doubt.
LEMMA DoubtChanges ==
    ASSUME NEW r \in Record
    PROVE  /\ [r EXCEPT !.pending = TRUE] \in Record
           /\ [r EXCEPT !.pending = TRUE].items = r.items
           /\ [r EXCEPT !.pending = TRUE].input = r.input
           /\ [r EXCEPT !.pending = TRUE].gen = r.gen
           /\ [r EXCEPT !.pending = TRUE].pending = TRUE
           /\ [r EXCEPT !.pending = TRUE].poisoned = r.poisoned
BY DEF Record

\* finishNativeTurn frees the lease it ends and no other.
LEMMA Finished ==
    ASSUME NativeTurnsAssumption, TypeOK, TurnsAreKnown,
           NEW g \in {0} \cup DOMAIN exec, NEW r, NEW status \in Statuses,
           Leased(g) => r \in Record /\ Len(r.items) <= MaxItems,
           Finish(g, r, status)
    PROVE  /\ active' \in [Keys -> 0 .. MaxGenerations]
           /\ \A k \in Keys : active'[k] = active[k] \/ active'[k] = 0
           /\ \A k \in Keys : active'[k] # 0 => active'[k] # g
           /\ mem' \in [Keys -> Record]
           /\ \A k \in Keys : Len(mem'[k].items) <= MaxItems
<1>1. active \in [Keys -> 0 .. MaxGenerations]
      /\ mem \in [Keys -> Record] /\ \A k \in Keys : Len(mem[k].items) <= MaxItems
  BY DEF TypeOK
<1>2. 0 \in 0 .. MaxGenerations
  BY DEF NativeTurnsAssumption
<1>3. CASE ~ Leased(g)
  <2>1. active' = active /\ mem' = mem
    BY <1>3 DEF Finish
  <2>2. ASSUME NEW k \in Keys, active[k] # 0 PROVE active[k] # g
    BY <1>3, <2>2 DEF TurnsAreKnown, Leased
  <2> QED
    BY <2>1, <2>2, <1>1
<1>4. CASE Leased(g)
  <2>1. g \in DOMAIN exec /\ KeyOf(g) \in Keys
    BY <1>4, KeysOfTurns DEF Leased
  <2>2. active' = [active EXCEPT ![KeyOf(g)] = 0]
    BY <1>4 DEF Finish
  <2>3. ASSUME NEW k \in Keys, k # KeyOf(g), active[k] # 0 PROVE active[k] # g
    BY <2>3 DEF TurnsAreKnown
  <2>4. Saved(KeyOf(g), [r EXCEPT !.status = status])
    BY <1>4 DEF Finish, Change
  <2>5. [r EXCEPT !.status = status] \in Record
        /\ [r EXCEPT !.status = status].items = r.items
    BY <1>4, StatusChanges
  <2>6. mem' \in [Keys -> Record] /\ \A j \in Keys : Len(mem'[j].items) <= MaxItems
    BY <1>4, <2>1, <2>4, <2>5, SavedTypes
  <2> QED
    BY <1>1, <1>2, <2>1, <2>2, <2>3, <2>6
<1> QED
  BY <1>3, <1>4

\* What a lane may become when it begins no turn: it leaves its turn only for
\* a delivery of it, or when the lease is over.
TurnsStay(l, v) ==
    /\ v \in Lane
    /\ lane' = [lane EXCEPT ![l] = v]
    /\ v.current = 0 \/ v.current = lane[l].current
    /\ v.gen = 0 \/ v.gen = lane[l].gen \/ v.gen = lane[l].current
    /\ v.phase # "idle" => v.gen # 0
    /\ v.closed => v.current = 0
    /\ v.phase # "idle" /\ ~ v.late /\ ~ v.closed =>
           v.current = v.gen \/ v.event \in Terminal
    /\ v.phase = "settling" /\ ~ v.late /\ v.event \in Terminal =>
           active'[KeyOf(v.gen)] # v.gen
    /\ \A k \in Keys :
           active'[k] # 0 /\ (\/ lane[l].current = active'[k]
                              \/ lane[l].gen = active'[k] /\ lane[l].phase # "idle"
                                     /\ ~ lane[l].late) =>
               \/ v.current = active'[k]
               \/ v.gen = active'[k] /\ v.phase # "idle" /\ ~ v.late

\* Leases end, and none begins.
LeasesEnd ==
    /\ active' \in [Keys -> 0 .. MaxGenerations]
    /\ \A k \in Keys : active'[k] = active[k] \/ active'[k] = 0

LEMMA LaneTurn ==
    ASSUME NativeTurnsAssumption, LInv, NEW l \in Lanes, NEW v,
           exec' = exec, got' = got, LeasesEnd, TurnsStay(l, v)
    PROVE  /\ lane' \in [Lanes -> Lane]
           /\ TurnsAreKnown' /\ DeliveriesAreCurrent' /\ RunningHasALane'
<1> lane \in [Lanes -> Lane]
  BY DEF LInv, TypeOK
<1>1. lane' \in [Lanes -> Lane] /\ lane'[l] = v
      /\ \A m \in Lanes \ {l} : lane'[m] = lane[m]
  BY DEF TurnsStay
<1>3. TurnsAreKnown'
  <2>1. ASSUME NEW k \in Keys, active'[k] # 0
        PROVE  active'[k] \in DOMAIN exec' /\ exec'[active'[k]].key = k
    BY <2>1 DEF LInv, TurnsAreKnown, KeyOf, LeasesEnd
  <2>2. ASSUME NEW m \in Lanes
        PROVE  /\ {lane'[m].current, lane'[m].gen} \subseteq {0} \cup DOMAIN exec'
               /\ lane'[m].phase # "idle" => lane'[m].gen # 0
    BY <1>1 DEF LInv, TurnsAreKnown, TurnsStay
  <2> QED
    BY <2>1, <2>2 DEF TurnsAreKnown, LInv, KeyOf
<1>4. DeliveriesAreCurrent'
  <2> SUFFICES ASSUME NEW m \in Lanes
               PROVE  /\ lane'[m].closed => lane'[m].current = 0
                      /\ lane'[m].phase # "idle" /\ ~ lane'[m].late /\ ~ lane'[m].closed =>
                             lane'[m].current = lane'[m].gen \/ lane'[m].event \in Terminal
                      /\ lane'[m].phase = "settling" /\ ~ lane'[m].late
                             /\ lane'[m].event \in Terminal =>
                             active'[exec'[lane'[m].gen].key] # lane'[m].gen
    BY DEF DeliveriesAreCurrent, Terminal, KeyOf
  <2>1. CASE m = l
    BY <2>1, <1>1 DEF KeyOf, TurnsStay
  <2>2. CASE m # l
    <3>1. lane'[m] = lane[m]
      BY <2>2, <1>1
    <3>2. lane[m].phase # "idle" => lane[m].gen # 0 /\ KeyOf(lane[m].gen) \in Keys
      BY KeysOfTurns DEF LInv, TurnsAreKnown
    <3> QED
      BY <3>1, <3>2 DEF LInv, DeliveriesAreCurrent, KeyOf, LeasesEnd
  <2> QED
    BY <2>1, <2>2
<1>5. RunningHasALane'
  <2> SUFFICES ASSUME NEW k \in Keys, active'[k] # 0
               PROVE  \E m \in Lanes :
                         \/ lane'[m].current = active'[k]
                         \/ lane'[m].gen = active'[k] /\ lane'[m].phase # "idle"
                                /\ ~ lane'[m].late
    BY DEF RunningHasALane
  <2>1. PICK m \in Lanes :
           \/ lane[m].current = active'[k]
           \/ lane[m].gen = active'[k] /\ lane[m].phase # "idle" /\ ~ lane[m].late
    BY DEF LInv, RunningHasALane, LeasesEnd
  <2>2. CASE m = l
    BY <2>1, <2>2, <1>1 DEF TurnsStay
  <2>3. CASE m # l
    BY <2>1, <2>3, <1>1
  <2> QED
    BY <2>2, <2>3
<1> QED
  BY <1>1, <1>3, <1>4, <1>5

\* A lane at rest, or given up.
LEMMA IdleIs ==
    ASSUME NativeTurnsAssumption, NEW x \in Lane
    PROVE  /\ Idle(x) \in Lane /\ Idle(x).phase = "idle" /\ Idle(x).gen = 0
           /\ Idle(x).closed = x.closed /\ Idle(x).late = x.late
           /\ Idle(x).current = x.current
<1> 0 \in 0 .. MaxGenerations
  BY DEF NativeTurnsAssumption
<1> QED
  BY DEF Idle, Lane

LEMMA LateIs ==
    ASSUME NEW x \in Lane
    PROVE  LET y == [x EXCEPT !.late = TRUE] IN
           /\ y \in Lane /\ y.late /\ y.phase = x.phase /\ y.gen = x.gen
           /\ y.closed = x.closed /\ y.current = x.current
BY DEF Lane

-----------------------------------------------------------------------------
(* Every turn in progress has a lane, step by step. *)

LEMMA LaneIs ==
    ASSUME TypeOK, NEW l \in Lanes
    PROVE  lane[l] \in Lane
BY DEF TypeOK

\* The receipt of a lease that runs.
LEMMA LeasedReceipt ==
    ASSUME TypeOK, TurnsAreKnown, NEW g \in {0} \cup DOMAIN exec, Leased(g)
    PROVE  /\ g # 0 /\ KeyOf(g) \in Keys /\ active[KeyOf(g)] = g
           /\ mem[KeyOf(g)] \in Record /\ Len(mem[KeyOf(g)].items) <= MaxItems
BY KeysOfTurns DEF Leased, TypeOK

LEMMA ChangeTypes ==
    ASSUME NativeTurnsAssumption, TypeOK, TurnsAreKnown, NEW g \in {0} \cup DOMAIN exec,
           Leased(g), NEW r \in Record, Len(r.items) <= MaxItems, Change(g, r)
    PROVE  mem' \in [Keys -> Record] /\ \A k \in Keys : Len(mem'[k].items) <= MaxItems
BY LeasedReceipt, SavedTypes DEF Change

LEMMA TypesKept ==
    ASSUME TypeOK, mem' \in [Keys -> Record],
           \A k \in Keys : Len(mem'[k].items) <= MaxItems,
           lane' \in [Lanes -> Lane], active' \in [Keys -> 0 .. MaxGenerations],
           disk' = disk, owner' = owner, exec' = exec, got' = got
    PROVE  TypeOK'
BY DEF TypeOK

LEMMA DeliverHasALane ==
    ASSUME NativeTurnsAssumption, LInv, NEW l \in Lanes, NEW event \in Events,
           Deliver(l, event)
    PROVE  LInv'
<1> DEFINE g == lane[l].current
           n == lane[l].made + (IF event \in {"item", "tool"} THEN 1 ELSE 0)
           over == event \in {"success", "failure"}
           v == [lane[l] EXCEPT !.event = event, !.gen = g, !.phase = "barrier",
                                !.made = n, !.current = IF over THEN 0 ELSE g]
<1>1. TypeOK /\ TurnsAreKnown /\ lane[l] \in Lane
  BY LaneIs DEF LInv
<1>2. /\ ~ lane[l].closed /\ ~ lane[l].late /\ lane[l].phase = "idle" /\ g # 0
      /\ n <= MaxItems + 1
      /\ lane' = [lane EXCEPT ![l] = v]
      /\ exec' = exec /\ got' = got /\ active' = active /\ disk' = disk /\ owner' = owner
  BY <1>1 DEF Deliver, Usable, Lane, TypeOK
<1>3. n \in 0 .. MaxItems + 1
  BY <1>1, <1>2 DEF Lane, NativeTurnsAssumption
<1>4. /\ v \in Lane
      /\ v.closed = lane[l].closed /\ v.late = lane[l].late /\ v.gen = g
      /\ v.phase = "barrier" /\ v.event = event /\ v.current = IF over THEN 0 ELSE g
  <2>1. g \in 0 .. MaxGenerations /\ 0 \in 0 .. MaxGenerations
    BY <1>1, NativeTurnsAssumption DEF Lane, NativeTurnsAssumption
  <2>2. (IF over THEN 0 ELSE g) \in 0 .. MaxGenerations
    BY <2>1
  <2>3. event \in {"known", "item", "tool", "arguments", "unknown", "success", "failure"}
    BY DEF Events
  <2> DEFINE c == IF over THEN 0 ELSE g
  <2>4. v = [lane[l] EXCEPT !.event = event, !.gen = g, !.phase = "barrier",
                            !.made = n, !.current = c]
    OBVIOUS
  <2>5. c = IF over THEN 0 ELSE g
    OBVIOUS
  <2>6. c \in 0 .. MaxGenerations
    BY <2>2
  <2> HIDE DEF n, g, c, over, v
  <2>7. /\ v \in Lane
        /\ v.closed = lane[l].closed /\ v.late = lane[l].late /\ v.gen = g
        /\ v.phase = "barrier" /\ v.event = event /\ v.current = c
    BY <1>1, <1>3, <2>1, <2>3, <2>4, <2>6 DEF Lane
  <2> QED
    BY <2>5, <2>7
<1>5. active' \in [Keys -> 0 .. MaxGenerations]
  BY <1>1, <1>2 DEF TypeOK
<1>6. lane' \in [Lanes -> Lane] /\ TurnsAreKnown' /\ DeliveriesAreCurrent' /\ RunningHasALane'
  <2> HIDE DEF v
  <2> QED
    BY ZenonT(40), <1>2, <1>4, <1>5, LaneTurn DEF Terminal, TurnsStay, LeasesEnd
<1>7. mem' \in [Keys -> Record] /\ \A k \in Keys : Len(mem'[k].items) <= MaxItems
  <2>1. CASE Leased(g)
    <3>1. g \in {0} \cup DOMAIN exec
      BY <1>1 DEF TurnsAreKnown
    <3>2. Change(g, [mem[KeyOf(g)] EXCEPT !.pending = TRUE])
      BY <2>1 DEF Deliver
    <3>3. mem[KeyOf(g)] \in Record /\ Len(mem[KeyOf(g)].items) <= MaxItems
      BY <2>1, <3>1, <1>1, LeasedReceipt
    <3> HIDE DEF g
    <3> QED
      BY <1>1, <2>1, <3>1, <3>2, <3>3, DoubtChanges, ChangeTypes
  <2>2. CASE ~ Leased(g)
    BY <2>2, <1>1 DEF Deliver, TypeOK
  <2> QED
    BY <2>1, <2>2
<1> QED
  BY <1>1, <1>2, <1>5, <1>6, <1>7, TypesKept DEF LInv

LEMMA WriteHasALane ==
    ASSUME NativeTurnsAssumption, LInv, NEW l \in Lanes, Write(l)
    PROVE  LInv'
<1> DEFINE v == [lane[l] EXCEPT !.phase = "writing"]
<1>1. TypeOK /\ TurnsAreKnown /\ DeliveriesAreCurrent /\ lane[l] \in Lane
  BY LaneIs DEF LInv
<1>2. /\ lane[l].phase = "barrier" /\ ~ lane[l].late /\ ~ lane[l].closed
      /\ lane' = [lane EXCEPT ![l] = v]
      /\ exec' = exec /\ got' = got /\ active' = active /\ disk' = disk /\ owner' = owner
      /\ mem' = mem
  BY <1>1 DEF Write, TypeOK
<1>3. /\ v \in Lane /\ v.closed = lane[l].closed /\ v.late = lane[l].late
      /\ v.gen = lane[l].gen /\ v.phase = "writing" /\ v.event = lane[l].event
      /\ v.current = lane[l].current
  BY <1>1 DEF Lane
<1>4. /\ lane[l].gen # 0
      /\ lane[l].current = lane[l].gen \/ lane[l].event \in Terminal
  BY <1>1, <1>2 DEF TurnsAreKnown, DeliveriesAreCurrent
<1>5. active' \in [Keys -> 0 .. MaxGenerations]
  BY <1>1, <1>2 DEF TypeOK
<1>6. lane' \in [Lanes -> Lane] /\ TurnsAreKnown' /\ DeliveriesAreCurrent' /\ RunningHasALane'
  <2>1. LeasesEnd
    BY <1>2, <1>5 DEF LeasesEnd
  <2> HIDE DEF v
  <2>2. TurnsStay(l, v)
    BY <1>2, <1>3, <1>4 DEF TurnsStay
  <2> QED
    BY <1>2, <2>1, <2>2, LaneTurn
<1> QED
  BY <1>1, <1>2, <1>5, <1>6, TypesKept DEF LInv, TypeOK

LEMMA ArrivesHasALane ==
    ASSUME NativeTurnsAssumption, LInv, NEW l \in Lanes, Arrives(l)
    PROVE  LInv'
<1>1. TypeOK /\ TurnsAreKnown /\ lane[l] \in Lane
  BY LaneIs DEF LInv
<1>2. /\ lane[l].phase = "writing" /\ got' = got \cup {Carried(lane[l])}
      /\ UNCHANGED <<mem, disk, owner, active, lane, exec>>
  BY DEF Arrives
<1>3. lane[l].gen \in DOMAIN exec /\ lane[l].gen \in Generations
  <2>1. lane[l].gen # 0 /\ lane[l].gen \in {0} \cup DOMAIN exec
    BY <1>1, <1>2 DEF TurnsAreKnown
  <2> QED
    BY <2>1, <1>1, NativeTurnsAssumption DEF Lane, Generations, NativeTurnsAssumption
<1>4. Carried(lane[l]) \in Item /\ Carried(lane[l]).gen = lane[l].gen
  BY <1>1, <1>3 DEF Carried, Item, Lane
<1>5. TypeOK'
  BY <1>1, <1>2, <1>4 DEF TypeOK
<1>6. TurnsAreKnown'
  BY <1>1, <1>2, <1>3, <1>4 DEF TurnsAreKnown, KeyOf
<1> QED
  BY <1>2, <1>5, <1>6 DEF LInv, DeliveriesAreCurrent, RunningHasALane, KeyOf

\* What is noted keeps the receipt's generation and its list, and resolves the doubt.
LEMMA NotedIs ==
    ASSUME NativeTurnsAssumption, NEW r \in Record, Len(r.items) <= MaxItems,
           NEW x \in Lane, x.gen \in Generations
    PROVE  /\ Noted(r, x) \in Record /\ Len(Noted(r, x).items) <= MaxItems
           /\ Noted(r, x).gen = r.gen /\ Noted(r, x).input = r.input
           /\ Noted(r, x).pending = FALSE
           /\ \/ Noted(r, x).poisoned
              \/ /\ x.event \notin {"item", "tool"} /\ Noted(r, x).items = r.items
                 /\ r.poisoned = Noted(r, x).poisoned
              \/ /\ x.event \in {"item", "tool"}
                 /\ Noted(r, x).items = Append(r.items, Carried(x))
                 /\ r.poisoned = Noted(r, x).poisoned
<1>1. Carried(x) \in Item
  BY DEF Carried, Item, Lane
<1>2. /\ r.gen \in 0 .. MaxGenerations /\ r.owner \in 0 .. MaxCrashes + 1
      /\ r.status \in Statuses /\ r.input \in Seq(Item) /\ r.items \in Seq(Item)
      /\ {r.partial, r.poisoned, r.pending} \subseteq BOOLEAN
  BY DEF Record
<1>3. CASE x.event \in {"item", "tool"}
  <2>1. CASE Len(r.items) >= MaxItems
    <3>1. Noted(r, x) = [r EXCEPT !.poisoned = TRUE, !.pending = FALSE]
      BY <1>3, <2>1 DEF Noted
    <3> QED
      BY <3>1, <1>2 DEF Record
  <2>2. CASE ~ (Len(r.items) >= MaxItems)
    <3> DEFINE items == Append(r.items, Carried(x))
               partial == r.partial /\ x.event # "tool"
    <3>1. Noted(r, x) = [r EXCEPT !.items = items, !.partial = partial, !.pending = FALSE]
      BY <1>3, <2>2 DEF Noted
    <3>2. items \in Seq(Item) /\ Len(items) <= MaxItems /\ partial \in BOOLEAN
      BY <1>1, <1>2, <2>2, NativeTurnsAssumption DEF NativeTurnsAssumption
    <3> HIDE DEF items, partial
    <3>3. /\ Noted(r, x) \in Record /\ Noted(r, x).items = items
          /\ Noted(r, x).gen = r.gen /\ Noted(r, x).input = r.input
          /\ Noted(r, x).pending = FALSE /\ Noted(r, x).poisoned = r.poisoned
      BY <3>1, <3>2, <1>2 DEF Record
    <3> QED
      BY <3>2, <3>3, <1>3 DEF items
  <2> QED
    BY <2>1, <2>2
<1>4. CASE x.event = "arguments"
  <2>1. Noted(r, x) = [r EXCEPT !.partial = TRUE, !.pending = FALSE]
    BY <1>4 DEF Noted
  <2> QED
    BY <2>1, <1>2, <1>4 DEF Record
<1>5. CASE x.event = "unknown"
  <2>1. Noted(r, x) = [r EXCEPT !.poisoned = TRUE, !.pending = FALSE]
    BY <1>5 DEF Noted
  <2> QED
    BY <2>1, <1>2 DEF Record
<1>6. CASE x.event \notin {"item", "tool", "arguments", "unknown"}
  <2>1. Noted(r, x) = [r EXCEPT !.pending = FALSE]
    BY <1>6 DEF Noted
  <2> QED
    BY <2>1, <1>2, <1>6 DEF Record
<1> QED
  BY <1>3, <1>4, <1>5, <1>6

LEMMA WrittenHasALane ==
    ASSUME NativeTurnsAssumption, LInv, NEW l \in Lanes, Written(l)
    PROVE  LInv'
<1> DEFINE g == lane[l].gen
           final == FinalStatus(lane[l].event)
           receipt == Noted(mem[KeyOf(g)], lane[l])
           v == [lane[l] EXCEPT !.phase = "settling"]
<1>1. TypeOK /\ TurnsAreKnown /\ DeliveriesAreCurrent /\ lane[l] \in Lane
  BY LaneIs DEF LInv
<1>2. /\ lane[l].phase = "writing" /\ ~ lane[l].late
      /\ lane' = [lane EXCEPT ![l] = v]
      /\ exec' = exec /\ got' = got /\ disk' = disk /\ owner' = owner
  BY <1>1 DEF Written, TypeOK
<1>3. /\ v \in Lane /\ v.closed = lane[l].closed /\ v.late = lane[l].late
      /\ v.gen = g /\ v.phase = "settling" /\ v.event = lane[l].event
      /\ v.current = lane[l].current
  BY <1>1 DEF Lane
<1>4. /\ g # 0 /\ g \in DOMAIN exec /\ g \in Generations
      /\ lane[l].closed => lane[l].current = 0
      /\ lane[l].closed \/ lane[l].current = g \/ lane[l].event \in Terminal
  BY <1>1, <1>2, NativeTurnsAssumption
     DEF TurnsAreKnown, DeliveriesAreCurrent, Lane, Generations, NativeTurnsAssumption
<1>5. Leased(g) => receipt \in Record /\ Len(receipt.items) <= MaxItems
  BY <1>1, <1>4, LeasedReceipt, NotedIs
<1>6. active \in [Keys -> 0 .. MaxGenerations] /\ mem \in [Keys -> Record]
      /\ \A k \in Keys : Len(mem[k].items) <= MaxItems
  BY <1>1 DEF TypeOK
<1>7. final # "none" <=> lane[l].event \in Terminal
  BY DEF FinalStatus, Terminal
<1>8. /\ active' \in [Keys -> 0 .. MaxGenerations]
      /\ \A k \in Keys : active'[k] = active[k] \/ active'[k] = 0
      /\ lane[l].event \in Terminal => \A k \in Keys : active'[k] # 0 => active'[k] # g
      /\ mem' \in [Keys -> Record]
      /\ \A k \in Keys : Len(mem'[k].items) <= MaxItems
  <2>1. CASE ~ Leased(g)
    <3>1. mem' = mem /\ active' = active
      BY <2>1 DEF Written
    <3>2. \A k \in Keys : active[k] # 0 => active[k] # g
      BY <1>1, <2>1 DEF TurnsAreKnown, Leased
    <3> QED
      BY <3>1, <3>2, <1>6
  <2>2. CASE Leased(g) /\ final # "none"
    <3>1. Finish(g, receipt, final) /\ final \in Statuses
      BY <2>2 DEF Written, FinalStatus, Statuses
    <3> HIDE DEF g, final, receipt, v
    <3> QED
      BY <1>1, <1>4, <1>5, <3>1, Finished
  <2>3. CASE Leased(g) /\ final = "none" /\ lane[l].closed
    <3>1. Finish(g, receipt, "interrupted") /\ "interrupted" \in Statuses
      BY <2>3 DEF Written, Statuses
    <3> HIDE DEF g, final, receipt, v
    <3> QED
      BY <1>1, <1>4, <1>5, <3>1, Finished
  <2>4. CASE Leased(g) /\ final = "none" /\ ~ lane[l].closed
    <3>1. Change(g, receipt) /\ active' = active
      BY <2>4 DEF Written
    <3>2. mem' \in [Keys -> Record] /\ \A k \in Keys : Len(mem'[k].items) <= MaxItems
      <4> HIDE DEF g, final, receipt, v
      <4> QED
        BY <1>1, <1>4, <1>5, <2>4, <3>1, ChangeTypes
    <3> QED
      BY <3>1, <3>2, <1>6, <1>7, <2>4
  <2> QED
    BY <2>1, <2>2, <2>3, <2>4
<1>9. KeyOf(g) \in Keys
  BY <1>1, <1>4, KeysOfTurns
<1>10. lane' \in [Lanes -> Lane] /\ TurnsAreKnown' /\ DeliveriesAreCurrent' /\ RunningHasALane'
  <2>1. LeasesEnd
    BY <1>8 DEF LeasesEnd
  <2>2. active'[KeyOf(g)] # g \/ lane[l].event \notin Terminal
    BY <1>4, <1>8, <1>9
  <2> HIDE DEF v, final, receipt
  <2>3. TurnsStay(l, v)
    BY <1>2, <1>3, <1>4, <2>2 DEF TurnsStay
  <2> QED
    BY <1>2, <2>1, <2>3, LaneTurn
<1> QED
  BY <1>1, <1>2, <1>8, <1>10, TypesKept DEF LInv

\* A step that ends lease "g" as interrupted and leaves its lane as "v".
TurnEnds(l, v, g) ==
    /\ Finish(g, mem[KeyOf(g)], "interrupted")
    /\ UNCHANGED <<disk, owner, exec, got>>
    /\ v \in Lane
    /\ lane' = [lane EXCEPT ![l] = v]
    /\ v.current = 0 \/ v.current = lane[l].current
    /\ v.gen = 0 \/ v.gen = lane[l].gen
    /\ v.phase # "idle" => v.gen # 0
    /\ v.closed => v.current = 0
    /\ v.phase # "idle" /\ ~ v.late /\ ~ v.closed =>
           v.current = v.gen \/ v.event \in Terminal
    /\ v.phase = "settling" /\ ~ v.late /\ v.event \in Terminal =>
           lane[l].phase = "settling" /\ ~ lane[l].late /\ v.event = lane[l].event
               /\ v.gen = lane[l].gen
    /\ lane[l].current \in {0, g, v.current}
    /\ lane[l].phase # "idle" /\ ~ lane[l].late =>
           \/ lane[l].gen \in {g, v.current}
           \/ lane[l].gen = v.gen /\ v.phase # "idle" /\ ~ v.late

LEMMA EndedTurn ==
    ASSUME NativeTurnsAssumption, LInv, NEW l \in Lanes, NEW v,
           NEW g \in {0} \cup DOMAIN exec, TurnEnds(l, v, g)
    PROVE  LInv'
<1>1. TypeOK /\ TurnsAreKnown /\ DeliveriesAreCurrent /\ lane[l] \in Lane
  BY LaneIs DEF LInv
<1>2. Leased(g) => mem[KeyOf(g)] \in Record /\ Len(mem[KeyOf(g)].items) <= MaxItems
  BY <1>1, LeasedReceipt
<1>3. /\ active' \in [Keys -> 0 .. MaxGenerations]
      /\ \A k \in Keys : active'[k] = active[k] \/ active'[k] = 0
      /\ \A k \in Keys : active'[k] # 0 => active'[k] # g
      /\ mem' \in [Keys -> Record]
      /\ \A k \in Keys : Len(mem'[k].items) <= MaxItems
  BY <1>1, <1>2, Finished DEF Statuses, TurnEnds
<1>4. ASSUME v.phase = "settling", ~ v.late, v.event \in Terminal
      PROVE  active'[KeyOf(v.gen)] # v.gen
  <2>1. /\ v.gen = lane[l].gen /\ v.gen # 0 /\ v.gen \in DOMAIN exec
        /\ active[KeyOf(v.gen)] # v.gen
    BY <1>1, <1>4 DEF DeliveriesAreCurrent, TurnsAreKnown, TurnEnds
  <2>2. KeyOf(v.gen) \in Keys
    BY <1>1, <2>1, KeysOfTurns
  <2> QED
    BY <2>1, <2>2, <1>3
<1>5. lane' \in [Lanes -> Lane] /\ TurnsAreKnown' /\ DeliveriesAreCurrent' /\ RunningHasALane'
  <2>1. LeasesEnd
    BY <1>3 DEF LeasesEnd
  <2>2. TurnsStay(l, v)
    BY <1>3, <1>4 DEF TurnsStay, TurnEnds
  <2> QED
    BY <2>1, <2>2, LaneTurn DEF TurnEnds
<1> QED
  BY <1>1, <1>3, <1>5, TypesKept DEF LInv, TurnEnds

\* Nothing ends.
LEMMA UnendedTurn ==
    ASSUME NativeTurnsAssumption, LInv, UNCHANGED <<mem, active>>
    PROVE  Finish(0, mem[KeyOf(0)], "interrupted")
BY DEF Finish, Leased

LEMMA SettledHasALane ==
    ASSUME NativeTurnsAssumption, LInv, NEW l \in Lanes, Settled(l)
    PROVE  LInv'
<1> DEFINE g == lane[l].gen
           v == Idle(lane[l])
           ends == lane[l].closed /\ Leased(g)
           h == IF ends THEN g ELSE 0
<1>1. TypeOK /\ TurnsAreKnown /\ DeliveriesAreCurrent /\ lane[l] \in Lane
  BY LaneIs DEF LInv
<1>2. /\ lane[l].phase = "settling" /\ ~ lane[l].late
      /\ lane' = [lane EXCEPT ![l] = v]
      /\ exec' = exec /\ got' = got /\ disk' = disk /\ owner' = owner
      /\ IF ends THEN Finish(g, mem[KeyOf(g)], "interrupted") ELSE UNCHANGED <<mem, active>>
  BY DEF Settled
<1>3. /\ v \in Lane /\ v.closed = lane[l].closed /\ v.late = lane[l].late
      /\ v.gen = 0 /\ v.phase = "idle" /\ v.current = lane[l].current
  BY <1>1, IdleIs
<1>4. /\ g # 0 /\ g \in DOMAIN exec
      /\ lane[l].closed \/ lane[l].current = g \/ lane[l].event \in Terminal
      /\ lane[l].closed => lane[l].current = 0
      /\ lane[l].event \in Terminal => ~ Leased(g)
  BY <1>1, <1>2 DEF TurnsAreKnown, DeliveriesAreCurrent, Leased
<1>5. Finish(h, mem[KeyOf(h)], "interrupted")
  BY <1>2, UnendedTurn
<1>6. CASE ends \/ lane[l].current = g
  <2>1. h \in {0} \cup DOMAIN exec
    BY <1>4
  <2>2. lane[l].gen \in {h, v.current} /\ lane[l].current \in {0, h, v.current}
    BY <1>3, <1>6
  <2>3. lane[l].closed => lane[l].current = 0
    BY <1>4
  <2> HIDE DEF v, h, ends, g
  <2>4. TurnEnds(l, v, h)
    BY <1>2, <1>3, <1>5, <2>2, <2>3, <1>4 DEF TurnEnds
  <2> QED
    BY <2>1, <2>4, EndedTurn
<1>7. CASE ~ ends /\ lane[l].current # g
  \* The lease is gone: nobody needs this lane for it.
  <2>1. ~ Leased(g)
    BY <1>4, <1>7
  <2>2. UNCHANGED <<mem, active>>
    BY <1>2, <1>7
  <2>3. \A k \in Keys : active[k] # 0 => active[k] # g
    BY <2>1, <1>1 DEF TurnsAreKnown, Leased
  <2>4. active \in [Keys -> 0 .. MaxGenerations] /\ mem \in [Keys -> Record]
        /\ \A k \in Keys : Len(mem[k].items) <= MaxItems
    BY <1>1 DEF TypeOK
  <2>5. lane' \in [Lanes -> Lane] /\ TurnsAreKnown' /\ DeliveriesAreCurrent' /\ RunningHasALane'
    <3>1. LeasesEnd
      BY <2>2, <2>4 DEF LeasesEnd
    <3> HIDE DEF v, h, ends
    <3>2. TurnsStay(l, v)
      BY <1>2, <1>3, <1>4, <2>2, <2>3 DEF TurnsStay
    <3> QED
      BY <1>2, <3>1, <3>2, LaneTurn
  <2> QED
    BY <1>1, <1>2, <2>2, <2>4, <2>5, TypesKept DEF LInv
<1> QED
  BY <1>6, <1>7

LEMMA FailsHasALane ==
    ASSUME NativeTurnsAssumption, LInv, NEW l \in Lanes, DeliveryFails(l)
    PROVE  LInv'
<1> DEFINE g == lane[l].gen
           v == IF lane[l].phase = "writing" THEN [lane[l] EXCEPT !.late = TRUE]
                                             ELSE [Idle(lane[l]) EXCEPT !.late = TRUE]
<1>1. TypeOK /\ TurnsAreKnown /\ DeliveriesAreCurrent /\ lane[l] \in Lane
  BY LaneIs DEF LInv
<1>2. /\ lane[l].phase # "idle" /\ ~ lane[l].late
      /\ lane' = [lane EXCEPT ![l] = v]
      /\ exec' = exec /\ got' = got /\ disk' = disk /\ owner' = owner
      /\ Finish(g, mem[KeyOf(g)], "interrupted")
  BY DEF DeliveryFails
<1>3. /\ v \in Lane /\ v.closed = lane[l].closed /\ v.late /\ v.current = lane[l].current
      /\ v.gen \in {0, g} /\ v.phase \in {"idle", "writing"}
      /\ v.phase # "idle" => v.gen = g
  BY <1>1, IdleIs, LateIs
<1>4. g # 0 /\ g \in DOMAIN exec /\ (lane[l].closed => lane[l].current = 0)
  BY <1>1, <1>2 DEF TurnsAreKnown, DeliveriesAreCurrent
<1>5. TurnEnds(l, v, g)
  <2> HIDE DEF v
  <2> QED
    BY <1>2, <1>3, <1>4 DEF TurnEnds
<1> QED
  BY <1>4, <1>5, EndedTurn

LEMMA CloseHasALane ==
    ASSUME NativeTurnsAssumption, LInv, NEW l \in Lanes, Close(l)
    PROVE  LInv'
<1> DEFINE g == lane[l].current
           delivering == lane[l].phase # "idle" /\ ~ lane[l].late /\ lane[l].gen = g
           h == IF g # 0 /\ ~ delivering THEN g ELSE 0
           v == [lane[l] EXCEPT !.closed = TRUE, !.current = 0]
<1>1. TypeOK /\ TurnsAreKnown /\ DeliveriesAreCurrent /\ lane[l] \in Lane
  BY LaneIs DEF LInv
<1>2. /\ ~ lane[l].closed
      /\ lane' = [lane EXCEPT ![l] = v]
      /\ exec' = exec /\ got' = got /\ disk' = disk /\ owner' = owner
      /\ IF g # 0 /\ ~ delivering THEN Finish(g, mem[KeyOf(g)], "interrupted")
                                  ELSE UNCHANGED <<mem, active>>
  BY <1>1 DEF Close, TypeOK
<1>3. /\ v \in Lane /\ v.closed /\ v.late = lane[l].late /\ v.gen = lane[l].gen
      /\ v.phase = lane[l].phase /\ v.event = lane[l].event /\ v.current = 0
  <2> 0 \in 0 .. MaxGenerations
    BY DEF NativeTurnsAssumption
  <2> QED
    BY <1>1 DEF Lane
<1>4. /\ h \in {0} \cup DOMAIN exec
      /\ lane[l].phase # "idle" => lane[l].gen # 0
  BY <1>1 DEF TurnsAreKnown
<1>5. Finish(h, mem[KeyOf(h)], "interrupted")
  BY <1>2, UnendedTurn
<1>6. CASE ~ delivering
  <2>1. lane[l].current \in {0, h, v.current}
    BY <1>6
  <2>2. lane[l].phase # "idle" /\ ~ lane[l].late => lane[l].gen # g
    BY <1>6
  <2> HIDE DEF v, h, delivering, g
  <2>3. TurnEnds(l, v, h)
    BY <1>2, <1>3, <1>4, <1>5, <2>1, <2>2 DEF TurnEnds
  <2> QED
    BY <1>4, <2>3, EndedTurn
<1>7. CASE delivering
  <2>1. UNCHANGED <<mem, active>>
    BY <1>2, <1>7
  <2>2. active \in [Keys -> 0 .. MaxGenerations] /\ mem \in [Keys -> Record]
        /\ \A k \in Keys : Len(mem[k].items) <= MaxItems
    BY <1>1 DEF TypeOK
  <2>3. v.phase = "settling" /\ ~ v.late /\ v.event \in Terminal =>
            active'[KeyOf(v.gen)] # v.gen
    BY <1>1, <1>3, <2>1 DEF DeliveriesAreCurrent
  <2>4. lane[l].phase # "idle" /\ ~ lane[l].late /\ lane[l].gen = lane[l].current
    BY <1>7
  <2>5. lane' \in [Lanes -> Lane] /\ TurnsAreKnown' /\ DeliveriesAreCurrent' /\ RunningHasALane'
    <3>1. LeasesEnd
      BY <2>1, <2>2 DEF LeasesEnd
    <3> HIDE DEF v, h, delivering, g
    <3>2. TurnsStay(l, v)
      BY <1>2, <1>3, <1>4, <2>1, <2>3, <2>4 DEF TurnsStay
    <3> QED
      BY <1>2, <3>1, <3>2, LaneTurn
  <2> QED
    BY <1>1, <1>2, <2>1, <2>2, <2>5, TypesKept DEF LInv
<1> QED
  BY <1>6, <1>7

LEMMA ReconnectHasALane ==
    ASSUME NativeTurnsAssumption, LInv, NEW l \in Lanes, Reconnect(l)
    PROVE  LInv'
<1>1. TypeOK /\ TurnsAreKnown /\ DeliveriesAreCurrent /\ lane[l] \in Lane
  BY LaneIs DEF LInv
<1>2. /\ lane[l].closed /\ (lane[l].phase = "idle" \/ lane[l].late) /\ lane[l].current = 0
      /\ lane' = [lane EXCEPT ![l] = NewLane]
      /\ exec' = exec /\ got' = got /\ disk' = disk /\ owner' = owner
      /\ UNCHANGED <<mem, active>>
  BY <1>1 DEF Reconnect, DeliveriesAreCurrent
<1>3. /\ NewLane \in Lane /\ NewLane.phase = "idle" /\ ~ NewLane.closed /\ NewLane.gen = 0
      /\ NewLane.current = 0
  BY NativeTurnsAssumption DEF Lane, NewLane, NativeTurnsAssumption
<1>4. 0 \in {0} \cup DOMAIN exec
  OBVIOUS
<1>5. TurnEnds(l, NewLane, 0)
  BY <1>2, <1>3, UnendedTurn DEF TurnEnds
<1> QED
  BY <1>4, <1>5, EndedTurn

LEMMA AnswerHasALane ==
    ASSUME NativeTurnsAssumption, LInv, NEW l \in Lanes, AnswerWhole(l)
    PROVE  LInv'
<1> DEFINE g == lane[l].current
           item == [gen |-> g, n |-> 1, kind |-> "plain"]
           receipt == [mem[KeyOf(g)] EXCEPT !.items = <<item>>]
           v == [lane[l] EXCEPT !.current = 0]
<1>1. TypeOK /\ TurnsAreKnown /\ DeliveriesAreCurrent /\ lane[l] \in Lane
  BY LaneIs DEF LInv
<1>2. /\ ~ lane[l].closed /\ g # 0 /\ lane[l].phase = "idle"
      /\ lane' = [lane EXCEPT ![l] = v]
      /\ got' = got \cup {item}
      /\ exec' = exec /\ disk' = disk /\ owner' = owner
      /\ Finish(g, receipt, "succeeded")
  BY <1>1 DEF AnswerWhole, TypeOK, Usable
<1>3. /\ v \in Lane /\ v.closed = lane[l].closed /\ v.phase = "idle" /\ v.gen = lane[l].gen
      /\ v.current = 0
  BY <1>1, <1>2, NativeTurnsAssumption DEF Lane, NativeTurnsAssumption
<1>4. g \in DOMAIN exec /\ g \in Generations
  BY <1>1, <1>2, NativeTurnsAssumption DEF TurnsAreKnown, Lane, Generations, NativeTurnsAssumption
<1>5. item \in Item /\ <<item>> \in Seq(Item) /\ Len(<<item>>) <= MaxItems
  <2>1. 1 \in 0 .. MaxItems + 1 /\ 1 <= MaxItems
    BY NativeTurnsAssumption DEF NativeTurnsAssumption
  <2>2. item \in Item
    BY <1>4, <2>1 DEF Item
  <2> HIDE DEF item
  <2> QED
    BY <2>1, <2>2
<1>6. Leased(g) => receipt \in Record /\ Len(receipt.items) <= MaxItems
  <2> HIDE DEF item, g
  <2> QED
    BY <1>1, <1>4, <1>5, LeasedReceipt DEF Record
<1>7. /\ active' \in [Keys -> 0 .. MaxGenerations]
      /\ \A k \in Keys : active'[k] = active[k] \/ active'[k] = 0
      /\ \A k \in Keys : active'[k] # 0 => active'[k] # g
      /\ mem' \in [Keys -> Record]
      /\ \A k \in Keys : Len(mem'[k].items) <= MaxItems
  <2> HIDE DEF receipt, g
  <2> QED
    BY <1>1, <1>2, <1>4, <1>6, Finished DEF Statuses
<1>8. lane'[l] = v /\ (\A m \in Lanes \ {l} : lane'[m] = lane[m]) /\ lane' \in [Lanes -> Lane]
  BY <1>1, <1>2, <1>3 DEF TypeOK
<1>9. TypeOK'
  BY <1>1, <1>2, <1>5, <1>7, <1>8 DEF TypeOK
<1>10. TurnsAreKnown'
  <2>1. ASSUME NEW k \in Keys, active'[k] # 0
        PROVE  active'[k] \in DOMAIN exec' /\ exec'[active'[k]].key = k
    BY <2>1, <1>1, <1>2, <1>7 DEF TurnsAreKnown, KeyOf
  <2>2. ASSUME NEW m \in Lanes
        PROVE  /\ {lane'[m].current, lane'[m].gen} \subseteq {0} \cup DOMAIN exec'
               /\ lane'[m].phase # "idle" => lane'[m].gen # 0
    BY <1>1, <1>2, <1>3, <1>8 DEF TurnsAreKnown
  <2>3. ASSUME NEW i \in got' PROVE i.gen \in DOMAIN exec'
    BY <1>1, <1>2, <1>4, <2>3 DEF TurnsAreKnown
  <2> QED
    BY <2>1, <2>2, <2>3 DEF TurnsAreKnown, KeyOf
<1>11. DeliveriesAreCurrent'
  <2> SUFFICES ASSUME NEW m \in Lanes
               PROVE  /\ lane'[m].closed => lane'[m].current = 0
                      /\ lane'[m].phase # "idle" /\ ~ lane'[m].late /\ ~ lane'[m].closed =>
                             lane'[m].current = lane'[m].gen \/ lane'[m].event \in Terminal
                      /\ lane'[m].phase = "settling" /\ ~ lane'[m].late
                             /\ lane'[m].event \in Terminal =>
                             active'[exec'[lane'[m].gen].key] # lane'[m].gen
    BY DEF DeliveriesAreCurrent, Terminal, KeyOf
  <2>1. CASE m = l
    BY <2>1, <1>3, <1>8
  <2>2. CASE m # l
    <3>1. lane[m].phase # "idle" => lane[m].gen # 0 /\ KeyOf(lane[m].gen) \in Keys
      BY <1>1, KeysOfTurns DEF TurnsAreKnown
    <3> QED
      BY <2>2, <3>1, <1>1, <1>2, <1>7, <1>8 DEF DeliveriesAreCurrent, KeyOf
  <2> QED
    BY <2>1, <2>2
<1>12. RunningHasALane'
  <2> SUFFICES ASSUME NEW k \in Keys, active'[k] # 0
               PROVE  \E m \in Lanes :
                         \/ lane'[m].current = active'[k]
                         \/ lane'[m].gen = active'[k] /\ lane'[m].phase # "idle"
                                /\ ~ lane'[m].late
    BY DEF RunningHasALane
  <2>1. active'[k] = active[k] /\ active'[k] # g
    BY <1>7
  <2>2. PICK m \in Lanes :
           \/ lane[m].current = active[k]
           \/ lane[m].gen = active[k] /\ lane[m].phase # "idle" /\ ~ lane[m].late
    BY <2>1 DEF LInv, RunningHasALane
  <2>3. m # l
    BY <2>1, <2>2, <1>2
  <2> QED
    BY <2>1, <2>2, <2>3, <1>8
<1> QED
  BY <1>9, <1>10, <1>11, <1>12 DEF LInv

\* What a request adds to the executions.
LEMMA RunAdded ==
    ASSUME TypeOK, NEW k \in Keys, NEW input \in Seq(Item),
           exec' = Append(exec, [key |-> k, input |-> input])
    PROVE  /\ exec' \in Seq([key : Keys, input : Seq(Item)])
           /\ Len(exec) + 1 \in Nat \ {0} /\ Len(exec) + 1 \notin DOMAIN exec
           /\ DOMAIN exec' = DOMAIN exec \cup {Len(exec) + 1}
           /\ \A h \in DOMAIN exec : exec'[h] = exec[h]
           /\ exec'[Len(exec) + 1].key = k
<1> DEFINE Run == [key : Keys, input : Seq(Item)]
           run == [key |-> k, input |-> input]
<1>1. exec \in Seq(Run) /\ run \in Run /\ run.key = k
  BY DEF TypeOK
<1> HIDE DEF Run, run
<1>2. /\ Append(exec, run) \in Seq(Run)
      /\ Len(exec) \in Nat /\ DOMAIN exec = 1 .. Len(exec)
      /\ Len(Append(exec, run)) = Len(exec) + 1
      /\ \A h \in 1 .. Len(exec) : Append(exec, run)[h] = exec[h]
      /\ Append(exec, run)[Len(exec) + 1] = run
  BY <1>1
<1>3. DOMAIN Append(exec, run) = 1 .. Len(exec) + 1
  BY <1>2
<1>4. exec' = Append(exec, run)
  BY DEF run
<1>5. 1 .. Len(exec) + 1 = (1 .. Len(exec)) \cup {Len(exec) + 1}
      /\ Len(exec) + 1 \notin 1 .. Len(exec) /\ Len(exec) + 1 \in Nat \ {0}
  BY <1>2
<1> QED
  BY <1>1, <1>2, <1>3, <1>4, <1>5 DEF Run

LEMMA ReceiptIs ==
    ASSUME NativeTurnsAssumption, TypeOK, NEW g \in 1 .. MaxGenerations,
           NEW input \in Seq(Item), NEW r,
           \/ r = Receipt(g, input)
           \/ r = [Receipt(g, input) EXCEPT !.status = "failed"]
    PROVE  /\ r \in Record /\ Len(r.items) <= MaxItems /\ r.items = <<>>
           /\ r.gen = g /\ r.input = input /\ ~ r.pending /\ ~ r.poisoned
<1>1. /\ owner \in 0 .. MaxCrashes + 1 /\ g \in 0 .. MaxGenerations
      /\ <<>> \in Seq(Item) /\ Len(<<>>) <= MaxItems
  BY DEF TypeOK, NativeTurnsAssumption
<1>2. PICK status \in {"in_progress", "failed"} :
         r = [gen |-> g, owner |-> owner, status |-> status, input |-> input,
              items |-> <<>>, partial |-> FALSE, poisoned |-> FALSE, pending |-> FALSE]
  <2>1. CASE r = Receipt(g, input)
    BY <2>1 DEF Receipt, NoReceipt
  <2>2. CASE r = [Receipt(g, input) EXCEPT !.status = "failed"]
    BY <2>2 DEF Receipt, NoReceipt
  <2> QED
    BY <2>1, <2>2
<1>3. status \in Statuses
  BY DEF Statuses
<1>4. r \in Record
  BY <1>1, <1>2, <1>3 DEF Record
<1> QED
  BY <1>1, <1>2, <1>4

LEMMA RequestHasALane ==
    ASSUME NativeTurnsAssumption, LInv, NEW l \in Lanes, NEW k \in Keys, NEW input,
           Request(l, k, input)
    PROVE  LInv'
<1> DEFINE g == Len(exec) + 1
           v == [lane[l] EXCEPT !.current = g, !.made = 0]
<1>1. TypeOK /\ TurnsAreKnown /\ DeliveriesAreCurrent /\ lane[l] \in Lane
  BY LaneIs DEF LInv
<1>2. /\ ~ lane[l].closed /\ ~ lane[l].late /\ lane[l].current = 0
      /\ input \in Seq(Item) /\ g <= MaxGenerations
      /\ exec' = Append(exec, [key |-> k, input |-> input])
      /\ disk' = disk /\ owner' = owner /\ got' = got
  BY DEF Request, Usable
<1>3. /\ exec' \in Seq([key : Keys, input : Seq(Item)])
      /\ g \in Nat \ {0} /\ g \notin DOMAIN exec
      /\ DOMAIN exec' = DOMAIN exec \cup {g}
      /\ \A h \in DOMAIN exec : exec'[h] = exec[h]
      /\ exec'[g].key = k
  BY <1>1, <1>2, RunAdded
<1>4. g \in 1 .. MaxGenerations /\ g \in 0 .. MaxGenerations
  BY <1>2, <1>3, NativeTurnsAssumption DEF NativeTurnsAssumption
<1>5. PICK r : /\ \/ r = Receipt(g, input)
                  \/ r = [Receipt(g, input) EXCEPT !.status = "failed"]
               /\ Saved(k, r)
  BY DEF Request
<1>6. mem' \in [Keys -> Record] /\ \A j \in Keys : Len(mem'[j].items) <= MaxItems
  <2> HIDE DEF g
  <2>1. r \in Record /\ Len(r.items) <= MaxItems
    BY <1>1, <1>2, <1>4, <1>5, ReceiptIs
  <2> QED
    BY <1>1, <1>5, SavedTypes, <2>1
<1>7. \/ active' = active /\ lane' = lane
      \/ active' = [active EXCEPT ![k] = g] /\ lane' = [lane EXCEPT ![l] = v]
  <2>1. CASE UNCHANGED <<active, lane>>
    BY <2>1
  <2>2. CASE /\ active' = [active EXCEPT ![k] = g]
             /\ lane' = [lane EXCEPT ![l].current = g, ![l].made = 0]
    <3>1. lane' = [lane EXCEPT ![l] = v]
      BY <2>2, <1>1 DEF TypeOK
    <3> QED
      BY <2>2, <3>1
  <2> QED
    BY <2>1, <2>2 DEF Request
<1>8. /\ v \in Lane /\ v.current = g /\ v.gen = lane[l].gen /\ v.phase = lane[l].phase
      /\ v.event = lane[l].event /\ v.late = lane[l].late /\ v.closed = lane[l].closed
  <2>1. 0 \in 0 .. MaxItems + 1
    BY NativeTurnsAssumption DEF NativeTurnsAssumption
  <2> HIDE DEF g
  <2> QED
    BY <1>1, <1>4, <2>1 DEF Lane
<1>9. active \in [Keys -> 0 .. MaxGenerations] /\ lane \in [Lanes -> Lane]
      /\ disk \in [Keys -> Record] /\ (\A j \in Keys : Len(disk[j].items) <= MaxItems)
      /\ owner \in 1 .. MaxCrashes + 1 /\ got \subseteq Item
  BY <1>1 DEF TypeOK
<1> HIDE DEF g, v
<1>10. /\ active' \in [Keys -> 0 .. MaxGenerations] /\ lane' \in [Lanes -> Lane]
       /\ \A j \in Keys : active'[j] = active[j] \/ (j = k /\ active'[j] = g)
       /\ \A m \in Lanes : lane'[m] = lane[m] \/ (m = l /\ lane'[m] = v)
       /\ active'[k] = active[k] \/ (active'[k] = g /\ lane'[l] = v)
  BY <1>4, <1>7, <1>8, <1>9
<1>11. TypeOK'
  BY <1>2, <1>3, <1>6, <1>9, <1>10 DEF TypeOK
<1>12. TurnsAreKnown'
  <2>1. ASSUME NEW j \in Keys, active'[j] # 0
        PROVE  active'[j] \in DOMAIN exec' /\ exec'[active'[j]].key = j
    BY <2>1, <1>1, <1>3, <1>10 DEF TurnsAreKnown, KeyOf
  <2>2. ASSUME NEW m \in Lanes
        PROVE  /\ {lane'[m].current, lane'[m].gen} \subseteq {0} \cup DOMAIN exec'
               /\ lane'[m].phase # "idle" => lane'[m].gen # 0
    BY <1>1, <1>3, <1>8, <1>10 DEF TurnsAreKnown
  <2>3. ASSUME NEW i \in got' PROVE i.gen \in DOMAIN exec'
    BY <2>3, <1>1, <1>2, <1>3 DEF TurnsAreKnown
  <2> QED
    BY <2>1, <2>2, <2>3 DEF TurnsAreKnown, KeyOf
<1>13. DeliveriesAreCurrent'
  <2> SUFFICES ASSUME NEW m \in Lanes
               PROVE  /\ lane'[m].closed => lane'[m].current = 0
                      /\ lane'[m].phase # "idle" /\ ~ lane'[m].late /\ ~ lane'[m].closed =>
                             lane'[m].current = lane'[m].gen \/ lane'[m].event \in Terminal
                      /\ lane'[m].phase = "settling" /\ ~ lane'[m].late
                             /\ lane'[m].event \in Terminal =>
                             active'[exec'[lane'[m].gen].key] # lane'[m].gen
    BY DEF DeliveriesAreCurrent, Terminal, KeyOf
  <2>1. /\ lane'[m].phase = lane[m].phase /\ lane'[m].gen = lane[m].gen
        /\ lane'[m].event = lane[m].event /\ lane'[m].late = lane[m].late
        /\ lane'[m].closed = lane[m].closed
        /\ lane'[m].current = lane[m].current \/ (m = l /\ lane'[m].current = g)
    BY <1>8, <1>10
  <2>2. lane[m].phase # "idle" =>
           /\ lane[m].gen \in DOMAIN exec /\ lane[m].gen # 0 /\ lane[m].gen # g
           /\ exec'[lane[m].gen] = exec[lane[m].gen] /\ exec[lane[m].gen].key \in Keys
    BY <1>1, <1>3, KeysOfTurns DEF TurnsAreKnown, KeyOf
  <2>3. lane[m].phase = "settling" /\ ~ lane[m].late /\ lane[m].event \in Terminal =>
            active[exec[lane[m].gen].key] # lane[m].gen
    BY <1>1 DEF DeliveriesAreCurrent, KeyOf
  <2>4. /\ lane[m].closed => lane[m].current = 0
        /\ lane[m].phase # "idle" /\ ~ lane[m].late /\ ~ lane[m].closed =>
               lane[m].current = lane[m].gen \/ lane[m].event \in Terminal
    BY <1>1 DEF DeliveriesAreCurrent
  <2>5. /\ lane'[m].closed => lane'[m].current = 0
        /\ lane'[m].phase # "idle" /\ ~ lane'[m].late /\ ~ lane'[m].closed =>
               lane'[m].current = lane'[m].gen \/ lane'[m].event \in Terminal
    BY <2>1, <2>2, <2>4, <1>2
  <2>6. lane'[m].phase = "settling" /\ ~ lane'[m].late /\ lane'[m].event \in Terminal =>
            active'[exec'[lane'[m].gen].key] # lane'[m].gen
    BY <2>1, <2>2, <2>3, <1>10
  <2> QED
    BY <2>5, <2>6
<1>14. RunningHasALane'
  <2> SUFFICES ASSUME NEW j \in Keys, active'[j] # 0
               PROVE  \E m \in Lanes :
                         \/ lane'[m].current = active'[j]
                         \/ lane'[m].gen = active'[j] /\ lane'[m].phase # "idle"
                                /\ ~ lane'[m].late
    BY DEF RunningHasALane
  <2>1. CASE active'[j] = active[j]
    <3>1. PICK m \in Lanes :
             \/ lane[m].current = active[j]
             \/ lane[m].gen = active[j] /\ lane[m].phase # "idle" /\ ~ lane[m].late
      BY <2>1 DEF LInv, RunningHasALane
    <3> QED
      BY <2>1, <3>1, <1>2, <1>8, <1>10
  <2>2. CASE active'[j] # active[j]
    BY <2>2, <1>8, <1>10
  <2> QED
    BY <2>1, <2>2
<1> QED
  BY <1>11, <1>12, <1>13, <1>14 DEF LInv

LEMMA PersistHasALane == LInv /\ Persist => LInv'
BY DEF Persist, LInv, TypeOK, TurnsAreKnown, DeliveriesAreCurrent, RunningHasALane, KeyOf

LEMMA CrashHasALane == NativeTurnsAssumption /\ LInv /\ Crash => LInv'
<1> SUFFICES ASSUME NativeTurnsAssumption, LInv, Crash PROVE LInv'
  OBVIOUS
<1>1. /\ NewLane \in Lane /\ NewLane.phase = "idle" /\ ~ NewLane.closed /\ NewLane.gen = 0
      /\ NewLane.current = 0
  BY DEF Lane, NewLane, NativeTurnsAssumption
<1>2. TypeOK'
  BY <1>1 DEF Crash, LInv, TypeOK, NativeTurnsAssumption
<1> QED
  BY <1>1, <1>2 DEF Crash, LInv, TurnsAreKnown, DeliveriesAreCurrent, RunningHasALane, KeyOf

LEMMA LanesAtFirst == NativeTurnsAssumption /\ Init => LInv
<1> SUFFICES ASSUME NativeTurnsAssumption, Init PROVE LInv
  OBVIOUS
<1>1. NewLane \in Lane /\ NewLane.phase = "idle" /\ ~ NewLane.closed /\ NewLane.gen = 0
      /\ NewLane.current = 0
  BY DEF Lane, NewLane, NativeTurnsAssumption
<1>2. NoReceipt \in Record /\ Len(NoReceipt.items) <= MaxItems
  BY DEF NoReceipt, Record, Statuses, NativeTurnsAssumption
<1>3. exec \in Seq([key : Keys, input : Seq(Item)]) /\ DOMAIN exec = {}
  BY DEF Init
<1>4. TypeOK
  BY <1>1, <1>2, <1>3 DEF Init, TypeOK, NativeTurnsAssumption
<1> QED
  BY <1>1, <1>4 DEF Init, LInv, TurnsAreKnown, DeliveriesAreCurrent, RunningHasALane

LEMMA LanesStep == NativeTurnsAssumption /\ LInv /\ [Next]_vars => LInv'
<1> SUFFICES ASSUME NativeTurnsAssumption, LInv, [Next]_vars PROVE LInv'
  OBVIOUS
<1>1. ASSUME NEW l \in Lanes, NEW k \in Keys, NEW input \in Histories(k), Request(l, k, input)
      PROVE  LInv'
  BY <1>1, RequestHasALane
<1>2. ASSUME NEW l \in Lanes, NEW event \in Events, Deliver(l, event) PROVE LInv'
  BY <1>2, DeliverHasALane
<1>3. ASSUME NEW l \in Lanes,
             \/ Write(l) \/ Arrives(l) \/ Written(l) \/ Settled(l) \/ DeliveryFails(l)
             \/ Close(l) \/ Reconnect(l) \/ AnswerWhole(l)
      PROVE  LInv'
  BY <1>3, WriteHasALane, ArrivesHasALane, WrittenHasALane, SettledHasALane, FailsHasALane,
     CloseHasALane, ReconnectHasALane, AnswerHasALane
<1>4. CASE UNCHANGED vars
  BY <1>4 DEF vars, LInv, TypeOK, TurnsAreKnown, DeliveriesAreCurrent, RunningHasALane, KeyOf
<1> QED
  BY <1>1, <1>2, <1>3, <1>4, PersistHasALane, CrashHasALane DEF Next

\* However connections close, deliveries fail and the process restarts, and
\* whichever receipts saveNativeTurnReceipt drops, a turn that runs has a lane
\* that will finish it (native-response-steering.js close, finishNativeTurn).
THEOREM TurnsAreFinished ==
    NativeTurnsAssumption => (Spec => [](TypeOK /\ RunningHasALane))
<1> SUFFICES ASSUME NativeTurnsAssumption PROVE Spec => [](TypeOK /\ RunningHasALane)
  OBVIOUS
<1>1. Init => LInv
  BY LanesAtFirst
<1>2. LInv /\ [Next]_vars => LInv'
  BY LanesStep
<1>3. LInv => TypeOK /\ RunningHasALane
  BY DEF LInv
<1> QED
  BY <1>1, <1>2, <1>3, PTL DEF Spec

-----------------------------------------------------------------------------
(* No turn runs again blindly. *)

\* The receipts of all turns fit in the store, so that none is dropped.
KeysFit == IsFiniteSet(Keys) /\ Cardinality(Keys) <= MaxReceipts

LEMMA RangeJoined ==
    ASSUME NEW S, NEW s \in Seq(S), NEW t \in Seq(S), NEW e \in S
    PROVE  /\ Range(s \o t) = Range(s) \cup Range(t)
           /\ Range(Append(s, e)) = Range(s) \cup {e}
           /\ Range(<<>>) = {}
           /\ s # <<>> => Range(Front(s)) \subseteq Range(s)
<1> DEFINE n == Len(s)
           m == Len(t)
<1>1. /\ n \in Nat /\ m \in Nat /\ DOMAIN s = 1 .. n /\ DOMAIN t = 1 .. m
  OBVIOUS
<1>2. Range(s \o t) = Range(s) \cup Range(t)
  <2>1. /\ DOMAIN (s \o t) = 1 .. (n + m)
        /\ \A i \in 1 .. n : (s \o t)[i] = s[i]
        /\ \A i \in 1 .. m : (s \o t)[n + i] = t[i]
        /\ \A i \in 1 .. (n + m) : i \in 1 .. n \/ (i - n \in 1 .. m /\ i = n + (i - n))
    BY <1>1
  <2>2. ASSUME NEW x \in Range(s \o t) PROVE x \in Range(s) \cup Range(t)
    <3>1. PICK i \in 1 .. (n + m) : x = (s \o t)[i]
      BY <2>1, <2>2 DEF Range
    <3> HIDE DEF n, m
    <3> QED
      BY <1>1, <2>1, <3>1 DEF Range
  <2>3. ASSUME NEW x \in Range(s) PROVE x \in Range(s \o t)
    <3>1. PICK i \in 1 .. n : x = s[i]
      BY <1>1, <2>3 DEF Range
    <3>2. i \in 1 .. (n + m)
      BY <1>1, <3>1
    <3> HIDE DEF n, m
    <3> QED
      BY <2>1, <3>1, <3>2 DEF Range
  <2>4. ASSUME NEW x \in Range(t) PROVE x \in Range(s \o t)
    <3>1. PICK i \in 1 .. m : x = t[i]
      BY <1>1, <2>4 DEF Range
    <3>2. n + i \in 1 .. (n + m)
      BY <1>1, <3>1
    <3> HIDE DEF n, m
    <3> QED
      BY <2>1, <3>1, <3>2 DEF Range
  <2> QED
    BY <2>2, <2>3, <2>4
<1>3. Range(Append(s, e)) = Range(s) \cup {e}
  <2>1. /\ DOMAIN Append(s, e) = 1 .. n + 1
        /\ \A i \in 1 .. n : Append(s, e)[i] = s[i]
        /\ Append(s, e)[n + 1] = e
        /\ 1 .. n + 1 = (1 .. n) \cup {n + 1}
    BY <1>1
  <2> HIDE DEF n
  <2> QED
    BY <1>1, <2>1 DEF Range
<1>4. Range(<<>>) = {}
  BY DEF Range
<1>5. s # <<>> => Range(Front(s)) \subseteq Range(s)
  <2> SUFFICES ASSUME s # <<>> PROVE Range(Front(s)) \subseteq Range(s)
    OBVIOUS
  <2>1. n - 1 \in Nat
    BY <1>1
  <2>2. /\ DOMAIN Front(s) = 1 .. n - 1
        /\ \A i \in 1 .. n - 1 : Front(s)[i] = s[i]
        /\ 1 .. n - 1 \subseteq 1 .. n
    BY <1>1, <2>1 DEF Front
  <2> HIDE DEF n
  <2> QED
    BY <1>1, <2>2 DEF Range
<1> QED
  BY <1>2, <1>3, <1>4, <1>5

LEMMA SavedFits ==
    ASSUME KeysFit, NativeTurnsAssumption, mem \in [Keys -> Record], NEW k \in Keys, NEW r,
           Saved(k, r)
    PROVE  mem' = [mem EXCEPT ![k] = r]
<1> DEFINE kept == {j \in Keys : Stored(j)} \cup {k}
           idle == {j \in kept \ {k} : mem[j].status # "in_progress"}
           excess == Cardinality(kept) - MaxReceipts
<1>1. /\ kept \subseteq Keys /\ idle \subseteq Keys
      /\ IsFiniteSet(Keys) /\ Cardinality(Keys) \in Nat /\ Cardinality(Keys) <= MaxReceipts
      /\ MaxReceipts \in Nat
  BY FS_CardinalityType DEF KeysFit, NativeTurnsAssumption
<1>2. IsFiniteSet(kept) /\ Cardinality(kept) \in Nat /\ Cardinality(kept) <= Cardinality(Keys)
  <2> HIDE DEF kept
  <2> QED
    BY <1>1, FS_Subset, FS_CardinalityType
<1>3. excess <= 0
  <2> HIDE DEF kept
  <2> QED
    BY <1>1, <1>2
<1>4. PICK gone \in SUBSET idle :
         /\ Cardinality(gone) = IF excess <= 0 THEN 0
                                ELSE IF excess < Cardinality(idle) THEN excess
                                ELSE Cardinality(idle)
         /\ mem' = [j \in Keys |-> IF j = k THEN r
                                   ELSE IF j \in gone THEN NoReceipt ELSE mem[j]]
  BY DEF Saved
<1>5. gone = {}
  <2>1. Cardinality(gone) = 0
    BY <1>3, <1>4
  <2>2. IsFiniteSet(gone)
    BY <1>1, <1>4, FS_Subset
  <2> QED
    BY <2>1, <2>2, FS_EmptySet
<1> HIDE DEF kept, idle, excess
<1> QED
  BY <1>4, <1>5

LEMMA FinishedIs ==
    ASSUME KeysFit, NativeTurnsAssumption, TypeOK, TurnsAreKnown,
           NEW g \in {0} \cup DOMAIN exec, NEW r, NEW status, Finish(g, r, status)
    PROVE  \/ ~ Leased(g) /\ mem' = mem /\ active' = active
           \/ /\ Leased(g)
              /\ mem' = [mem EXCEPT ![KeyOf(g)] = [r EXCEPT !.status = status]]
              /\ active' = [active EXCEPT ![KeyOf(g)] = 0]
<1>1. CASE ~ Leased(g)
  BY <1>1 DEF Finish
<1>2. CASE Leased(g)
  <2>1. KeyOf(g) \in Keys /\ mem \in [Keys -> Record]
    BY <1>2, KeysOfTurns DEF Leased, TypeOK
  <2>2. Saved(KeyOf(g), [r EXCEPT !.status = status]) /\ active' = [active EXCEPT ![KeyOf(g)] = 0]
    BY <1>2 DEF Finish, Change
  <2> QED
    BY <1>2, <2>1, <2>2, SavedFits
<1> QED
  BY <1>1, <1>2

\* A receipt that is not written about its delivery.
Unwritten(r, s) ==
    /\ r.gen = s.gen /\ r.input = s.input /\ r.items = s.items
    /\ r.pending = s.pending /\ r.poisoned = s.poisoned

\* An interrupted lease.
LEMMA Interrupted ==
    ASSUME KeysFit, NativeTurnsAssumption, TypeOK, TurnsAreKnown,
           NEW g \in {0} \cup DOMAIN exec, Finish(g, mem[KeyOf(g)], "interrupted")
    PROVE  /\ \A k \in Keys : Unwritten(mem'[k], mem[k])
           /\ \A k \in Keys : active'[k] = active[k] \/ (active'[k] = 0 /\ active[k] = g)
           /\ Leased(g) => active'[KeyOf(g)] = 0
<1>1. mem \in [Keys -> Record] /\ active \in [Keys -> 0 .. MaxGenerations]
  BY DEF TypeOK
<1>2. CASE ~ Leased(g)
  BY <1>2, FinishedIs DEF Unwritten
<1>3. CASE Leased(g)
  <2> DEFINE K == KeyOf(g)
             r == [mem[K] EXCEPT !.status = "interrupted"]
  <2>1. /\ K \in Keys /\ active[K] = g
        /\ mem' = [mem EXCEPT ![K] = r] /\ active' = [active EXCEPT ![K] = 0]
    BY <1>3, KeysOfTurns, FinishedIs DEF Leased
  <2>2. Unwritten(r, mem[K])
    BY <1>1, <2>1 DEF Unwritten, Record
  <2> HIDE DEF K, r
  <2>3. \A k \in Keys : Unwritten(mem'[k], mem[k])
    BY <1>1, <2>1, <2>2 DEF Unwritten
  <2> QED
    BY <1>1, <2>1, <2>3 DEF K
<1> QED
  BY <1>2, <1>3

\* What an admitted turn brings along is all that its client received.
LEMMA AdmittedKnows ==
    ASSUME TypeOK, TurnsAreLeased, ReceiptsAreComplete,
           NEW k \in Keys, NEW input \in Seq(Item), Admits(k, input)
    PROVE  /\ active[k] = 0 /\ ~ mem[k].pending
           /\ Received(k) \subseteq Range(input)
<1>1. /\ mem[k] \in Record /\ mem[k].input \in Seq(Item) /\ mem[k].items \in Seq(Item)
  BY DEF TypeOK, Record
<1>2. CASE ~ Stored(k)
  <2>1. /\ mem[k].gen = 0 /\ ~ mem[k].pending /\ ~ mem[k].poisoned
        /\ mem[k].input = <<>> /\ mem[k].items = <<>>
    BY <1>2 DEF Stored, NoReceipt
  <2>2. active[k] = 0
    BY <2>1 DEF TurnsAreLeased
  <2>3. Received(k) \subseteq Shown(mem[k])
    BY <2>1 DEF ReceiptsAreComplete
  <2>4. Shown(mem[k]) = {}
    BY <2>1 DEF Shown, Range
  <2> QED
    BY <2>1, <2>2, <2>3, <2>4
<1>3. CASE Stored(k)
  <2>1. /\ active[k] = 0 /\ ~ mem[k].pending /\ ~ mem[k].poisoned
        /\ Exact(k, input) \/ Continues(k, input)
    BY <1>3 DEF Admits, Proved
  <2>2. Received(k) \subseteq Shown(mem[k])
    BY <2>1 DEF ReceiptsAreComplete
  <2>3. CASE Exact(k, input)
    BY <2>1, <2>2, <2>3 DEF Exact, Shown, Range
  <2>4. CASE Continues(k, input)
    <3> DEFINE both == mem[k].input \o mem[k].items
    <3>1. input = both \/ Front(input) = both
      BY <2>4 DEF Continues
    <3>2. Range(both) = Shown(mem[k]) /\ both # <<>> /\ both \in Seq(Item)
      <4>1. mem[k].items # <<>>
        BY <2>4 DEF Continues
      <4>2. Len(both) = Len(mem[k].input) + Len(mem[k].items) /\ Len(mem[k].items) > 0
            /\ Len(mem[k].input) \in Nat
        BY <1>1, <4>1
      <4>3. both # <<>>
        BY <1>1, <4>2
      <4>4. \A e \in Item : Range(both) = Range(mem[k].input) \cup Range(mem[k].items)
        BY <1>1, RangeJoined
      <4>5. mem[k].items[1] \in Item
        BY <1>1, <4>1
      <4> QED
        BY <1>1, <4>3, <4>4, <4>5 DEF Shown
    <3>3. CASE input = both
      BY <2>1, <2>2, <3>2, <3>3
    <3>4. CASE Front(input) = both
      <4> HIDE DEF both
      <4>1. input # <<>>
        <5> SUFFICES ASSUME input = <<>> PROVE FALSE
          OBVIOUS
        <5>1. Front(input) = <<>>
          BY DEF Front
        <5> QED
          BY <5>1, <3>2, <3>4
      <4>2. input[1] \in Item
        BY <4>1
      <4>3. Range(Front(input)) \subseteq Range(input)
        BY <4>1, <4>2, RangeJoined
      <4> QED
        BY <2>1, <2>2, <3>2, <3>4, <4>3
    <3> QED
      BY <3>1, <3>3, <3>4
  <2> QED
    BY <2>1, <2>3, <2>4
<1> QED
  BY <1>2, <1>3

-----------------------------------------------------------------------------
(* What is received is noted, step by step. *)

\* A lane that begins no turn and frees no other lane's lease.
LeaseStays(l, v) ==
    /\ lane' = [lane EXCEPT ![l] = v]
    /\ \A k \in Keys :
          /\ active'[k] = active[k] \/ (active'[k] = 0 /\ On(l, active[k]))
          /\ mem'[k].gen = mem[k].gen
    /\ v.current = 0 \/ v.current = lane[l].current
    /\ v.phase # "idle" =>
          /\ v.gen # 0
          /\ \/ v.gen = lane[l].current
             \/ v.gen = lane[l].gen /\ lane[l].phase # "idle"
    /\ ~ v.closed /\ ~ v.late /\ v.current # 0 => active'[KeyOf(v.current)] = v.current
    /\ v.phase \in {"barrier", "writing"} /\ ~ v.late => active'[KeyOf(v.gen)] = v.gen
    /\ v.phase # "idle" /\ v.event \in Terminal => v.current # v.gen

\* What "TurnsAreLeased" says of the next state.
LEMMA LeasedIf ==
    ASSUME \A l, m \in Lanes : \A g \in DOMAIN exec' : On(l, g)' /\ On(m, g)' => l = m,
           \A l \in Lanes :
              LET x == lane'[l] IN
              /\ ~ x.closed /\ ~ x.late /\ x.current # 0 =>
                     active'[exec'[x.current].key] = x.current
              /\ x.phase \in {"barrier", "writing"} /\ ~ x.late =>
                     x.gen # 0 /\ active'[exec'[x.gen].key] = x.gen
              /\ x.phase # "idle" /\ x.event \in Terminal => x.current # x.gen,
           \A k \in Keys : active'[k] # 0 => mem'[k].gen = active'[k]
    PROVE  TurnsAreLeased'
BY DEF TurnsAreLeased, On, Leased, KeyOf, Usable, Delivering, Terminal

LEMMA LeaseTurn ==
    ASSUME LInv, TurnsAreLeased, NEW l \in Lanes, NEW v, exec' = exec, LeaseStays(l, v)
    PROVE  TurnsAreLeased'
<1>1. TypeOK /\ TurnsAreKnown /\ lane \in [Lanes -> Lane]
  BY DEF LInv, TypeOK
<1>2. lane'[l] = v /\ \A m \in Lanes \ {l} : lane'[m] = lane[m]
  BY <1>1 DEF LeaseStays
<1>3. 0 \notin DOMAIN exec
  BY <1>1, KeysOfTurns
<1>4. ASSUME NEW m \in Lanes, NEW g \in DOMAIN exec, On(m, g)'
      PROVE  On(m, g)
  BY <1>2, <1>3, <1>4 DEF On, LeaseStays
<1>5. \A m, n \in Lanes : \A g \in DOMAIN exec' : On(m, g)' /\ On(n, g)' => m = n
  BY <1>4 DEF TurnsAreLeased
<1>6. \A k \in Keys : active'[k] # 0 => mem'[k].gen = active'[k]
  BY DEF LeaseStays, TurnsAreLeased
<1>7. ASSUME NEW m \in Lanes
      PROVE  LET x == lane'[m] IN
             /\ ~ x.closed /\ ~ x.late /\ x.current # 0 =>
                    active'[exec'[x.current].key] = x.current
             /\ x.phase \in {"barrier", "writing"} /\ ~ x.late =>
                    x.gen # 0 /\ active'[exec'[x.gen].key] = x.gen
             /\ x.phase # "idle" /\ x.event \in Terminal => x.current # x.gen
  <2>1. CASE m = l
    BY <2>1, <1>2 DEF LeaseStays, KeyOf
  <2>2. CASE m # l
    <3>1. lane'[m] = lane[m]
      BY <1>2, <2>2
    <3>2. ASSUME ~ lane[m].closed, ~ lane[m].late, lane[m].current # 0
          PROVE  active'[exec[lane[m].current].key] = lane[m].current
      <4> DEFINE g == lane[m].current
      <4>1. g \in DOMAIN exec /\ KeyOf(g) \in Keys /\ active[KeyOf(g)] = g
        BY <3>2, <1>1, KeysOfTurns DEF TurnsAreKnown, TurnsAreLeased, Usable, Leased
      <4>2. On(m, g)
        BY DEF On
      <4>3. ~ On(l, g)
        BY <4>1, <4>2, <2>2 DEF TurnsAreLeased
      <4> QED
        BY <4>1, <4>3 DEF LeaseStays, KeyOf
    <3>3. ASSUME lane[m].phase \in {"barrier", "writing"}, ~ lane[m].late
          PROVE  lane[m].gen # 0 /\ active'[exec[lane[m].gen].key] = lane[m].gen
      <4> DEFINE g == lane[m].gen
      <4>1. g # 0 /\ g \in DOMAIN exec /\ KeyOf(g) \in Keys /\ active[KeyOf(g)] = g
        BY <3>3, <1>1, KeysOfTurns DEF TurnsAreKnown, TurnsAreLeased, Delivering, Leased
      <4>2. On(m, g)
        BY <3>3 DEF On
      <4>3. ~ On(l, g)
        BY <4>1, <4>2, <2>2 DEF TurnsAreLeased
      <4> QED
        BY <4>1, <4>3 DEF LeaseStays, KeyOf
    <3>4. lane[m].phase # "idle" /\ lane[m].event \in Terminal => lane[m].current # lane[m].gen
      BY DEF TurnsAreLeased
    <3> QED
      BY <3>1, <3>2, <3>3, <3>4
  <2> QED
    BY <2>1, <2>2
<1> QED
  BY <1>5, <1>6, <1>7, LeasedIf

\* What the other invariants say of the next state.
LEMMA CompleteIf ==
    ASSUME \A k \in Keys : \A r \in {mem'[k], disk'[k]} :
              ~ r.pending /\ ~ r.poisoned => {i \in got' : exec'[i.gen].key = k} \subseteq Shown(r)
    PROVE  ReceiptsAreComplete'
BY DEF ReceiptsAreComplete, Received, KeyOf, Shown

LEMMA DoubtedIf ==
    ASSUME \A l \in Lanes :
              LET x == lane'[l]
                  k == exec'[lane'[l].gen].key
                  received == {i \in got' : exec'[i.gen].key = exec'[lane'[l].gen].key} IN
              /\ x.phase = "writing" =>
                    /\ mem'[k].pending /\ disk'[k].pending
                    /\ x.late => active'[k] = 0
              /\ x.phase = "barrier" /\ ~ x.late =>
                    /\ mem'[k].pending
                    /\ mem'[k].poisoned \/ received \subseteq Shown(mem'[k])
              /\ x.phase = "writing" /\ ~ x.late =>
                    mem'[k].poisoned \/ received \subseteq Shown(mem'[k]) \cup Flying(l)'
    PROVE  WritesAreDoubted'
BY DEF WritesAreDoubted, Received, KeyOf, Shown, Flying

LEMMA CertainIf ==
    ASSUME \A l \in Lanes :
              LET x == lane'[l] IN
              /\ ~ x.closed /\ ~ x.late /\ x.current # 0
              /\ ~ (x.phase \in {"barrier", "writing"} /\ x.gen = x.current)
              => ~ mem'[exec'[x.current].key].pending
    PROVE  RestIsCertain'
BY DEF RestIsCertain, KeyOf, Usable, Delivering

\* Steps that write nothing about a delivery.
NotesStay(l, v) ==
    /\ \A k \in Keys : Unwritten(mem'[k], mem[k])
    /\ v.phase = "writing" =>
          /\ lane[l].phase = "writing" /\ v.gen = lane[l].gen
          /\ v.event = lane[l].event /\ v.made = lane[l].made
          /\ v.late => lane[l].late \/ active'[KeyOf(v.gen)] = 0
          /\ ~ v.late => ~ lane[l].late
    /\ v.phase = "barrier" /\ ~ v.late =>
          lane[l].phase = "barrier" /\ ~ lane[l].late /\ v.gen = lane[l].gen
    /\ ~ v.closed /\ ~ v.late /\ v.current # 0
           /\ ~ (v.phase \in {"barrier", "writing"} /\ v.gen = v.current) =>
          /\ Usable(l) /\ v.current = lane[l].current
          /\ ~ (Delivering(l) /\ lane[l].gen = lane[l].current)

LEMMA NotesTurn ==
    ASSUME RInv, NEW l \in Lanes, NEW v, exec' = exec, got' = got, disk' = disk,
           LeaseStays(l, v), NotesStay(l, v)
    PROVE  TurnsAreLeased' /\ ReceiptsAreComplete' /\ WritesAreDoubted' /\ RestIsCertain'
<1>1. LInv /\ TypeOK /\ TurnsAreKnown /\ lane \in [Lanes -> Lane]
  BY DEF RInv, LInv, TypeOK
<1>2. lane'[l] = v /\ \A m \in Lanes \ {l} : lane'[m] = lane[m]
  BY <1>1 DEF LeaseStays
<1>3. TurnsAreLeased'
  BY <1>1, LeaseTurn DEF RInv
<1>4. \A k \in Keys : /\ mem'[k].pending = mem[k].pending
                      /\ mem'[k].poisoned = mem[k].poisoned
                      /\ Shown(mem'[k]) = Shown(mem[k])
  BY DEF NotesStay, Unwritten, Shown
<1>5. ReceiptsAreComplete'
  <2>1. ASSUME NEW k \in Keys, NEW r \in {mem'[k], disk'[k]}, ~ r.pending, ~ r.poisoned
        PROVE  {i \in got' : exec'[i.gen].key = k} \subseteq Shown(r)
    BY <2>1, <1>4 DEF RInv, ReceiptsAreComplete, Received, KeyOf
  <2> QED
    BY <2>1, CompleteIf
<1>6. WritesAreDoubted'
  <2> SUFFICES ASSUME NEW m \in Lanes
        PROVE LET x == lane'[m]
                  k == exec'[lane'[m].gen].key
                  received == {i \in got' : exec'[i.gen].key = exec'[lane'[m].gen].key} IN
              /\ x.phase = "writing" =>
                    /\ mem'[k].pending /\ disk'[k].pending
                    /\ x.late => active'[k] = 0
              /\ x.phase = "barrier" /\ ~ x.late =>
                    /\ mem'[k].pending
                    /\ mem'[k].poisoned \/ received \subseteq Shown(mem'[k])
              /\ x.phase = "writing" /\ ~ x.late =>
                    mem'[k].poisoned \/ received \subseteq Shown(mem'[k]) \cup Flying(m)'
    BY DoubtedIf
  <2> DEFINE k == KeyOf(lane[m].gen)
  <2>1. CASE lane'[m].phase \notin {"barrier", "writing"}
    BY <2>1
  <2>2. CASE lane'[m].phase = "barrier" /\ lane'[m].late
    BY <2>2
  <2>3. CASE \/ lane'[m].phase = "writing"
             \/ lane'[m].phase = "barrier" /\ ~ lane'[m].late
    <3>1. /\ lane'[m].phase = lane[m].phase /\ lane'[m].gen = lane[m].gen
          /\ lane[m].late => lane'[m].late
          /\ lane'[m].phase = "writing" =>
                /\ lane'[m].event = lane[m].event /\ lane'[m].made = lane[m].made
                /\ lane'[m].late => lane[m].late \/ active'[k] = 0
      BY <2>3, <1>2 DEF NotesStay
    <3>2. lane[m].gen \in DOMAIN exec /\ k \in Keys
      <4>1. lane[m].gen # 0 /\ lane[m].gen \in {0} \cup DOMAIN exec
        BY <2>3, <3>1, <1>1 DEF TurnsAreKnown
      <4> QED
        BY <4>1, <1>1, KeysOfTurns
    <3>3. active[k] = 0 => active'[k] = 0
      BY <3>2 DEF LeaseStays
    <3>4. lane'[m].phase = "writing" => Flying(m)' = Flying(m)
      BY <3>1 DEF Flying, Carried
    <3>5. /\ lane[m].phase = "writing" =>
               /\ mem[k].pending /\ disk[k].pending
               /\ lane[m].late => active[k] = 0
          /\ lane[m].phase = "barrier" /\ ~ lane[m].late =>
               /\ mem[k].pending
               /\ mem[k].poisoned \/ Received(k) \subseteq Shown(mem[k])
          /\ lane[m].phase = "writing" /\ ~ lane[m].late =>
               mem[k].poisoned \/ Received(k) \subseteq Shown(mem[k]) \cup Flying(m)
      BY DEF RInv, WritesAreDoubted
    <3>6. exec'[lane'[m].gen].key = k /\ {i \in got' : exec'[i.gen].key = k} = Received(k)
      BY <3>1 DEF KeyOf, Received
    <3> HIDE DEF k
    <3> QED
      BY <2>3, <3>1, <3>2, <3>3, <3>4, <3>5, <3>6, <1>4
  <2> QED
    BY <2>1, <2>2, <2>3
<1>7. RestIsCertain'
  <2>1. ASSUME NEW m \in Lanes,
               ~ lane'[m].closed, ~ lane'[m].late, lane'[m].current # 0,
               ~ (lane'[m].phase \in {"barrier", "writing"}
                      /\ lane'[m].gen = lane'[m].current)
        PROVE  ~ mem'[exec'[lane'[m].current].key].pending
    <3>1. /\ Usable(m) /\ lane'[m].current = lane[m].current
          /\ ~ (Delivering(m) /\ lane[m].gen = lane[m].current)
      BY <2>1, <1>2 DEF NotesStay, Usable, Delivering
    <3>2. KeyOf(lane[m].current) \in Keys
      BY <2>1, <3>1, <1>1, KeysOfTurns DEF TurnsAreKnown
    <3>3. ~ mem[KeyOf(lane[m].current)].pending
      BY <2>1, <3>1 DEF RInv, RestIsCertain
    <3> QED
      BY <3>1, <3>2, <3>3, <1>4 DEF KeyOf
  <2> QED
    BY <2>1, CertainIf
<1> QED
  BY <1>3, <1>5, <1>6, <1>7

\* A step that ends lease "g" of lane "l", or none, as interrupted: a lane that
\* can still answer keeps its turn, and a delivery its lease.
NotesEnd(l, v, g) ==
    /\ g = 0 \/ On(l, g)
    /\ Finish(g, mem[KeyOf(g)], "interrupted")
    /\ lane' = [lane EXCEPT ![l] = v]
    /\ UNCHANGED <<exec, got, disk>>
    /\ v.current = 0 \/ v.current = lane[l].current
    /\ v.phase # "idle" =>
          /\ v.phase = lane[l].phase /\ v.gen = lane[l].gen
          /\ v.event = lane[l].event /\ v.made = lane[l].made
          /\ lane[l].late => v.late
          /\ v.late => lane[l].late \/ g = lane[l].gen
          /\ ~ v.late => g # lane[l].gen
    /\ ~ v.closed /\ ~ v.late /\ v.current # 0 =>
          /\ Usable(l) /\ v.current # g
          /\ ~ (Delivering(l) /\ lane[l].gen = lane[l].current)

LEMMA EndedNotes ==
    ASSUME KeysFit, NativeTurnsAssumption, RInv, LInv', NEW l \in Lanes, NEW v,
           NEW g \in {0} \cup DOMAIN exec, NotesEnd(l, v, g)
    PROVE  RInv'
<1>1. LInv /\ TypeOK /\ TurnsAreKnown /\ TurnsAreLeased /\ lane \in [Lanes -> Lane]
  BY DEF RInv, LInv, TypeOK
<1>2. /\ \A k \in Keys : Unwritten(mem'[k], mem[k])
      /\ \A k \in Keys : active'[k] = active[k] \/ (active'[k] = 0 /\ active[k] = g)
      /\ Leased(g) => active'[KeyOf(g)] = 0
  BY <1>1, Interrupted DEF NotesEnd
<1>3. \A k \in Keys : active'[k] = active[k] \/ (active'[k] = 0 /\ On(l, active[k]))
  <2> SUFFICES ASSUME NEW k \in Keys, active'[k] # active[k]
               PROVE  active'[k] = 0 /\ On(l, active[k])
    OBVIOUS
  <2>1. active'[k] = 0 /\ active[k] = g /\ g # 0
    BY <1>2
  <2> QED
    BY <2>1 DEF NotesEnd
<1>4. lane[l].phase # "idle" =>
         lane[l].gen # 0 /\ lane[l].gen \in DOMAIN exec /\ KeyOf(lane[l].gen) \in Keys
  BY <1>1, KeysOfTurns DEF TurnsAreKnown
<1>5. lane[l].current # 0 => lane[l].current \in DOMAIN exec /\ KeyOf(lane[l].current) \in Keys
  BY <1>1, KeysOfTurns DEF TurnsAreKnown
<1>6. ASSUME ~ v.closed, ~ v.late, v.current # 0 PROVE active'[KeyOf(v.current)] = v.current
  <2>1. Leased(v.current) /\ v.current = lane[l].current /\ v.current # g
    BY <1>6, <1>1 DEF TurnsAreLeased, NotesEnd
  <2> QED
    BY <2>1, <1>2, <1>5, <1>6 DEF Leased
<1>7. ASSUME v.phase \in {"barrier", "writing"}, ~ v.late PROVE active'[KeyOf(v.gen)] = v.gen
  <2>1. /\ v.gen = lane[l].gen /\ Delivering(l) /\ ~ lane[l].late /\ g # v.gen
        /\ lane[l].phase # "idle"
    BY <1>7 DEF Delivering, NotesEnd
  <2>2. Leased(v.gen)
    BY <2>1, <1>1 DEF TurnsAreLeased
  <2> QED
    BY <2>1, <2>2, <1>2, <1>4, <1>7 DEF Leased
<1>8. v.phase # "idle" /\ v.event \in Terminal => v.current # v.gen
  BY <1>1, <1>4 DEF TurnsAreLeased, NotesEnd
<1>9. LeaseStays(l, v)
  BY <1>2, <1>3, <1>4, <1>6, <1>7, <1>8 DEF LeaseStays, Unwritten, NotesEnd
<1>10. ASSUME v.phase = "writing", v.late, ~ lane[l].late PROVE active'[KeyOf(v.gen)] = 0
  <2>1. v.gen = lane[l].gen /\ Delivering(l) /\ g = v.gen
    BY <1>10 DEF Delivering, NotesEnd
  <2>2. Leased(g)
    BY <2>1, <1>10, <1>1 DEF TurnsAreLeased
  <2> QED
    BY <2>1, <2>2, <1>2
<1>11. NotesStay(l, v)
  BY <1>2, <1>10 DEF NotesStay, NotesEnd
<1> QED
  BY <1>9, <1>11, NotesTurn DEF RInv, NotesEnd

LEMMA SettledIsNoted ==
    ASSUME KeysFit, NativeTurnsAssumption, RInv, NEW l \in Lanes, Settled(l)
    PROVE  RInv'
<1> DEFINE g == lane[l].gen
           v == Idle(lane[l])
           ends == lane[l].closed /\ Leased(g)
           h == IF ends THEN g ELSE 0
<1>1. LInv /\ LInv' /\ TypeOK /\ TurnsAreKnown /\ lane[l] \in Lane
  BY SettledHasALane, LaneIs DEF RInv, LInv
<1>2. /\ lane[l].phase = "settling" /\ ~ lane[l].late
      /\ lane' = [lane EXCEPT ![l] = v]
      /\ UNCHANGED <<exec, got, disk>>
      /\ IF ends THEN Finish(g, mem[KeyOf(g)], "interrupted") ELSE UNCHANGED <<mem, active>>
  BY DEF Settled
<1>3. /\ v.closed = lane[l].closed /\ v.phase = "idle" /\ v.current = lane[l].current
  BY <1>1, IdleIs
<1>4. h \in {0} \cup DOMAIN exec /\ (h = 0 \/ On(l, h))
  BY <1>1, <1>2 DEF TurnsAreKnown, On
<1>5. Finish(h, mem[KeyOf(h)], "interrupted")
  BY <1>1, <1>2, UnendedTurn
<1>6. ~ lane[l].closed => h = 0
  OBVIOUS
<1> HIDE DEF v, h, ends, g
<1>7. NotesEnd(l, v, h)
  BY <1>2, <1>3, <1>4, <1>5, <1>6 DEF NotesEnd, Usable, Delivering
<1> QED
  BY <1>1, <1>4, <1>7, EndedNotes

LEMMA FailureIsNoted ==
    ASSUME KeysFit, NativeTurnsAssumption, RInv, NEW l \in Lanes, DeliveryFails(l)
    PROVE  RInv'
<1> DEFINE g == lane[l].gen
           v == IF lane[l].phase = "writing" THEN [lane[l] EXCEPT !.late = TRUE]
                                             ELSE [Idle(lane[l]) EXCEPT !.late = TRUE]
<1>1. LInv /\ LInv' /\ TypeOK /\ TurnsAreKnown /\ lane[l] \in Lane
  BY FailsHasALane, LaneIs DEF RInv, LInv
<1>2. /\ lane[l].phase # "idle" /\ ~ lane[l].late
      /\ lane' = [lane EXCEPT ![l] = v]
      /\ UNCHANGED <<exec, got, disk>>
      /\ Finish(g, mem[KeyOf(g)], "interrupted")
  BY DEF DeliveryFails
<1>3. /\ v.late /\ v.current = lane[l].current
      /\ v.phase # "idle" => /\ v.phase = lane[l].phase /\ v.gen = g
                             /\ v.event = lane[l].event /\ v.made = lane[l].made
  <2>1. CASE lane[l].phase = "writing"
    <3>1. v = [lane[l] EXCEPT !.late = TRUE]
      BY <2>1
    <3> QED
      BY <3>1, <1>1 DEF Lane
  <2>2. CASE lane[l].phase # "writing"
    <3> DEFINE w == Idle(lane[l])
    <3>1. v = [w EXCEPT !.late = TRUE]
      BY <2>2
    <3>2. w \in Lane /\ w.current = lane[l].current /\ w.phase = "idle"
      BY <1>1, IdleIs
    <3> HIDE DEF v, w
    <3>3. v.late /\ v.current = w.current /\ v.phase = w.phase
      BY <3>1, <3>2, LateIs
    <3> QED
      BY <3>2, <3>3
  <2> QED
    BY <2>1, <2>2
<1>4. g \in {0} \cup DOMAIN exec /\ On(l, g)
  BY <1>1, <1>2 DEF TurnsAreKnown, On
<1>5. NotesEnd(l, v, g)
  <2> HIDE DEF v
  <2> QED
    BY <1>2, <1>3, <1>4 DEF NotesEnd
<1> QED
  BY <1>1, <1>4, <1>5, EndedNotes

LEMMA CloseIsNoted ==
    ASSUME KeysFit, NativeTurnsAssumption, RInv, NEW l \in Lanes, Close(l)
    PROVE  RInv'
<1> DEFINE g == lane[l].current
           delivering == lane[l].phase # "idle" /\ ~ lane[l].late /\ lane[l].gen = g
           h == IF g # 0 /\ ~ delivering THEN g ELSE 0
           v == [lane[l] EXCEPT !.closed = TRUE, !.current = 0]
<1>1. LInv /\ LInv' /\ TypeOK /\ TurnsAreKnown /\ lane[l] \in Lane
  BY CloseHasALane, LaneIs DEF RInv, LInv
<1>2. /\ lane' = [lane EXCEPT ![l] = v]
      /\ UNCHANGED <<exec, got, disk>>
      /\ IF g # 0 /\ ~ delivering THEN Finish(g, mem[KeyOf(g)], "interrupted")
                                  ELSE UNCHANGED <<mem, active>>
  BY <1>1 DEF Close, TypeOK
<1>3. /\ v.closed /\ v.late = lane[l].late /\ v.gen = lane[l].gen /\ v.made = lane[l].made
      /\ v.phase = lane[l].phase /\ v.event = lane[l].event /\ v.current = 0
  BY <1>1 DEF Lane
<1>4. h \in {0} \cup DOMAIN exec /\ (h = 0 \/ On(l, h))
  BY <1>1 DEF TurnsAreKnown, On
<1>5. Finish(h, mem[KeyOf(h)], "interrupted")
  BY <1>1, <1>2, UnendedTurn
<1>6. lane[l].phase # "idle" /\ ~ lane[l].late => h # lane[l].gen
  BY <1>1 DEF TurnsAreKnown
<1> HIDE DEF v, h, delivering, g
<1>7. NotesEnd(l, v, h)
  BY <1>2, <1>3, <1>4, <1>5, <1>6 DEF NotesEnd
<1> QED
  BY <1>1, <1>4, <1>7, EndedNotes

LEMMA ReconnectIsNoted ==
    ASSUME KeysFit, NativeTurnsAssumption, RInv, NEW l \in Lanes, Reconnect(l)
    PROVE  RInv'
<1>1. LInv /\ LInv'
  BY ReconnectHasALane DEF RInv
<1>2. /\ lane' = [lane EXCEPT ![l] = NewLane]
      /\ UNCHANGED <<exec, got, disk>> /\ UNCHANGED <<mem, active>>
  BY DEF Reconnect
<1>3. NewLane.phase = "idle" /\ NewLane.current = 0
  BY DEF NewLane
<1>4. 0 \in {0} \cup DOMAIN exec
  OBVIOUS
<1>5. NotesEnd(l, NewLane, 0)
  BY <1>1, <1>2, <1>3, UnendedTurn DEF NotesEnd
<1> QED
  BY <1>1, <1>4, <1>5, EndedNotes

LEMMA DeliverIsNoted ==
    ASSUME KeysFit, NativeTurnsAssumption, RInv, NEW l \in Lanes, NEW event \in Events,
           Deliver(l, event)
    PROVE  RInv'
<1> DEFINE g == lane[l].current
           K == KeyOf(g)
           v == lane'[l]
           r == [mem[K] EXCEPT !.pending = TRUE]
<1>1. LInv /\ LInv' /\ TypeOK /\ TurnsAreKnown /\ lane[l] \in Lane
  BY DeliverHasALane, LaneIs DEF RInv, LInv
<1>2. /\ Usable(l) /\ lane[l].phase = "idle" /\ g # 0
      /\ UNCHANGED <<disk, active, exec, got>>
  BY DEF Deliver
<1>3. /\ lane' = [lane EXCEPT ![l] = v]
      /\ v.closed = lane[l].closed /\ v.late = lane[l].late /\ v.gen = g /\ v.event = event
      /\ v.phase = "barrier" /\ v.current = IF event \in Terminal THEN 0 ELSE g
  BY <1>1 DEF Deliver, TypeOK, Lane, Terminal
<1>4. /\ g \in DOMAIN exec /\ K \in Keys /\ active[K] = g /\ Leased(g) /\ On(l, g)
  BY <1>1, <1>2, KeysOfTurns DEF TurnsAreKnown, RInv, TurnsAreLeased, On, Leased
<1>5. /\ mem \in [Keys -> Record] /\ lane \in [Lanes -> Lane]
      /\ mem' = [mem EXCEPT ![K] = r]
  <2>1. mem \in [Keys -> Record] /\ lane \in [Lanes -> Lane]
    BY <1>1 DEF TypeOK
  <2>2. Saved(K, r)
    BY <1>4 DEF Deliver, Change
  <2> QED
    BY <1>4, <2>1, <2>2, SavedFits
<1>6. /\ r.pending /\ r.gen = mem[K].gen /\ r.poisoned = mem[K].poisoned
      /\ Shown(r) = Shown(mem[K])
  BY <1>4, <1>5, DoubtChanges DEF Shown
<1> HIDE DEF r
<1>7. /\ mem'[K] = r /\ \A k \in Keys \ {K} : mem'[k] = mem[k]
      /\ \A m \in Lanes \ {l} : lane'[m] = lane[m]
  BY <1>3, <1>4, <1>5
<1>8. \A k \in Keys : {i \in got' : exec'[i.gen].key = k} = Received(k)
  BY <1>2 DEF Received, KeyOf
<1>9. LeaseStays(l, v)
  <2>1. \A k \in Keys : active'[k] = active[k] /\ mem'[k].gen = mem[k].gen
    BY <1>2, <1>6, <1>7
  <2>2. /\ v.current = 0 \/ v.current = lane[l].current
        /\ v.gen = lane[l].current /\ v.gen # 0 /\ active'[KeyOf(v.gen)] = v.gen
        /\ v.current # 0 => v.current = v.gen /\ v.event \notin Terminal
    BY <1>2, <1>3, <1>4
  <2> HIDE DEF v
  <2> QED
    BY <1>3, <2>1, <2>2 DEF LeaseStays
<1>10. TurnsAreLeased'
  BY <1>1, <1>2, <1>9, LeaseTurn DEF RInv
<1>11. ReceiptsAreComplete'
  <2>1. ASSUME NEW k \in Keys, NEW x \in {mem'[k], disk'[k]}, ~ x.pending, ~ x.poisoned
        PROVE  Received(k) \subseteq Shown(x)
    BY <2>1, <1>2, <1>6, <1>7 DEF RInv, ReceiptsAreComplete
  <2> QED
    BY <2>1, <1>8, CompleteIf
<1>12. WritesAreDoubted'
  <2> SUFFICES ASSUME NEW m \in Lanes
        PROVE LET x == lane'[m]
                  k == exec'[lane'[m].gen].key
                  received == {i \in got' : exec'[i.gen].key = exec'[lane'[m].gen].key} IN
              /\ x.phase = "writing" =>
                    /\ mem'[k].pending /\ disk'[k].pending
                    /\ x.late => active'[k] = 0
              /\ x.phase = "barrier" /\ ~ x.late =>
                    /\ mem'[k].pending
                    /\ mem'[k].poisoned \/ received \subseteq Shown(mem'[k])
              /\ x.phase = "writing" /\ ~ x.late =>
                    mem'[k].poisoned \/ received \subseteq Shown(mem'[k]) \cup Flying(m)'
    BY DoubtedIf
  <2>1. CASE m = l
    <3>1. ~ mem[K].pending
      BY <1>2 DEF RInv, RestIsCertain, Delivering
    <3>2. mem[K].poisoned \/ Received(K) \subseteq Shown(mem[K])
      BY <3>1, <1>4 DEF RInv, ReceiptsAreComplete
    <3>3. exec'[lane'[m].gen].key = K /\ lane'[m].phase = "barrier"
      BY <2>1, <1>2, <1>3 DEF KeyOf
    <3> HIDE DEF K
    <3> QED
      BY <3>2, <3>3, <1>4, <1>6, <1>7, <1>8
  <2>2. CASE m # l
    <3> DEFINE k == KeyOf(lane[m].gen)
    <3>1. lane'[m] = lane[m] /\ exec'[lane'[m].gen].key = k /\ Flying(m)' = Flying(m)
      BY <2>2, <1>2, <1>7 DEF KeyOf, Flying, Carried
    <3>2. lane[m].phase # "idle" => k \in Keys
      BY <1>1, KeysOfTurns DEF TurnsAreKnown
    <3>3. /\ lane[m].phase = "writing" =>
               /\ mem[k].pending /\ disk[k].pending
               /\ lane[m].late => active[k] = 0
          /\ lane[m].phase = "barrier" /\ ~ lane[m].late =>
               /\ mem[k].pending
               /\ mem[k].poisoned \/ Received(k) \subseteq Shown(mem[k])
          /\ lane[m].phase = "writing" /\ ~ lane[m].late =>
               mem[k].poisoned \/ Received(k) \subseteq Shown(mem[k]) \cup Flying(m)
      BY DEF RInv, WritesAreDoubted
    <3>4. k \in Keys => /\ mem[k].pending => mem'[k].pending
                        /\ mem'[k].poisoned = mem[k].poisoned
                        /\ Shown(mem'[k]) = Shown(mem[k])
      <4> HIDE DEF k
      <4> QED
        BY <1>6, <1>7
    <3> HIDE DEF k, K
    <3> QED
      BY <3>1, <3>2, <3>3, <3>4, <1>2, <1>8
  <2> QED
    BY <2>1, <2>2
<1>13. RestIsCertain'
  <2>1. ASSUME NEW m \in Lanes,
               ~ lane'[m].closed, ~ lane'[m].late, lane'[m].current # 0,
               ~ (lane'[m].phase \in {"barrier", "writing"}
                      /\ lane'[m].gen = lane'[m].current)
        PROVE  ~ mem'[exec'[lane'[m].current].key].pending
    <3> DEFINE c == lane[m].current
    <3>1. m # l /\ lane'[m] = lane[m]
      BY <2>1, <1>3, <1>7
    <3>2. Usable(m) /\ c # 0 /\ ~ mem[KeyOf(c)].pending
      BY <2>1, <3>1 DEF RInv, RestIsCertain, Usable, Delivering
    <3>3. c \in DOMAIN exec /\ KeyOf(c) \in Keys /\ active[KeyOf(c)] = c /\ On(m, c)
      BY <3>2, <1>1, KeysOfTurns DEF TurnsAreKnown, RInv, TurnsAreLeased, On, Leased
    <3>4. KeyOf(c) # K
      BY <3>1, <3>3, <1>4 DEF RInv, TurnsAreLeased
    <3>5. exec'[lane'[m].current].key = KeyOf(c)
      BY <3>1, <1>2 DEF KeyOf
    <3> HIDE DEF K, c
    <3> QED
      BY <3>2, <3>3, <3>4, <3>5, <1>7
  <2> QED
    BY <2>1, CertainIf
<1> QED
  BY <1>1, <1>10, <1>11, <1>12, <1>13 DEF RInv

LEMMA WriteIsNoted ==
    ASSUME NativeTurnsAssumption, RInv, NEW l \in Lanes, Write(l)
    PROVE  RInv'
<1> DEFINE v == [lane[l] EXCEPT !.phase = "writing"]
<1>1. LInv /\ LInv' /\ TypeOK /\ TurnsAreKnown /\ lane[l] \in Lane
  BY WriteHasALane, LaneIs DEF RInv, LInv
<1>2. /\ lane[l].phase = "barrier" /\ disk = mem /\ ~ lane[l].late /\ ~ lane[l].closed
      /\ lane' = [lane EXCEPT ![l] = v]
      /\ UNCHANGED <<mem, disk, active, exec, got>>
  BY <1>1 DEF Write, TypeOK, Durable
<1>3. /\ v.closed = lane[l].closed /\ v.late = lane[l].late /\ v.made = lane[l].made
      /\ v.gen = lane[l].gen /\ v.phase = "writing" /\ v.event = lane[l].event
      /\ v.current = lane[l].current
  BY <1>1 DEF Lane
<1>4. /\ lane'[l] = v /\ \A m \in Lanes \ {l} : lane'[m] = lane[m]
  BY <1>1, <1>2 DEF TypeOK
<1>5. LeaseStays(l, v)
  <2>1. /\ Delivering(l) /\ lane[l].gen # 0
        /\ active[KeyOf(lane[l].gen)] = lane[l].gen
        /\ Usable(l) /\ lane[l].current # 0 =>
               active[KeyOf(lane[l].current)] = lane[l].current
        /\ lane[l].event \in Terminal => lane[l].current # lane[l].gen
    BY <1>1, <1>2 DEF RInv, TurnsAreLeased, Delivering, Leased, TurnsAreKnown
  <2> HIDE DEF v
  <2> QED
    BY <1>2, <1>3, <2>1 DEF LeaseStays, Usable
<1>6. TurnsAreLeased'
  BY <1>1, <1>2, <1>5, LeaseTurn DEF RInv
<1>7. ReceiptsAreComplete'
  BY <1>2 DEF RInv, ReceiptsAreComplete, Received, KeyOf
<1>8. WritesAreDoubted'
  <2> SUFFICES ASSUME NEW m \in Lanes
        PROVE LET x == lane'[m]
                  k == exec'[lane'[m].gen].key
                  received == {i \in got' : exec'[i.gen].key = exec'[lane'[m].gen].key} IN
              /\ x.phase = "writing" =>
                    /\ mem'[k].pending /\ disk'[k].pending
                    /\ x.late => active'[k] = 0
              /\ x.phase = "barrier" /\ ~ x.late =>
                    /\ mem'[k].pending
                    /\ mem'[k].poisoned \/ received \subseteq Shown(mem'[k])
              /\ x.phase = "writing" /\ ~ x.late =>
                    mem'[k].poisoned \/ received \subseteq Shown(mem'[k]) \cup Flying(m)'
    BY DoubtedIf
  <2> DEFINE k == KeyOf(lane[m].gen)
  <2>1. /\ exec'[lane'[m].gen].key = k /\ {i \in got' : exec'[i.gen].key = k} = Received(k)
        /\ lane'[m].late = lane[m].late
    BY <1>2, <1>3, <1>4 DEF KeyOf, Received
  <2>2. /\ lane[m].phase = "writing" =>
             /\ mem[k].pending /\ disk[k].pending
             /\ lane[m].late => active[k] = 0
        /\ lane[m].phase = "barrier" /\ ~ lane[m].late =>
             /\ mem[k].pending
             /\ mem[k].poisoned \/ Received(k) \subseteq Shown(mem[k])
        /\ lane[m].phase = "writing" /\ ~ lane[m].late =>
             mem[k].poisoned \/ Received(k) \subseteq Shown(mem[k]) \cup Flying(m)
    BY DEF RInv, WritesAreDoubted
  <2>3. m # l => lane'[m] = lane[m] /\ Flying(m)' = Flying(m)
    BY <1>4 DEF Flying, Carried
  <2>4. m = l => lane'[m].phase = "writing" /\ lane[m].phase = "barrier" /\ ~ lane[m].late
    BY <1>2, <1>3, <1>4
  <2> HIDE DEF k
  <2> QED
    BY <2>1, <2>2, <2>3, <2>4, <1>2
<1>9. RestIsCertain'
  <2>1. ASSUME NEW m \in Lanes,
               ~ lane'[m].closed, ~ lane'[m].late, lane'[m].current # 0,
               ~ (lane'[m].phase \in {"barrier", "writing"}
                      /\ lane'[m].gen = lane'[m].current)
        PROVE  ~ mem'[exec'[lane'[m].current].key].pending
    <3>1. /\ Usable(m) /\ lane[m].current # 0 /\ lane'[m].current = lane[m].current
          /\ ~ (Delivering(m) /\ lane[m].gen = lane[m].current)
      BY <2>1, <1>2, <1>3, <1>4 DEF Usable, Delivering
    <3> QED
      BY <3>1, <1>2 DEF RInv, RestIsCertain, KeyOf
  <2> QED
    BY <2>1, CertainIf
<1> QED
  BY <1>1, <1>6, <1>7, <1>8, <1>9 DEF RInv

\* Two turns of one key: the leased one is alone.
LEMMA OneLease ==
    ASSUME LInv, TurnsAreLeased, WritesAreDoubted, NEW l \in Lanes, NEW m \in Lanes,
           lane[l].phase = "writing", ~ lane[l].late,
           \/ lane[m].phase = "writing"
           \/ lane[m].phase = "barrier" /\ ~ lane[m].late,
           KeyOf(lane[m].gen) = KeyOf(lane[l].gen)
    PROVE  m = l
<1>1. TypeOK /\ TurnsAreKnown
  BY DEF LInv
<1>2. /\ Delivering(l) /\ Delivering(m)
      /\ lane[l].gen \in DOMAIN exec /\ lane[l].gen # 0
      /\ active[KeyOf(lane[l].gen)] = lane[l].gen /\ On(l, lane[l].gen)
  BY <1>1 DEF Delivering, TurnsAreKnown, TurnsAreLeased, Leased, On
<1>3. ~ lane[m].late
  BY <1>2 DEF WritesAreDoubted
<1>4. active[KeyOf(lane[m].gen)] = lane[m].gen /\ On(m, lane[m].gen)
  BY <1>2, <1>3 DEF TurnsAreLeased, Leased, On, Delivering
<1>5. lane[m].gen = lane[l].gen
  BY <1>2, <1>4
<1> QED
  BY <1>2, <1>4, <1>5 DEF TurnsAreLeased

LEMMA ArrivalIsNoted ==
    ASSUME NativeTurnsAssumption, RInv, NEW l \in Lanes, Arrives(l)
    PROVE  RInv'
<1> DEFINE g == lane[l].gen
           K == KeyOf(g)
           c == Carried(lane[l])
<1>1. LInv /\ LInv' /\ TypeOK /\ TurnsAreKnown
  BY ArrivesHasALane DEF RInv, LInv
<1>2. /\ lane[l].phase = "writing" /\ lane[l].event \in {"item", "tool"}
      /\ got' = got \cup {c}
      /\ UNCHANGED <<mem, disk, active, lane, exec>>
  BY DEF Arrives
<1>3. g \in DOMAIN exec /\ K \in Keys /\ c.gen = g
  BY <1>1, <1>2, KeysOfTurns DEF TurnsAreKnown, Carried
<1>4. mem[K].pending /\ disk[K].pending
  BY <1>2 DEF RInv, WritesAreDoubted
<1>5. ASSUME NEW k
      PROVE  /\ k # K => {i \in got' : exec'[i.gen].key = k} = Received(k)
             /\ {i \in got' : exec'[i.gen].key = K} = Received(K) \cup {c}
  <2> HIDE DEF c
  <2> QED
    BY <1>2, <1>3 DEF Received, KeyOf
<1>6. TurnsAreLeased'
  <2>1. \A n \in Lanes : \A h : On(n, h)' = On(n, h)
    BY <1>2 DEF On
  <2> QED
    BY <1>2, <2>1 DEF RInv, TurnsAreLeased, On, Usable, Leased, Delivering, KeyOf, Terminal
<1>7. ReceiptsAreComplete'
  <2>1. ASSUME NEW k \in Keys, NEW x \in {mem'[k], disk'[k]}, ~ x.pending, ~ x.poisoned
        PROVE  {i \in got' : exec'[i.gen].key = k} \subseteq Shown(x)
    <3>1. k # K
      BY <2>1, <1>2, <1>4
    <3> QED
      BY <2>1, <3>1, <1>2, <1>5 DEF RInv, ReceiptsAreComplete
  <2> QED
    BY <2>1, CompleteIf
<1>8. WritesAreDoubted'
  <2> SUFFICES ASSUME NEW m \in Lanes
        PROVE LET x == lane'[m]
                  k == exec'[lane'[m].gen].key
                  received == {i \in got' : exec'[i.gen].key = exec'[lane'[m].gen].key} IN
              /\ x.phase = "writing" =>
                    /\ mem'[k].pending /\ disk'[k].pending
                    /\ x.late => active'[k] = 0
              /\ x.phase = "barrier" /\ ~ x.late =>
                    /\ mem'[k].pending
                    /\ mem'[k].poisoned \/ received \subseteq Shown(mem'[k])
              /\ x.phase = "writing" /\ ~ x.late =>
                    mem'[k].poisoned \/ received \subseteq Shown(mem'[k]) \cup Flying(m)'
    BY DoubtedIf
  <2> DEFINE k == KeyOf(lane[m].gen)
  <2>1. exec'[lane'[m].gen].key = k /\ lane'[m] = lane[m] /\ Flying(m)' = Flying(m)
    BY <1>2 DEF KeyOf, Flying, Carried
  <2>2. /\ lane[m].phase = "writing" =>
             /\ mem[k].pending /\ disk[k].pending
             /\ lane[m].late => active[k] = 0
        /\ lane[m].phase = "barrier" /\ ~ lane[m].late =>
             /\ mem[k].pending
             /\ mem[k].poisoned \/ Received(k) \subseteq Shown(mem[k])
        /\ lane[m].phase = "writing" /\ ~ lane[m].late =>
             mem[k].poisoned \/ Received(k) \subseteq Shown(mem[k]) \cup Flying(m)
    BY DEF RInv, WritesAreDoubted
  <2>3. CASE k # K
    <3>1. {i \in got' : exec'[i.gen].key = k} = Received(k)
      BY <2>3, <1>5
    <3> HIDE DEF k, K
    <3> QED
      BY <2>1, <2>2, <3>1, <1>2
  <2>4. CASE k = K /\ m = l
    <3>1. c \in Flying(m)
      BY <2>4, <1>2 DEF Flying
    <3>2. {i \in got' : exec'[i.gen].key = k} = Received(k) \cup {c}
      BY <2>4, <1>5
    <3> HIDE DEF k, K, c
    <3> QED
      BY <2>1, <2>2, <2>4, <3>1, <3>2, <1>2
  <2>5. CASE k = K /\ m # l
    \* The other delivery is over, or this one is.
    <3>1. ~ lane[l].late => ~ (lane[m].phase = "barrier" /\ ~ lane[m].late)
                              /\ lane[m].phase # "writing"
      BY <2>5, <1>1, <1>2, OneLease DEF RInv
    <3>2. lane[l].late => active[K] = 0
      BY <1>2 DEF RInv, WritesAreDoubted
    <3>3. lane[m].phase \in {"barrier", "writing"} /\ ~ lane[m].late =>
              lane[m].gen # 0 /\ active[k] = lane[m].gen
      BY <1>1 DEF RInv, TurnsAreLeased, TurnsAreKnown, Leased, Delivering
    <3>4. ~ (lane[m].phase \in {"barrier", "writing"} /\ ~ lane[m].late)
      BY <2>5, <3>1, <3>2, <3>3
    <3> HIDE DEF k, K
    <3> QED
      BY <2>1, <2>2, <3>4, <1>2
  <2> QED
    BY <2>3, <2>4, <2>5
<1>9. RestIsCertain'
  BY <1>2 DEF RInv, RestIsCertain, Usable, Delivering, KeyOf
<1> QED
  BY <1>1, <1>6, <1>7, <1>8, <1>9 DEF RInv

LEMMA WrittenIsNoted ==
    ASSUME KeysFit, NativeTurnsAssumption, RInv, NEW l \in Lanes, Written(l)
    PROVE  RInv'
<1> DEFINE g == lane[l].gen
           K == KeyOf(g)
           final == FinalStatus(lane[l].event)
           receipt == Noted(mem[K], lane[l])
           v == [lane[l] EXCEPT !.phase = "settling"]
<1>1. LInv /\ LInv' /\ TypeOK /\ TurnsAreKnown /\ TurnsAreLeased /\ lane[l] \in Lane
      /\ lane \in [Lanes -> Lane] /\ mem \in [Keys -> Record]
      /\ active \in [Keys -> 0 .. MaxGenerations]
  BY WrittenHasALane, LaneIs DEF RInv, LInv, TypeOK
<1>2. /\ lane[l].phase = "writing" /\ ~ lane[l].late
      /\ lane' = [lane EXCEPT ![l] = v]
      /\ UNCHANGED <<disk, exec, got>>
  BY <1>1 DEF Written, TypeOK
<1>3. /\ v.closed = lane[l].closed /\ v.late = lane[l].late
      /\ v.gen = g /\ v.phase = "settling" /\ v.event = lane[l].event
      /\ v.current = lane[l].current
  BY <1>1 DEF Lane
<1>4. /\ g # 0 /\ g \in DOMAIN exec /\ K \in Keys /\ active[K] = g /\ Leased(g) /\ On(l, g)
      /\ lane[l].closed => lane[l].current = 0
      /\ g \in Generations /\ Len(mem[K].items) <= MaxItems
  <2>1. /\ g # 0 /\ g \in DOMAIN exec /\ K \in Keys
        /\ lane[l].closed => lane[l].current = 0
    BY <1>1, <1>2, KeysOfTurns DEF TurnsAreKnown, LInv, DeliveriesAreCurrent
  <2>2. Leased(g) /\ On(l, g)
    BY <1>1, <1>2 DEF TurnsAreLeased, Delivering, On
  <2>3. g \in Generations
    BY <1>1, <2>1, NativeTurnsAssumption DEF Lane, Generations, NativeTurnsAssumption
  <2> QED
    BY <1>1, <2>1, <2>2, <2>3 DEF Leased, TypeOK
<1>5. /\ receipt \in Record /\ receipt.gen = mem[K].gen /\ receipt.input = mem[K].input
      /\ receipt.pending = FALSE
      /\ \/ receipt.poisoned
         \/ /\ lane[l].event \notin {"item", "tool"} /\ receipt.items = mem[K].items
            /\ mem[K].poisoned = receipt.poisoned
         \/ /\ lane[l].event \in {"item", "tool"}
            /\ receipt.items = Append(mem[K].items, Carried(lane[l]))
            /\ mem[K].poisoned = receipt.poisoned
  <2> HIDE DEF K, g
  <2> QED
    BY <1>1, <1>4, NotedIs DEF g
<1>6. receipt.poisoned \/ Received(K) \subseteq Shown(receipt)
  <2>1. mem[K].poisoned \/ Received(K) \subseteq Shown(mem[K]) \cup Flying(l)
    BY <1>2 DEF RInv, WritesAreDoubted
  <2>2. CASE lane[l].event \notin {"item", "tool"}
    <3>1. Flying(l) = {}
      BY <2>2 DEF Flying
    <3>2. receipt.poisoned \/ (receipt.items = mem[K].items /\ mem[K].poisoned = receipt.poisoned)
      BY <1>5, <2>2
    <3> HIDE DEF K, receipt
    <3> QED
      BY <2>1, <3>1, <3>2, <1>5 DEF Shown
  <2>3. CASE lane[l].event \in {"item", "tool"}
    <3> DEFINE c == Carried(lane[l])
    <3>1. Flying(l) = {c}
      BY <2>3 DEF Flying
    <3>2. c \in Item /\ mem[K].items \in Seq(Item)
      BY <1>1, <1>4 DEF Carried, Item, Lane, Record
    <3>3. Range(Append(mem[K].items, c)) = Range(mem[K].items) \cup {c}
      <4> HIDE DEF c
      <4> QED
        BY <3>2, RangeJoined
    <3>4. receipt.poisoned \/ /\ receipt.items = Append(mem[K].items, c)
                              /\ mem[K].poisoned = receipt.poisoned
      BY <1>5, <2>3
    <3> HIDE DEF K, receipt, c
    <3> QED
      BY <2>1, <3>1, <3>3, <3>4, <1>5 DEF Shown
  <2> QED
    BY <2>2, <2>3
<1>7. PICK r :
         /\ r.gen = mem[K].gen /\ r.pending = FALSE
         /\ r.poisoned \/ Received(K) \subseteq Shown(r)
         /\ mem' = [mem EXCEPT ![K] = r]
         /\ \/ active' = [active EXCEPT ![K] = 0]
            \/ active' = active
         /\ ~ lane[l].closed /\ lane[l].event \notin Terminal => active' = active
  <2> DEFINE ended(status) == [receipt EXCEPT !.status = status]
  <2>1. ASSUME NEW status \in Statuses
        PROVE  /\ ended(status).gen = mem[K].gen /\ ended(status).pending = FALSE
               /\ ended(status).poisoned \/ Received(K) \subseteq Shown(ended(status))
    <3> HIDE DEF receipt, K
    <3>1. /\ ended(status).gen = receipt.gen /\ ended(status).pending = receipt.pending
          /\ ended(status).poisoned = receipt.poisoned
          /\ Shown(ended(status)) = Shown(receipt)
      BY <1>5, StatusChanges DEF Shown
    <3> HIDE DEF ended
    <3> QED
      BY <3>1, <1>5, <1>6
  <2>2. ASSUME NEW status \in Statuses, Finish(g, receipt, status)
        PROVE  mem' = [mem EXCEPT ![K] = ended(status)] /\ active' = [active EXCEPT ![K] = 0]
    <3> HIDE DEF receipt, g
    <3>1. g \in {0} \cup DOMAIN exec
      BY <1>4
    <3> QED
      BY <2>2, <3>1, <1>1, <1>4, FinishedIs
  <2>3. CASE final # "none"
    <3>1. Finish(g, receipt, final) /\ final \in Statuses /\ lane[l].event \in Terminal
      BY <1>4, <2>3 DEF Written, FinalStatus, Statuses, Terminal
    <3> HIDE DEF final, g, K, receipt, ended
    <3> QED
      BY <3>1, <2>1, <2>2
  <2>4. CASE final = "none" /\ lane[l].closed
    <3>1. Finish(g, receipt, "interrupted") /\ "interrupted" \in Statuses
      BY <1>4, <2>4 DEF Written, Statuses
    <3> HIDE DEF final, g, K, receipt, ended
    <3> QED
      BY <3>1, <2>1, <2>2, <2>4
  <2>5. CASE final = "none" /\ ~ lane[l].closed
    <3>1. Saved(K, receipt) /\ active' = active
      BY <1>4, <2>5 DEF Written, Change
    <3>2. mem' = [mem EXCEPT ![K] = receipt]
      BY <3>1, <1>1, <1>4, SavedFits
    <3> HIDE DEF final, g, K, receipt, ended
    <3> QED
      BY <3>1, <3>2, <1>5, <1>6
  <2> QED
    BY <2>3, <2>4, <2>5
<1> HIDE DEF receipt, final
<1>8. /\ mem'[K] = r /\ \A k \in Keys \ {K} : mem'[k] = mem[k] /\ active'[k] = active[k]
      /\ active'[K] \in {0, active[K]}
      /\ lane'[l] = v /\ \A m \in Lanes \ {l} : lane'[m] = lane[m]
  BY <1>1, <1>2, <1>4, <1>7
<1>9. \A k \in Keys : {i \in got' : exec'[i.gen].key = k} = Received(k)
  BY <1>2 DEF Received, KeyOf
<1>10. LeaseStays(l, v)
  <2>1. \A k \in Keys : /\ active'[k] = active[k] \/ (active'[k] = 0 /\ On(l, active[k]))
                        /\ mem'[k].gen = mem[k].gen
    <3> HIDE DEF K
    <3> QED
      BY <1>4, <1>7, <1>8
  <2>2. lane[l].event \in Terminal => lane[l].current # g
    BY <1>1, <1>2 DEF TurnsAreLeased
  <2>3. ASSUME ~ lane[l].closed, lane[l].current # 0
        PROVE  active'[KeyOf(lane[l].current)] = lane[l].current
    <3> DEFINE c == lane[l].current
    <3>1. active[KeyOf(c)] = c /\ KeyOf(c) \in Keys
      BY <2>3, <1>1, <1>2, KeysOfTurns DEF TurnsAreLeased, TurnsAreKnown, Usable, Leased
    <3>2. CASE lane[l].event \in Terminal
      <4>1. KeyOf(c) # K
        BY <2>2, <3>1, <3>2, <1>4
      <4> HIDE DEF K
      <4> QED
        BY <4>1, <3>1, <1>8
    <3>3. CASE lane[l].event \notin Terminal
      BY <2>3, <3>1, <3>3, <1>7
    <3> QED
      BY <3>2, <3>3
  <2> HIDE DEF v
  <2> QED
    BY <1>2, <1>3, <1>4, <2>1, <2>2, <2>3 DEF LeaseStays
<1>11. TurnsAreLeased'
  BY <1>1, <1>2, <1>10, LeaseTurn
<1>12. ReceiptsAreComplete'
  <2>1. ASSUME NEW k \in Keys, NEW x \in {mem'[k], disk'[k]}, ~ x.pending, ~ x.poisoned
        PROVE  Received(k) \subseteq Shown(x)
    <3> HIDE DEF K
    <3>1. x = disk[k] \/ (k # K /\ x = mem[k]) \/ (k = K /\ x = r)
      BY <1>2, <1>8
    <3> QED
      BY <2>1, <3>1, <1>7 DEF RInv, ReceiptsAreComplete
  <2> QED
    BY <2>1, <1>9, CompleteIf
<1>13. WritesAreDoubted'
  <2> SUFFICES ASSUME NEW m \in Lanes
        PROVE LET x == lane'[m]
                  k == exec'[lane'[m].gen].key
                  received == {i \in got' : exec'[i.gen].key = exec'[lane'[m].gen].key} IN
              /\ x.phase = "writing" =>
                    /\ mem'[k].pending /\ disk'[k].pending
                    /\ x.late => active'[k] = 0
              /\ x.phase = "barrier" /\ ~ x.late =>
                    /\ mem'[k].pending
                    /\ mem'[k].poisoned \/ received \subseteq Shown(mem'[k])
              /\ x.phase = "writing" /\ ~ x.late =>
                    mem'[k].poisoned \/ received \subseteq Shown(mem'[k]) \cup Flying(m)'
    BY DoubtedIf
  <2>1. CASE m = l
    BY <2>1, <1>3, <1>8
  <2>2. CASE m # l
    <3> DEFINE k == KeyOf(lane[m].gen)
    <3>1. lane'[m] = lane[m] /\ exec'[lane'[m].gen].key = k /\ Flying(m)' = Flying(m)
      BY <2>2, <1>2, <1>8 DEF KeyOf, Flying, Carried
    <3>2. lane[m].phase # "idle" => k \in Keys
      BY <1>1, KeysOfTurns DEF TurnsAreKnown
    <3>3. /\ lane[m].phase = "writing" =>
               /\ mem[k].pending /\ disk[k].pending
               /\ lane[m].late => active[k] = 0
          /\ lane[m].phase = "barrier" /\ ~ lane[m].late =>
               /\ mem[k].pending
               /\ mem[k].poisoned \/ Received(k) \subseteq Shown(mem[k])
          /\ lane[m].phase = "writing" /\ ~ lane[m].late =>
               mem[k].poisoned \/ Received(k) \subseteq Shown(mem[k]) \cup Flying(m)
      BY DEF RInv, WritesAreDoubted
    <3>4. k = K => lane[m].phase # "writing" /\ ~ (lane[m].phase = "barrier" /\ ~ lane[m].late)
      BY <2>2, <1>1, <1>2, OneLease DEF RInv
    <3>5. k # K /\ k \in Keys => mem'[k] = mem[k] /\ active'[k] = active[k]
      <4> HIDE DEF k, K
      <4> QED
        BY <1>8
    <3> HIDE DEF k, K
    <3> QED
      BY <3>1, <3>2, <3>3, <3>4, <3>5, <1>2, <1>9
  <2> QED
    BY <2>1, <2>2
<1>14. RestIsCertain'
  <2>1. ASSUME NEW m \in Lanes,
               ~ lane'[m].closed, ~ lane'[m].late, lane'[m].current # 0,
               ~ (lane'[m].phase \in {"barrier", "writing"}
                      /\ lane'[m].gen = lane'[m].current)
        PROVE  ~ mem'[exec'[lane'[m].current].key].pending
    <3> DEFINE c == lane[m].current
    <3>1. /\ lane'[m].current = c /\ lane'[m].closed = lane[m].closed
          /\ lane'[m].late = lane[m].late /\ lane'[m].gen = lane[m].gen
          /\ m # l => lane'[m].phase = lane[m].phase
      BY <1>3, <1>8
    <3>2. c # 0 /\ KeyOf(c) \in Keys /\ exec'[lane'[m].current].key = KeyOf(c)
      BY <2>1, <3>1, <1>1, <1>2, KeysOfTurns DEF TurnsAreKnown, KeyOf
    <3>3. CASE KeyOf(c) = K
      BY <3>2, <3>3, <1>7, <1>8
    <3>4. CASE KeyOf(c) # K
      <4>1. Usable(m) /\ ~ (Delivering(m) /\ lane[m].gen = lane[m].current)
        BY <2>1, <3>1, <3>4 DEF Usable, Delivering
      <4>2. ~ mem[KeyOf(c)].pending
        BY <4>1, <3>2 DEF RInv, RestIsCertain
      <4> HIDE DEF c, K
      <4> QED
        BY <3>2, <3>4, <4>2, <1>8
    <3> QED
      BY <3>3, <3>4
  <2> QED
    BY <2>1, CertainIf
<1> QED
  BY <1>1, <1>11, <1>12, <1>13, <1>14 DEF RInv

LEMMA RequestIsNoted ==
    ASSUME KeysFit, NativeTurnsAssumption, RInv, NEW l \in Lanes, NEW k \in Keys, NEW input,
           Request(l, k, input)
    PROVE  RInv'
<1> DEFINE g == Len(exec) + 1
           v == lane'[l]
<1>1. /\ LInv /\ LInv' /\ TypeOK /\ TurnsAreKnown /\ TurnsAreLeased /\ ReceiptsAreComplete
      /\ lane \in [Lanes -> Lane] /\ mem \in [Keys -> Record]
      /\ active \in [Keys -> 0 .. MaxGenerations]
  BY RequestHasALane DEF RInv, LInv, TypeOK
<1>2. /\ Usable(l) /\ lane[l].current = 0
      /\ input \in Seq(Item) /\ g <= MaxGenerations
      /\ Admits(k, input)
      /\ exec' = Append(exec, [key |-> k, input |-> input])
      /\ disk' = disk /\ got' = got
  BY DEF Request
<1>3. /\ g \in Nat \ {0} /\ g \notin DOMAIN exec
      /\ DOMAIN exec' = DOMAIN exec \cup {g}
      /\ \A h \in DOMAIN exec : exec'[h] = exec[h]
      /\ exec'[g].key = k
  BY <1>1, <1>2, RunAdded
<1>4. active[k] = 0 /\ ~ mem[k].pending /\ Received(k) \subseteq Range(input)
  BY <1>1, <1>2, AdmittedKnows
<1>5. PICK r : /\ \/ r = Receipt(g, input)
                  \/ r = [Receipt(g, input) EXCEPT !.status = "failed"]
               /\ Saved(k, r)
  BY DEF Request
<1>6. /\ mem' = [mem EXCEPT ![k] = r]
      /\ r.gen = g /\ ~ r.pending /\ Received(k) \subseteq Shown(r)
  <2>1. mem' = [mem EXCEPT ![k] = r]
    BY <1>1, <1>5, SavedFits
  <2>2. g \in 1 .. MaxGenerations
    BY <1>2, <1>3, NativeTurnsAssumption DEF NativeTurnsAssumption
  <2> HIDE DEF g
  <2>3. r.gen = g /\ ~ r.pending /\ r.input = input
    BY <1>1, <1>2, <1>5, <2>2, ReceiptIs
  <2> QED
    BY <2>1, <2>3, <1>4 DEF Shown
<1>7. /\ active' = active \/ active' = [active EXCEPT ![k] = g]
      /\ lane' = lane \/ lane' = [lane EXCEPT ![l].current = g, ![l].made = 0]
      /\ active'[k] = 0 => lane' = lane
  BY <1>1, <1>3, <1>4 DEF Request
<1>8. /\ \A m \in Lanes \ {l} : lane'[m] = lane[m]
      /\ v.gen = lane[l].gen /\ v.phase = lane[l].phase /\ v.event = lane[l].event
      /\ v.late = lane[l].late /\ v.closed = lane[l].closed
      /\ v.current = 0 \/ (v.current = g /\ active'[k] = g)
      /\ v.phase = "writing" => v.made = lane[l].made \/ v.current = g
  BY <1>1, <1>2, <1>3, <1>4, <1>7 DEF Lane
<1>9. /\ mem'[k] = r /\ \A j \in Keys \ {k} : mem'[j] = mem[j] /\ active'[j] = active[j]
      /\ active'[k] \in {0, g}
  BY <1>1, <1>4, <1>6, <1>7
<1>10. \A j \in Keys : {i \in got' : exec'[i.gen].key = j} = Received(j)
  BY <1>1, <1>2, <1>3 DEF Received, KeyOf, TurnsAreKnown
<1> HIDE DEF g, v
<1>11. ASSUME NEW m \in Lanes
       PROVE  /\ lane'[m].phase = lane[m].phase /\ lane'[m].gen = lane[m].gen
              /\ lane'[m].event = lane[m].event
              /\ lane'[m].late = lane[m].late /\ lane'[m].closed = lane[m].closed
              /\ lane'[m].current = lane[m].current
                     \/ (m = l /\ lane'[m].current = g /\ active'[k] = g)
  BY <1>2, <1>8 DEF v
<1>12. ASSUME NEW m \in Lanes, lane[m].phase # "idle"
       PROVE  /\ lane[m].gen \in DOMAIN exec /\ lane[m].gen # 0 /\ lane[m].gen # g
              /\ exec'[lane[m].gen].key = KeyOf(lane[m].gen) /\ KeyOf(lane[m].gen) \in Keys
              /\ lane[m].phase = "writing" => KeyOf(lane[m].gen) # k
              /\ Delivering(m) /\ ~ lane[m].late =>
                     /\ KeyOf(lane[m].gen) # k
                     /\ active[KeyOf(lane[m].gen)] = lane[m].gen
  <2>1. /\ lane[m].gen \in DOMAIN exec /\ lane[m].gen # 0 /\ lane[m].gen # g
        /\ exec'[lane[m].gen].key = KeyOf(lane[m].gen) /\ KeyOf(lane[m].gen) \in Keys
    BY <1>1, <1>3, <1>12, KeysOfTurns DEF TurnsAreKnown, KeyOf
  <2>2. lane[m].phase = "writing" => KeyOf(lane[m].gen) # k
    BY <1>4 DEF RInv, WritesAreDoubted
  <2>3. Delivering(m) /\ ~ lane[m].late => active[KeyOf(lane[m].gen)] = lane[m].gen
    BY <1>1 DEF TurnsAreLeased, Leased
  <2> QED
    BY <2>1, <2>2, <2>3, <1>4
<1>13. ASSUME NEW m \in Lanes, lane[m].current # 0
       PROVE  /\ lane[m].current \in DOMAIN exec /\ lane[m].current # g
              /\ exec'[lane[m].current].key = KeyOf(lane[m].current)
              /\ KeyOf(lane[m].current) \in Keys
              /\ Usable(m) => /\ KeyOf(lane[m].current) # k
                              /\ active[KeyOf(lane[m].current)] = lane[m].current
  <2>1. /\ lane[m].current \in DOMAIN exec /\ lane[m].current # g
        /\ exec'[lane[m].current].key = KeyOf(lane[m].current)
        /\ KeyOf(lane[m].current) \in Keys
    BY <1>1, <1>3, <1>13, KeysOfTurns DEF TurnsAreKnown, KeyOf
  <2>2. Usable(m) => active[KeyOf(lane[m].current)] = lane[m].current
    BY <1>1, <1>13 DEF TurnsAreLeased, Leased
  <2> QED
    BY <2>1, <2>2, <1>4, <1>13
<1>14. TurnsAreLeased'
  <2>1. ASSUME NEW m \in Lanes, NEW n \in Lanes, NEW h \in DOMAIN exec', On(m, h)', On(n, h)'
        PROVE  m = n
    <3>1. CASE h = g
      <4>1. ASSUME NEW o \in Lanes, On(o, h)' PROVE o = l
        <5>1. lane'[o].current = g
          BY <4>1, <3>1, <1>11, <1>12 DEF On
        <5>2. lane[o].current # g
          BY <1>3, <1>13
        <5> QED
          BY <5>1, <5>2, <1>11
      <4> QED
        BY <2>1, <4>1
    <3>2. CASE h # g
      <4>1. ASSUME NEW o \in Lanes, On(o, h)' PROVE On(o, h)
        BY <4>1, <3>2, <1>11 DEF On
      <4> QED
        BY <2>1, <3>2, <4>1, <1>1, <1>3 DEF TurnsAreLeased
    <3> QED
      BY <3>1, <3>2
  <2>2. ASSUME NEW m \in Lanes
        PROVE  LET x == lane'[m] IN
               /\ ~ x.closed /\ ~ x.late /\ x.current # 0 =>
                      active'[exec'[x.current].key] = x.current
               /\ x.phase \in {"barrier", "writing"} /\ ~ x.late =>
                      x.gen # 0 /\ active'[exec'[x.gen].key] = x.gen
               /\ x.phase # "idle" /\ x.event \in Terminal => x.current # x.gen
    <3>1. ASSUME ~ lane'[m].closed, ~ lane'[m].late, lane'[m].current # 0
          PROVE  active'[exec'[lane'[m].current].key] = lane'[m].current
      <4>1. CASE lane'[m].current = lane[m].current
        BY <3>1, <4>1, <1>9, <1>11, <1>13 DEF Usable
      <4>2. CASE lane'[m].current # lane[m].current
        BY <4>2, <1>3, <1>11
      <4> QED
        BY <4>1, <4>2
    <3>2. ASSUME lane'[m].phase \in {"barrier", "writing"}, ~ lane'[m].late
          PROVE  lane'[m].gen # 0 /\ active'[exec'[lane'[m].gen].key] = lane'[m].gen
      BY <3>2, <1>9, <1>11, <1>12 DEF Delivering
    <3>3. lane'[m].phase # "idle" /\ lane'[m].event \in Terminal =>
              lane'[m].current # lane'[m].gen
      BY <1>1, <1>11, <1>12 DEF TurnsAreLeased
    <3> QED
      BY <3>1, <3>2, <3>3
  <2>3. \A j \in Keys : active'[j] # 0 => mem'[j].gen = active'[j]
    BY <1>1, <1>6, <1>9 DEF TurnsAreLeased
  <2> QED
    BY <2>1, <2>2, <2>3, LeasedIf
<1>15. ReceiptsAreComplete'
  <2>1. ASSUME NEW j \in Keys, NEW x \in {mem'[j], disk'[j]}, ~ x.pending, ~ x.poisoned
        PROVE  Received(j) \subseteq Shown(x)
    <3>1. x = disk[j] \/ (j # k /\ x = mem[j]) \/ (j = k /\ x = r)
      BY <1>2, <1>9
    <3> QED
      BY <2>1, <3>1, <1>1, <1>6 DEF ReceiptsAreComplete
  <2> QED
    BY <2>1, <1>10, CompleteIf
<1>16. WritesAreDoubted'
  <2> SUFFICES ASSUME NEW m \in Lanes
        PROVE LET x == lane'[m]
                  j == exec'[lane'[m].gen].key
                  received == {i \in got' : exec'[i.gen].key = exec'[lane'[m].gen].key} IN
              /\ x.phase = "writing" =>
                    /\ mem'[j].pending /\ disk'[j].pending
                    /\ x.late => active'[j] = 0
              /\ x.phase = "barrier" /\ ~ x.late =>
                    /\ mem'[j].pending
                    /\ mem'[j].poisoned \/ received \subseteq Shown(mem'[j])
              /\ x.phase = "writing" /\ ~ x.late =>
                    mem'[j].poisoned \/ received \subseteq Shown(mem'[j]) \cup Flying(m)'
    BY DoubtedIf
  <2> DEFINE j == KeyOf(lane[m].gen)
  <2>1. CASE lane[m].phase \notin {"barrier", "writing"}
    BY <2>1, <1>11
  <2>2. CASE lane[m].phase = "barrier" /\ lane[m].late
    BY <2>2, <1>11
  <2>3. CASE lane[m].phase = "writing" \/ (lane[m].phase = "barrier" /\ ~ lane[m].late)
    <3>1. j \in Keys /\ j # k /\ exec'[lane'[m].gen].key = j
      BY <2>3, <1>11, <1>12 DEF Delivering
    <3>2. /\ lane[m].phase = "writing" =>
               /\ mem[j].pending /\ disk[j].pending
               /\ lane[m].late => active[j] = 0
          /\ lane[m].phase = "barrier" /\ ~ lane[m].late =>
               /\ mem[j].pending
               /\ mem[j].poisoned \/ Received(j) \subseteq Shown(mem[j])
          /\ lane[m].phase = "writing" /\ ~ lane[m].late =>
               mem[j].poisoned \/ Received(j) \subseteq Shown(mem[j]) \cup Flying(m)
      BY DEF RInv, WritesAreDoubted
    <3>3. mem'[j] = mem[j] /\ active'[j] = active[j]
      <4> HIDE DEF j
      <4> QED
        BY <3>1, <1>9
    <3>4. lane[m].phase = "writing" /\ ~ lane[m].late => Flying(m)' = Flying(m)
      <4>1. CASE m # l
        BY <4>1, <1>8 DEF Flying, Carried
      <4>2. CASE m = l /\ lane' = lane
        BY <4>2 DEF Flying, Carried
      \* The turn before has ended: nothing of it but its end is on its way.
      <4>3. ASSUME m = l, lane[m].phase = "writing", ~ lane[m].late
            PROVE  Flying(m)' = Flying(m)
        <5>1. lane[m].event \in Terminal /\ lane'[m].event = lane[m].event
          BY <4>3, <1>1, <1>2, <1>11, <1>12 DEF LInv, DeliveriesAreCurrent, Usable
        <5> QED
          BY <5>1 DEF Flying, Terminal
      <4> QED
        BY <4>1, <4>2, <4>3, <1>7
    <3> HIDE DEF j
    <3> QED
      BY <3>1, <3>2, <3>3, <3>4, <1>2, <1>10, <1>11
  <2> QED
    BY <2>1, <2>2, <2>3
<1>17. RestIsCertain'
  <2>1. ASSUME NEW m \in Lanes,
               ~ lane'[m].closed, ~ lane'[m].late, lane'[m].current # 0,
               ~ (lane'[m].phase \in {"barrier", "writing"}
                      /\ lane'[m].gen = lane'[m].current)
        PROVE  ~ mem'[exec'[lane'[m].current].key].pending
    <3>1. CASE lane'[m].current = lane[m].current
      <4>1. /\ Usable(m) /\ lane[m].current # 0
            /\ ~ (Delivering(m) /\ lane[m].gen = lane[m].current)
        BY <2>1, <3>1, <1>11 DEF Usable, Delivering
      <4>2. ~ mem[KeyOf(lane[m].current)].pending
        BY <4>1 DEF RInv, RestIsCertain
      <4> QED
        BY <3>1, <4>1, <4>2, <1>9, <1>13
    <3>2. CASE lane'[m].current # lane[m].current
      BY <3>2, <1>3, <1>6, <1>9, <1>11
    <3> QED
      BY <3>1, <3>2
  <2> QED
    BY <2>1, CertainIf
<1> QED
  BY <1>1, <1>14, <1>15, <1>16, <1>17 DEF RInv

LEMMA PersistIsNoted == RInv /\ Persist => RInv'
<1> SUFFICES ASSUME RInv, Persist PROVE RInv'
  OBVIOUS
<1>1. disk' = mem /\ UNCHANGED <<mem, active, lane, exec, got>>
  BY DEF Persist
<1>2. LInv'
  BY PersistHasALane DEF RInv
<1>3. \A l \in Lanes : \A g : On(l, g)' = On(l, g)
  BY <1>1 DEF On
<1>4. TurnsAreLeased'
  BY <1>1, <1>3 DEF RInv, TurnsAreLeased, Usable, Delivering, Leased, KeyOf
<1>5. ReceiptsAreComplete'
  BY <1>1 DEF RInv, ReceiptsAreComplete, Received, KeyOf
<1>6. \A l \in Lanes : Flying(l)' = Flying(l)
  BY <1>1 DEF Flying
<1>7. WritesAreDoubted'
  BY <1>1, <1>6 DEF RInv, WritesAreDoubted, Received, KeyOf
<1>8. RestIsCertain'
  BY <1>1 DEF RInv, RestIsCertain, Usable, Delivering, KeyOf
<1> QED
  BY <1>2, <1>4, <1>5, <1>7, <1>8 DEF RInv

LEMMA CrashIsNoted == NativeTurnsAssumption /\ RInv /\ Crash => RInv'
<1> SUFFICES ASSUME NativeTurnsAssumption, RInv, Crash PROVE RInv'
  OBVIOUS
<1>1. /\ mem' = disk /\ disk' = disk /\ exec' = exec /\ got' = got
      /\ \A k \in Keys : active'[k] = 0
      /\ \A l \in Lanes : lane'[l] = NewLane
  BY DEF Crash
<1>2. LInv /\ LInv'
  BY CrashHasALane DEF RInv
<1>3. NewLane.phase = "idle" /\ NewLane.current = 0
  BY DEF NewLane
<1>4. 0 \notin DOMAIN exec
  BY <1>2, KeysOfTurns DEF LInv
<1>5. \A l \in Lanes : \A g \in DOMAIN exec : ~ On(l, g)'
  BY <1>1, <1>3, <1>4 DEF On
<1>6. TurnsAreLeased'
  BY <1>1, <1>3, <1>5, LeasedIf
<1>7. ReceiptsAreComplete'
  BY <1>1 DEF RInv, ReceiptsAreComplete, Received, KeyOf
<1>8. WritesAreDoubted' /\ RestIsCertain'
  BY <1>1, <1>3 DEF WritesAreDoubted, RestIsCertain, Usable
<1> QED
  BY <1>2, <1>6, <1>7, <1>8 DEF RInv

LEMMA NotesAtFirst == NativeTurnsAssumption /\ Init => RInv
<1> SUFFICES ASSUME NativeTurnsAssumption, Init PROVE RInv
  OBVIOUS
<1>1. LInv
  BY LanesAtFirst
<1>2. /\ \A k \in Keys : mem[k] = NoReceipt /\ disk[k] = NoReceipt /\ active[k] = 0
      /\ \A l \in Lanes : lane[l] = NewLane
      /\ got = {} /\ DOMAIN exec = {}
  BY DEF Init
<1>3. NewLane.phase = "idle" /\ NewLane.current = 0
  BY DEF NewLane
<1> QED
  BY <1>1, <1>2, <1>3 DEF RInv, TurnsAreLeased, ReceiptsAreComplete, WritesAreDoubted,
     RestIsCertain, Received, Delivering, Usable

LEMMA NotesStep ==
    ASSUME KeysFit, NativeTurnsAssumption, ~ Json, RInv, [Next]_vars
    PROVE  RInv'
<1>1. ASSUME NEW l \in Lanes, NEW k \in Keys, NEW input \in Histories(k), Request(l, k, input)
      PROVE  RInv'
  BY <1>1, RequestIsNoted
<1>2. ASSUME NEW l \in Lanes, NEW event \in Events, Deliver(l, event) PROVE RInv'
  BY <1>2, DeliverIsNoted
<1>3. ASSUME NEW l \in Lanes,
             \/ Write(l) \/ Arrives(l) \/ Written(l) \/ Settled(l) \/ DeliveryFails(l)
             \/ Close(l) \/ Reconnect(l)
      PROVE  RInv'
  BY <1>3, WriteIsNoted, ArrivalIsNoted, WrittenIsNoted, SettledIsNoted, FailureIsNoted,
     CloseIsNoted, ReconnectIsNoted
<1>4. ASSUME NEW l \in Lanes PROVE ~ AnswerWhole(l)
  BY DEF AnswerWhole
<1>5. CASE UNCHANGED vars
  <2>1. UNCHANGED <<mem, disk, active, lane, exec, got>>
    BY <1>5 DEF vars
  <2>2. LInv'
    BY <1>5, LanesStep DEF RInv
  <2>3. \A l \in Lanes : (\A g : On(l, g)' = On(l, g)) /\ Flying(l)' = Flying(l)
    BY <2>1 DEF On, Flying
  <2>4. TurnsAreLeased' /\ RestIsCertain'
    BY <2>1, <2>3 DEF RInv, TurnsAreLeased, RestIsCertain, Usable, Delivering, Leased, KeyOf
  <2>5. ReceiptsAreComplete' /\ WritesAreDoubted'
    BY <2>1, <2>3 DEF RInv, ReceiptsAreComplete, WritesAreDoubted, Received, KeyOf
  <2> QED
    BY <2>2, <2>4, <2>5 DEF RInv
<1> QED
  BY <1>1, <1>2, <1>3, <1>4, <1>5, PersistIsNoted, CrashIsNoted DEF Next

LEMMA RequestKnows ==
    ASSUME RInv, NEW l \in Lanes, NEW k \in Keys, NEW input, Request(l, k, input)
    PROVE  RunsKnowTheAnswer
<1>1. /\ LInv /\ TypeOK /\ TurnsAreLeased /\ ReceiptsAreComplete
      /\ input \in Seq(Item) /\ Admits(k, input)
      /\ exec' = Append(exec, [key |-> k, input |-> input])
  BY DEF Request, RInv, LInv
<1>2. Received(k) \subseteq Range(input)
  BY <1>1, AdmittedKnows
<1>3. Last(exec').key = k /\ Last(exec').input = input
  <2> DEFINE Run == [key : Keys, input : Seq(Item)]
             run == [key |-> k, input |-> input]
  <2>1. exec \in Seq(Run) /\ run \in Run /\ exec' = Append(exec, run)
    BY <1>1 DEF TypeOK
  <2>2. Last(exec') = run
    <3> HIDE DEF Run, run
    <3> QED
      BY <2>1 DEF Last
  <2> QED
    BY <2>2
<1> QED
  BY <1>2, <1>3 DEF RunsKnowTheAnswer

LEMMA StepKnows ==
    ASSUME NativeTurnsAssumption, RInv, [Next]_vars
    PROVE  [RunsKnowTheAnswer]_vars
<1>1. ASSUME NEW l \in Lanes, NEW k \in Keys, NEW input \in Histories(k), Request(l, k, input)
      PROVE  RunsKnowTheAnswer
  BY <1>1, RequestKnows
<1>2. ASSUME exec' = exec PROVE RunsKnowTheAnswer
  <2>1. Len(exec) \in Nat
    BY DEF RInv, LInv, TypeOK
  <2> QED
    BY <1>2, <2>1 DEF RunsKnowTheAnswer
<1>3. ASSUME NEW l \in Lanes, NEW event \in Events, Deliver(l, event) PROVE exec' = exec
  BY <1>3 DEF Deliver
<1>4. ASSUME NEW l \in Lanes,
             \/ Write(l) \/ Arrives(l) \/ Written(l) \/ Settled(l) \/ DeliveryFails(l)
             \/ Close(l) \/ Reconnect(l) \/ AnswerWhole(l)
      PROVE  exec' = exec
  BY <1>4 DEF Write, Arrives, Written, Settled, DeliveryFails, Close, Reconnect, AnswerWhole
<1>5. Persist \/ Crash => exec' = exec
  BY DEF Persist, Crash
<1> QED
  BY <1>1, <1>2, <1>3, <1>4, <1>5 DEF Next

\* No turn is run again without all that an earlier run showed its client, for
\* any turns, lanes, executions, disconnects, late writes and restarts, as long
\* as the store keeps a receipt for every turn and no answer is written in one
\* piece (beginNativeTurn, deliver, saveNativeTurnReceipt).
THEOREM NoTurnRunsBlindly ==
    NativeTurnsAssumption /\ KeysFit /\ ~ Json => (Spec => NoBlindReplay)
<1> SUFFICES ASSUME NativeTurnsAssumption, KeysFit, ~ Json PROVE Spec => NoBlindReplay
  OBVIOUS
<1>1. Init => RInv
  BY NotesAtFirst
<1>2. RInv /\ [Next]_vars => RInv'
  BY NotesStep
<1>3. RInv /\ [Next]_vars => [RunsKnowTheAnswer]_vars
  BY StepKnows
<1> QED
  BY <1>1, <1>2, <1>3, PTL DEF Spec, NoBlindReplay

=============================================================================
