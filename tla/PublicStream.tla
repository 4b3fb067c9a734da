------------------------------ MODULE PublicStream ------------------------------
(***************************************************************************)
(* The grammar of a public Responses stream: normalizePublicResponsesEvent *)
(* (openai-streaming.js) numbers the events, fills the output of the final *)
(* response with the items it relayed (responses-stream-integrity.js), and *)
(* opens a response that the provider never opened before it is closed     *)
(* (terminalPrefix).  The correlation of tool calls is in ResponsesStream; *)
(* here they always add up.                                                *)
(*                                                                         *)
(* An event without a number has -1, an item without an index too.         *)
(***************************************************************************)
EXTENDS Integers, Sequences, FiniteSets, SequencesExt, FiniteSetsExt

CONSTANTS
    Items,              \* output items
    Numbers,            \* sequence numbers the provider gives
    MaxSequence,        \* Number.MAX_SAFE_INTEGER
    MaxOutput,          \* maxOutputBytes, in items
    MaxEvents           \* bound: events before the last one

LimitsFit == MaxSequence \in Nat /\ MaxOutput \in Nat /\ Numbers \subseteq -1 .. MaxSequence

VARIABLES
    websocket,                                      \* is the client a WebSocket
    sequence,                                       \* the last number
    state,                                          \* created, text, itemsRelayed, terminal,
                                                    \* and outputOverflow of its integrity
    output,                                         \* the items recorded, with their indexes
    sent,                                           \* the events the client got
    relayed,                                        \* how many of them the provider sent
    given,                                          \* the output its last event had
    events

vars == <<websocket, sequence, state, output, sent, relayed, given, events>>

Flags == {"created", "text", "itemsRelayed", "terminal", "overflow"}

Quiet == {"created", "text", "added", "done", "shell", "other"}
Final == {"completed", "incomplete", "failed"}

Event == [type : Quiet \cup Final, number : Int, items : Seq(Items)]

TypeOK ==
    /\ websocket \in BOOLEAN /\ state \in [Flags -> BOOLEAN]
    /\ sequence \in Int /\ events \in 0 .. MaxEvents + 1
    /\ \A e \in Range(sent) : e \in Event
    /\ \A r \in Range(output) : r.item \in Items /\ r.index \in -1 .. 1

Init ==
    /\ websocket \in BOOLEAN
    /\ sequence = -1 /\ state = [f \in Flags |-> FALSE] /\ output = <<>> /\ sent = <<>> /\ relayed = 0
    /\ given = <<>> /\ events = 0

-----------------------------------------------------------------------------
Told(type, number, items) == [type |-> type, number |-> number, items |-> items]

\* nextSequence: the provider's number where it goes on from the last one.
NextNumber(incoming, last) == IF incoming > last THEN incoming ELSE last + 1

Exhausted(number, final) == number > MaxSequence \/ (~final /\ number = MaxSequence)

\* The failure that ends a stream whose numbers have run out.
RunOut(before, flags) ==
    /\ state' = [flags EXCEPT !.terminal = TRUE]
    /\ sent' = sent \o Append(before, Told("failed", MaxSequence, <<>>))
    /\ UNCHANGED output

\* recordResponsesOutput: what would be too much is not kept at all.
TooMuch(type) == type = "done" /\ ~state.overflow /\ Len(output) = MaxOutput

Record(type, item, index) ==
    output' = IF TooMuch(type) THEN <<>>
              ELSE IF type = "done" /\ ~state.overflow THEN Append(output, [item |-> item, index |-> index])
              ELSE output

Relay(type, incoming, item, index) ==
    LET number == NextNumber(incoming, sequence)
        isItem == type \in {"added", "done"}
    IN IF Exhausted(number, FALSE) THEN RunOut(<<>>, state) /\ UNCHANGED sequence
       ELSE /\ sequence' = number
            /\ sent' = Append(sent, Told(type, number, IF isItem THEN <<item>> ELSE <<>>))
            /\ state' = [state EXCEPT !.created = @ \/ type \in {"created", "shell"},
                                      !.text = @ \/ type = "text",
                                      !.itemsRelayed = @ \/ isItem,
                                      !.overflow = @ \/ TooMuch(type)]
            /\ Record(type, item, index)

QuietEvent ==
    /\ ~state.terminal /\ events < MaxEvents /\ events' = events + 1
    /\ \E type \in Quiet, incoming \in Numbers, item \in Items, index \in -1 .. 1 :
          Relay(type, incoming, item, index)
    /\ relayed' = Len(sent')
    /\ UNCHANGED <<websocket, given>>

-----------------------------------------------------------------------------
\* fillResponsesOutput: the recorded items in the order of their indexes, each
\* index once and with its last item; in the order they came if one has none.
Recorded ==
    LET at(i) == Max({k \in DOMAIN output : output[k].index = i})
    IN IF \A r \in Range(output) : r.index # -1
       THEN LET order == SetToSortSeq({r.index : r \in Range(output)}, <)
            IN [k \in DOMAIN order |-> output[at(order[k])].item]
       ELSE [k \in DOMAIN output |-> output[k].item]

Filled(own) == IF state.overflow \/ output = <<>> \/ own # <<>> THEN own ELSE Recorded

\* terminalPrefix: what a client needs to have seen before the end.
Prefix(items) ==
    LET opening == IF state.created THEN <<>> ELSE <<Told("created", 0, <<>>)>>
        announced == IF state.text \/ state.itemsRelayed THEN <<>>
                     ELSE FlattenSeq([k \in DOMAIN items |->
                              <<Told("added", 0, <<items[k]>>), Told("done", 0, <<items[k]>>)>>])
        all == opening \o announced
    IN [k \in DOMAIN all |-> [all[k] EXCEPT !.number = sequence + k]]

Close(type, incoming) ==
    LET items == Filled(given')
        prefix == IF websocket \/ type = "failed" THEN <<>> ELSE Prefix(items)
        last == sequence + Len(prefix)
        number == NextNumber(incoming, last)
        flags == [state EXCEPT !.created = @ \/ prefix # <<>>,
                               !.itemsRelayed = @ \/ \E e \in Range(prefix) : e.type = "added"]
        shown == IF type = "failed" THEN <<>> ELSE items
    IN IF Exhausted(number, TRUE) THEN RunOut(prefix, flags) /\ sequence' = last
       ELSE /\ sequence' = number /\ state' = [flags EXCEPT !.terminal = TRUE]
            /\ sent' = sent \o Append(prefix, Told(type, number, shown))
            /\ UNCHANGED output

FinalEvent ==
    /\ ~state.terminal /\ events' = MaxEvents + 1
    /\ given' \in {<<>>} \cup {<<i>> : i \in Items}
    /\ \E type \in Final, incoming \in Numbers : Close(type, incoming)
    /\ UNCHANGED <<websocket, relayed>>

Next == QuietEvent \/ FinalEvent

Spec == Init /\ [][Next]_vars

-----------------------------------------------------------------------------
\* Numbers go up from event to event, whatever numbers the provider gives; only
\* the failure that says they have run out may not.
NumbersGoUp ==
    \A k \in 1 .. Len(sent) - 1 :
        sent[k].number < sent[k + 1].number \/ sent[k + 1] = Told("failed", MaxSequence, <<>>)

Ends == {k \in DOMAIN sent : sent[k].type \in Final}
Successful == \E k \in Ends : sent[k].type # "failed"

\* One event ends the stream, and it is the last.
EndsOnce == Cardinality(Ends) <= 1 /\ \A k \in Ends : k = Len(sent)

\* A client of server-sent events never sees a response close that was not
\* opened; the items of the final response are announced to it, each once and in
\* order, when nothing of the response had been, and never otherwise.
OpenedBeforeClosed ==
    (Successful /\ ~websocket) =>
        LET from == SubSeq(sent, 1, relayed)
            synthesized(type) == SelectSeq(SubSeq(sent, relayed + 1, Len(sent)),
                                           LAMBDA e : e.type = type)
            announced(type) == [k \in DOMAIN synthesized(type) |-> synthesized(type)[k].items[1]]
            expected == IF \E e \in Range(from) : e.type \in {"text", "added", "done"} THEN <<>>
                        ELSE Last(sent).items
        IN /\ \E e \in Range(sent) : e.type \in {"created", "shell"}
           /\ announced("added") = expected /\ announced("done") = expected

\* The final response is the provider's own, or lists every item that was done,
\* unless there were too many or a later one took its index.
NothingDoneIsMissing ==
    (Successful /\ ~state.overflow) =>
        IF given # <<>> THEN Last(sent).items = given
        ELSE \A k \in DOMAIN output :
                \/ output[k].item \in Range(Last(sent).items)
                \/ \E j \in k + 1 .. Len(output) : output[j].index = output[k].index

\* What is kept of a long response does not grow without limit.
KeptIsBounded == Len(output) <= MaxOutput

StreamIsGrammatical ==
    /\ KeptIsBounded /\ NumbersGoUp /\ EndsOnce /\ OpenedBeforeClosed /\ NothingDoneIsMissing

=============================================================================
