-------------------------------- MODULE ChatStream --------------------------------
(***************************************************************************)
(* A Responses stream told to a Chat Completions client                    *)
(* (openai-streaming.js, normalizeChatEvent).  A tool call reaches the     *)
(* client in pieces: its announcement, the deltas, and whatever the        *)
(* snapshots that repeat the whole call have beyond them.  The code keeps  *)
(* a hash of what it has sent of each call; here it keeps the text, which  *)
(* is only compared.                                                       *)
(*                                                                         *)
(* `client` is what a client makes of the chunks.                          *)
(***************************************************************************)
EXTENDS Integers, Sequences, FiniteSets, SequencesExt

CONSTANTS
    Indexes,        \* output indexes, 0 among them
    Items,          \* [type, id, call, name]: identities of tool calls, "" where absent
    Pieces,         \* arguments or input, and pieces of them
    Endings,        \* output lists of the completed response: [item, text] sequences
    MaxEvents       \* bound: events before the last one

IndexesCount == 0 \in Indexes /\ Indexes \subseteq Nat

VARIABLES
    entry,      \* toolArguments: what was sent of each call, and whose it is
    roleSent, toolCalls, reconciliationFailed, terminal,
    client,     \* [role, text, calls, finish, error, after]
    said,       \* output list of the completed response
    events

vars == <<entry, roleSent, toolCalls, reconciliationFailed, terminal, client, said, events>>


TypeOK ==
    /\ DOMAIN entry \subseteq Indexes
    /\ {roleSent, toolCalls, reconciliationFailed, terminal} \subseteq BOOLEAN
    /\ client.role \in 0 .. 1 /\ client.text \in Nat
    /\ client.finish \in {"none", "stop", "tool_calls", "length", "content_filter"}
    /\ client.error \in BOOLEAN /\ events \in 0 .. MaxEvents + 1

Init ==
    /\ entry = <<>>
    /\ roleSent = FALSE /\ toolCalls = FALSE /\ reconciliationFailed = FALSE /\ terminal = FALSE
    /\ client = [role |-> 0, text |-> 0, calls |-> <<>>, finish |-> "none", error |-> FALSE]
    /\ said = <<>> /\ events = 0

-----------------------------------------------------------------------------
(* What one event does is a function of the state: these are its parts.  A  *)
(* state is the record of the variables that an event changes.              *)

State == [entry |-> entry, toolCalls |-> toolCalls, failed |-> reconciliationFailed,
          calls |-> client.calls]

With(f, i, v) == [j \in DOMAIN f \cup {i} |-> IF j = i THEN v ELSE f[j]]

Register(s, i, item, text) ==
    [s EXCEPT !.entry = With(@, i, [item |-> item, text |-> text]),
              !.calls = With(@, i, [item |-> item, text |-> text]), !.toolCalls = TRUE]

\* response.output_item.added
Added(s, i, item, text) ==
    IF i \in DOMAIN s.entry THEN [s EXCEPT !.failed = TRUE, !.toolCalls = TRUE]
    ELSE Register(s, i, item, text)

Sent(s, i, text) ==
    [s EXCEPT !.entry[i].text = @ \o text, !.calls[i].text = @ \o text]

\* response.function_call_arguments.delta and the one of custom tools, whose type
\* is not compared with the call's.
Delta(s, i, text) ==
    IF i \in DOMAIN s.entry THEN [Sent(s, i, text) EXCEPT !.toolCalls = TRUE]
    ELSE [s EXCEPT !.toolCalls = TRUE]

Shares(item, other) ==
    \/ item.id # "" /\ item.id = other.id
    \/ item.call # "" /\ item.call = other.call

Contradicts(item, other) ==
    \E f \in DOMAIN item : item[f] # "" /\ other[f] # "" /\ item[f] # other[f]

\* A snapshot sends the client what the pieces so far left out.
Reconcile(s, i, item, text) ==
    IF i \notin DOMAIN s.entry \/ ~Shares(item, s.entry[i].item) THEN s
    ELSE IF Contradicts(item, s.entry[i].item) \/ ~IsPrefix(s.entry[i].text, text)
    THEN [s EXCEPT !.failed = TRUE]
    ELSE Sent(s, i, SubSeq(text, Len(s.entry[i].text) + 1, Len(text)))

Complete(s, i, item, text) ==
    IF i \in DOMAIN s.entry THEN Reconcile(s, i, item, text)
    ELSE IF "" \in {item.id, item.call, item.name} THEN s
    ELSE Register(s, i, item, text)

Snapshot(s, output) ==
    LET step(acc, k) ==
            IF acc.failed THEN acc ELSE Complete(acc, k - 1, output[k].item, output[k].text)
    IN FoldLeftDomain(step, s, output)

-----------------------------------------------------------------------------
\* A reconciliation that failed ends the stream with an error and nothing else.
Becomes(s) ==
    /\ entry' = s.entry /\ toolCalls' = s.toolCalls /\ reconciliationFailed' = s.failed
    /\ terminal' = s.failed
    /\ client' = IF s.failed THEN [client EXCEPT !.error = TRUE] ELSE [client EXCEPT !.calls = s.calls]
    /\ UNCHANGED <<roleSent, said>>

Arrives == ~terminal /\ events < MaxEvents /\ events' = events + 1

WithRole(c) == IF roleSent THEN c ELSE [c EXCEPT !.role = @ + 1]

ToolAdded ==
    /\ Arrives
    /\ \E i \in Indexes, item \in Items, text \in Pieces : Becomes(Added(State, i, item, text))

ToolDelta ==
    /\ Arrives /\ \E i \in Indexes, text \in Pieces : Becomes(Delta(State, i, text))

\* The `done` event of the arguments knows the call by its item id and its type.
ArgumentsDone ==
    /\ Arrives
    /\ \E i \in Indexes, item \in Items, text \in Pieces :
          Becomes(Reconcile(State, i, [type |-> item.type, id |-> item.id, call |-> "", name |-> ""],
                            text))

ItemDone ==
    /\ Arrives
    /\ \E i \in Indexes, item \in Items, text \in Pieces : Becomes(Complete(State, i, item, text))

Opened ==
    /\ Arrives /\ ~roleSent /\ client' = WithRole(client) /\ roleSent' = TRUE
    /\ UNCHANGED <<entry, toolCalls, reconciliationFailed, terminal, said>>

TextDelta ==
    /\ Arrives
    /\ client' = [WithRole(client) EXCEPT !.text = @ + 1] /\ roleSent' = TRUE
    /\ UNCHANGED <<entry, toolCalls, reconciliationFailed, terminal, said>>

Failed ==
    /\ ~terminal /\ terminal' = TRUE /\ client' = [client EXCEPT !.error = TRUE]
    /\ UNCHANGED <<entry, roleSent, toolCalls, reconciliationFailed, said, events>>

\* The completed response repeats the calls; an incomplete one is not compared.
Terminal(s, reason, output) ==
    /\ ~terminal /\ terminal' = TRUE /\ said' = output
    /\ entry' = s.entry /\ reconciliationFailed' = s.failed
    /\ toolCalls' = (s.toolCalls \/ output # <<>>)
    /\ IF s.failed THEN client' = [client EXCEPT !.error = TRUE] /\ UNCHANGED roleSent
       ELSE /\ client' = [WithRole(client) EXCEPT
                             !.calls = s.calls,
                             !.finish = IF reason # "completed" THEN reason
                                        ELSE IF toolCalls' THEN "tool_calls" ELSE "stop"]
            /\ roleSent' = TRUE
    /\ UNCHANGED events

\* responsesToChat: the answer to a client that asked for no stream has every call
\* of the response, known by the call's id.
JsonAnswer(output) ==
    [finish |-> IF output = <<>> THEN "stop" ELSE "tool_calls",
     calls |-> [k \in DOMAIN output |->
                 [type |-> output[k].item.type, text |-> output[k].text,
                  id |-> IF output[k].item.call # "" THEN output[k].item.call ELSE output[k].item.id,
                  name |-> IF output[k].item.name # "" THEN output[k].item.name ELSE "tool"]]]

Completed == \E output \in Endings : Terminal(Snapshot(State, output), "completed", output)

Incomplete == \E reason \in {"length", "content_filter"} : Terminal(State, reason, <<>>)

Next ==
    \/ ToolAdded \/ ToolDelta \/ ArgumentsDone \/ ItemDone \/ Opened \/ TextDelta \/ Failed
    \/ Completed \/ Incomplete

Spec == Init /\ [][Next]_vars

-----------------------------------------------------------------------------
Calls == DOMAIN client.calls

\* What the code believes it has sent of each call is what the client has.
ClientHasWhatWasSent ==
    ~client.error => client.calls = entry

\* A stream that finishes left the client with the calls of the final response:
\* none has other arguments, whatever mixture of deltas and snapshots made them.
CallsAreAsTheResponseSays ==
    client.finish \in {"stop", "tool_calls"} =>
        \A k \in DOMAIN said :
            LET i == k - 1
            IN (i \in Calls /\ Shares(said[k].item, client.calls[i].item)) =>
                   client.calls[i].text = said[k].text

\* A call of the final response that can be named is not lost.
NoCallIsLost ==
    client.finish \in {"stop", "tool_calls"} =>
        \A k \in DOMAIN said :
            "" \notin {said[k].item.id, said[k].item.call, said[k].item.name} => k - 1 \in Calls

\* A client that has calls is told so, one that is told it stopped has none; and
\* every finished answer has its role once.
FinishTellsOfCalls ==
    /\ client.finish = "stop" => Calls = {}
    /\ client.finish # "none" => client.role = 1
    /\ ~(client.error /\ client.finish # "none")

\* A client is told the same with a stream as without one: a response that has
\* calls ends both with "tool_calls", and the stream's calls are the answer's.
StreamAndAnswerAgree ==
    client.finish \in {"stop", "tool_calls"} =>
        LET json == JsonAnswer(said)
        IN /\ json.finish = "tool_calls" => client.finish = "tool_calls"
           /\ \A k \in DOMAIN said :
                LET i == k - 1
                IN i \in Calls /\ Shares(said[k].item, client.calls[i].item) =>
                     /\ json.calls[k].text = client.calls[i].text
                     /\ json.calls[k].type = client.calls[i].item.type
                     /\ client.calls[i].item.call \in {"", json.calls[k].id}

ChatIsTold ==
    /\ ClientHasWhatWasSent /\ CallsAreAsTheResponseSays /\ NoCallIsLost
    /\ FinishTellsOfCalls /\ StreamAndAnswerAgree

=============================================================================
