----------------------------- MODULE ChatHistory ----------------------------
(***************************************************************************)
(* The history of a public request on its way to a Codex account           *)
(* (openai-adapters.js adaptChatRequest, adaptResponsesRequest and what    *)
(* they call): chat messages become Responses items, tool calls without an *)
(* id are repaired, instructions are lifted, long call ids are hashed and  *)
(* long texts are split.                                                   *)
(*                                                                         *)
(* An item is its kind, its call id, and the parts of its text; a text is  *)
(* a sequence of characters that take one or more bytes each.  Shapes that *)
(* are refused are one kind, "bad".                                        *)
(***************************************************************************)
EXTENDS Naturals, Sequences, SequencesExt

CONSTANTS
    Histories,      \* the histories clients send, sequences of messages
    Long,           \* the call ids of more than MAX_CHAT_CALL_ID_BYTES
    Hashed,         \* long id -> the id made of its hash
    MaxText, Chunk, \* MAX_CHAT_TEXT_BYTES and CHAT_TEXT_CHUNK_BYTES
    None

VARIABLES
    path,           \* "chat" or "responses"
    continuation,   \* previous_response_id is given
    given,          \* the history as it came
    items,          \* the items it became; "from" is the message it came from
    lifted,         \* the instructions: messages, in order
    stage

vars == <<path, continuation, given, items, lifted, stage>>

Kinds == {"call", "output", "user", "assistant", "system", "reasoning", "reference", "bad"}

TypeOK ==
    /\ path \in {"chat", "responses"} /\ continuation \in BOOLEAN
    /\ stage \in {"received", "items", "repaired", "adapted", "identified", "sent", "refused"}
    /\ \A i \in 1..Len(items) : items[i].kind \in Kinds
    /\ \A i \in 1..Len(lifted) : lifted[i] \in 1..Len(given)

Item(kind, id, parts, from) == [kind |-> kind, id |-> id, parts |-> parts, from |-> from]

Init ==
    /\ path \in {"chat", "responses"}
    /\ continuation \in BOOLEAN /\ (path = "chat" => ~continuation)   \* chat never continues
    /\ given \in Histories
    /\ items = <<>> /\ lifted = <<>>
    /\ stage = "received"

Refuse == stage' = "refused" /\ UNCHANGED <<path, continuation, given, items, lifted>>

-----------------------------------------------------------------------------
(* chatMessagesToResponses *)

\* A message with its tool calls: the text first, then each call.
Translated(m, from) ==
    (IF m.text = <<>> /\ m.calls # <<>> THEN <<>> ELSE <<Item(m.kind, m.id, <<m.text>>, from)>>)
    \o [i \in 1..Len(m.calls) |-> Item("call", m.calls[i], <<>>, from)]

WithoutId(m) == \/ m.kind \in {"call", "output"} /\ m.id = None
                \/ None \in ToSet(m.calls)

\* Chat refuses what has no id; a Responses history already is items.
Translate ==
    /\ stage = "received"
    /\ IF \E i \in 1..Len(given) : given[i].kind = "bad" \/ (path = "chat" /\ WithoutId(given[i]))
       THEN Refuse
       ELSE /\ items' = FlattenSeq([i \in 1..Len(given) |-> Translated(given[i], i)])
            /\ stage' = "items"
            /\ UNCHANGED <<path, continuation, given, lifted>>

-----------------------------------------------------------------------------
(* normalizeInput *)

\* repairReplayCallIds: a result without an id behind a call that has one.
Repaired ==
    [i \in 1..Len(items) |->
       IF /\ i > 1 /\ items[i].kind = "output" /\ items[i].id = None
          /\ items[i - 1].kind = "call" /\ items[i - 1].id # None
       THEN [items[i] EXCEPT !.id = items[i - 1].id] ELSE items[i]]

\* Reasoning is only replayed in a continuation, which must bring a result;
\* references only make sense there.
Repair ==
    /\ stage = "items"
    /\ LET kept == SelectSeq(Repaired, LAMBDA x : continuation \/ x.kind # "reasoning")
           results == \E i \in 1..Len(kept) : kept[i].kind = "output"
       IN IF \/ \E i \in 1..Len(kept) : kept[i].kind \in {"call", "output"} /\ kept[i].id = None
             \/ continuation /\ ~results
             \/ \E i \in 1..Len(kept) : kept[i].kind = "reference" /\ ~continuation
          THEN Refuse
          ELSE /\ items' = kept
               /\ stage' = "repaired"
               /\ UNCHANGED <<path, continuation, given, lifted>>

\* liftInstructions.
Lift ==
    /\ stage = "repaired"
    /\ LET system == SelectSeq(items, LAMBDA x : x.kind = "system")
       IN /\ lifted' = [i \in 1..Len(system) |-> system[i].from]
          /\ items' = SelectSeq(items, LAMBDA x : x.kind # "system")
    /\ stage' = IF path = "chat" THEN "adapted" ELSE "sent"
    /\ UNCHANGED <<path, continuation, given>>

-----------------------------------------------------------------------------
(* normalizeChatHistory *)

NormalId(id) == IF id \in Long THEN Hashed[id] ELSE id
Tools == {i \in 1..Len(items) : items[i].kind \in {"call", "output"}}

\* Mutant: ids that come to be the same are let through.
NothingCollides == FALSE

Collide == \E i, j \in Tools : items[i].id # items[j].id /\ NormalId(items[i].id) = NormalId(items[j].id)

Identify ==
    /\ stage = "adapted"
    /\ IF Collide THEN Refuse
       ELSE /\ items' = [i \in 1..Len(items) |->
                           IF i \in Tools THEN [items[i] EXCEPT !.id = NormalId(@)] ELSE items[i]]
            /\ stage' = "identified"
            /\ UNCHANGED <<path, continuation, given, lifted>>

Bytes(text) == FoldSeq(LAMBDA c, sum : sum + c, 0, text)

\* splitChatPart: parts of at most Chunk bytes that end between characters.
SplitAt(text, start) ==
    LET fits == {n \in start..Len(text) : Bytes(SubSeq(text, start, n)) <= Chunk}
    IN CHOOSE n \in fits : \A k \in fits : k <= n

Pieces(text) ==
    LET cuts[start \in 1..(Len(text) + 1)] ==
          IF start > Len(text) THEN <<>>
          ELSE <<SubSeq(text, start, SplitAt(text, start))>> \o cuts[SplitAt(text, start) + 1]
    IN cuts[1]

Split(parts) ==
    FlattenSeq([i \in 1..Len(parts) |-> IF Bytes(parts[i]) <= MaxText THEN <<parts[i]>> ELSE Pieces(parts[i])])

\* The texts that were lifted, joined.
Instructions == FlattenSeq([i \in 1..Len(lifted) |-> given[lifted[i]].text])

\* Instructions too long to be sent as such lead the history instead.
SplitTexts ==
    /\ stage = "identified"
    /\ LET split == [i \in 1..Len(items) |-> [items[i] EXCEPT !.parts = Split(@)]]
           long == Bytes(Instructions) > MaxText
           first == Item("system", None, Split(<<Instructions>>), 0)
       IN /\ items' = (IF long THEN <<first>> ELSE <<>>) \o split
          /\ lifted' = IF long THEN <<>> ELSE lifted
    /\ stage' = "sent"
    /\ UNCHANGED <<path, continuation, given>>

Next == Translate \/ Repair \/ Lift \/ Identify \/ SplitTexts

Spec == Init /\ [][Next]_vars

-----------------------------------------------------------------------------

\* The calls and results of the history, each with the id the client meant:
\* a result without one belongs to the call in front of it.
Tooling(seq) == SelectSeq(seq, LAMBDA x : x.kind \in {"call", "output"})

Meant ==
    LET all == FlattenSeq([i \in 1..Len(given) |-> Translated(given[i], i)])
        id(i) == IF all[i].id = None /\ i > 1 THEN all[i - 1].id ELSE all[i].id
    IN Tooling([i \in 1..Len(all) |-> [all[i] EXCEPT !.id = id(i)]])

Arrived == Tooling(items)

TextOf(from) ==
    FlattenSeq([i \in 1..Len(items) |->
                  IF items[i].from = from /\ items[i].kind # "call" THEN FlattenSeq(items[i].parts) ELSE <<>>])

(* A history arrives as the client meant it: calls and results are all      *)
(* there, in order, and two of them share an id exactly when they did,     *)
(* whatever ids were missing, hashed or collided; no text of a message     *)
(* loses or doubles a character where it was split, and no part of it is   *)
(* too long (openai-adapters.js repairReplayCallIds, normalizeChatHistory, *)
(* splitChatPart).                                                         *)
HistoryIsKept ==
    stage = "sent" =>
      /\ Len(Arrived) = Len(Meant)
      /\ \A i \in 1..Len(Meant) : Arrived[i].kind = Meant[i].kind /\ Arrived[i].from = Meant[i].from
      /\ \A i, j \in 1..Len(Meant) : Meant[i].id = Meant[j].id <=> Arrived[i].id = Arrived[j].id
      /\ \A n \in 1..Len(given) :
           given[n].kind \in {"user", "assistant", "output"} => TextOf(n) = given[n].text
      /\ path = "chat" => \A i \in 1..Len(items) : \A t \in ToSet(items[i].parts) : Bytes(t) <= MaxText
=============================================================================
