------------------------------- MODULE Compaction -------------------------------
(***************************************************************************)
(* A compaction that a client triggers with the last item of an input      *)
(* (proxy.js, prepareCompactionTriggerBridge), the events in which the     *)
(* provider answers it (collectV2CompactionResponse) and the item that the *)
(* client gets for its whole history (compactionBridgeResult).  What is    *)
(* lost here is lost for the rest of the conversation.                     *)
(***************************************************************************)
EXTENDS Naturals, Sequences, SequencesExt

CONSTANTS
    None,               \* no request, result or item
    MaxInput, MaxEvents \* bounds

VARIABLES
    public,     \* /v1/responses, or the native route
    input,      \* the client's items
    sent,       \* the items the provider is given; None for no compaction
    events,     \* history: the blocks the provider sent
    item, terminal, quota, invalid,     \* what was collected of them
    result      \* None until the input is refused or the stream ends

vars == <<public, input, sent, events, item, terminal, quota, invalid, result>>

\* "visible" says something that a compaction could keep.
Items == {"visible", "reasoning", "blank", "compaction_trigger"}

\* What a compaction item holds; "other" is an item of another type.
Contents == {"text", "blank", "missing"}
Outputs == UNION {[1 .. n -> Contents \cup {"other"}] : n \in 0 .. 2}

\* The response of response.completed.
Responses == [output : Outputs, summary : Contents \cup {None}]

Event(type, content, response) == [type |-> type, content |-> content, response |-> response]
Events ==
    {Event("response.output_item.done", c, None) : c \in Contents}
        \cup {Event("response.completed", None, r) : r \in Responses}
        \cup {Event(t, None, None) : t \in {"delta", "quota", "failure", "dropped", "comment"}}

TypeOK ==
    /\ public \in BOOLEAN /\ quota \in BOOLEAN /\ invalid \in BOOLEAN
    /\ input \in Seq(Items) /\ sent # None => sent \in Seq(Items)
    /\ events \in Seq(Events) /\ item \in Contents \cup {None}
    /\ terminal \in Responses \cup {None}
    /\ result \in {None, "refused", "quota", "failed", "text", "blank"}

Init ==
    /\ public \in BOOLEAN
    /\ input \in UNION {[1 .. n -> Items] : n \in 0 .. MaxInput}
    /\ sent = None /\ events = <<>> /\ item = None /\ terminal = None
    /\ quota = FALSE /\ invalid = FALSE /\ result = None

-----------------------------------------------------------------------------
Trigger == "compaction_trigger"
TriggerIndexes == {i \in DOMAIN input : input[i] = Trigger}

\* A native client may ask with the trigger alone: its history is the provider's.
Singleton == ~public /\ input = <<Trigger>>

Legal == Singleton \/ (TriggerIndexes = {Len(input)} /\ Contains(Front(input), "visible"))

Bridge ==
    /\ sent = None /\ result = None /\ TriggerIndexes # {}
    /\ IF Legal
       THEN sent' = (IF public THEN input ELSE Front(input)) /\ UNCHANGED result
       ELSE result' = "refused" /\ UNCHANGED sent
    /\ UNCHANGED <<public, input, events, item, terminal, quota, invalid>>

-----------------------------------------------------------------------------
Collecting == sent # None /\ result = None

\* Nothing may follow the end, and nothing that cannot be read may come at all.
Acceptable(e) == e.type # "dropped" /\ terminal = None /\ ~quota

Collect ==
    /\ Collecting /\ Len(events) < MaxEvents
    /\ \E e \in Events :
        /\ events' = Append(events, e)
        /\ IF e.type = "comment" THEN UNCHANGED <<item, terminal, quota, invalid>>
           ELSE /\ invalid' = (invalid \/ ~Acceptable(e) \/ e.type = "failure")
                /\ item' = IF Acceptable(e) /\ e.type = "response.output_item.done" /\ item = None
                           THEN e.content ELSE item
                /\ terminal' = IF Acceptable(e) /\ e.type = "response.completed" THEN e.response ELSE terminal
                /\ quota' = (quota \/ (Acceptable(e) /\ e.type = "quota"))
    /\ UNCHANGED <<public, input, sent, result>>

\* compactionBridgeResult
Valid(content) == content = "text" \/ (~public /\ content = "blank")

Source(outputs, summary) ==
    LET Found == SelectSeq(outputs, LAMBDA c : c # "other" /\ (public \/ Valid(c)))
    IN IF Found # <<>> THEN (IF Valid(Found[1]) THEN Found[1] ELSE "failed")
       ELSE IF summary # None /\ Valid(summary) THEN summary ELSE "failed"

\* The stream's end; one that broke or overflowed is a failure whatever came.
End ==
    /\ Collecting
    /\ \E broken \in BOOLEAN :
        result' = IF broken \/ invalid THEN "failed"
                  ELSE IF quota THEN "quota"
                  ELSE IF terminal = None THEN "failed"
                  ELSE Source(IF item # None THEN <<item>> ELSE terminal.output, terminal.summary)
    /\ UNCHANGED <<public, input, sent, events, item, terminal, quota, invalid>>

Next == Bridge \/ Collect \/ End

Spec == Init /\ [][Next]_vars

-----------------------------------------------------------------------------
\* What the provider compacts is everything the client said before its trigger,
\* and some of it can be seen (proxy.js:697, "must be the final input item and
\* must follow visible input").
NothingIsCompactedAway ==
    sent # None =>
        LET said == SelectSeq(sent, LAMBDA i : i # Trigger)
        IN /\ said = Front(input)
           /\ Contains(said, "visible") \/ (~public /\ said = <<>>)

Data == SelectSeq(events, LAMBDA e : e.type # "comment")

\* The client's history is replaced only by a compaction of a stream that said
\* it was complete, once and last, and never failed; and by the item that the
\* stream showed first, where it showed one. A limit is told as a limit only when
\* nothing contradicts it.
ReplacedByAWhole ==
    /\ result \in {"text", "blank"} =>
        /\ {i \in DOMAIN Data : Data[i].type = "response.completed"} = {Len(Data)}
        /\ \A e \in Range(Data) : e.type \notin {"failure", "quota", "dropped"}
        /\ LET shown == SelectSeq(Data, LAMBDA e : e.type = "response.output_item.done")
           IN shown # <<>> /\ Valid(shown[1].content) => result = shown[1].content
        /\ public => result = "text"
    /\ result = "quota" =>
        /\ Data # <<>> /\ Last(Data).type = "quota"
        /\ \A e \in Range(Front(Data)) : e.type \in {"delta", "response.output_item.done"}
=============================================================================
