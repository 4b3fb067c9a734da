-------------------------- MODULE ResponsesStream --------------------------
(***************************************************************************)
(* The public projection of a Responses stream: normalizePublicResponses-  *)
(* Event (openai-streaming.js) and the correlation of tool calls behind it *)
(* (responses-stream-integrity.js). An upstream may send items in any      *)
(* order, with or without identities; a completion is passed on only when  *)
(* its tool calls add up.                                                  *)
(*                                                                         *)
(* An event names an item's id and its call's id at most once each. Texts, *)
(* usage, sequence numbers and the prefix of a terminal event are left out.*)
(***************************************************************************)
EXTENDS Integers, SequencesExt, FiniteSets

CONSTANTS
    Indexes,          \* output_index of the upstream's items
    Items,            \* item ids
    Calls,            \* call ids
    None,
    MaxTools,         \* the 4096 of observeResponsesIntegrity
    MaxEvents         \* bound on the upstream's events

ResponsesStreamAssumption ==
    /\ Indexes \subseteq Nat
    /\ None \notin Items \cup Calls
    /\ Items \cap Calls = {}
    /\ {MaxTools, MaxEvents} \subseteq Nat

VARIABLES
    tools, aliases, failure,   \* state.integrity
    history,          \* the upstream's tool events, while they add up
    ended             \* how the client's stream ended

integrity == <<tools, aliases, failure>>
vars == <<integrity, history, ended>>

-----------------------------------------------------------------------------
(* Events *)

Kinds == {"function_call", "custom_tool_call", "function_call_output", "message"}
ToolKinds == {"function_call", "custom_tool_call"}

\* index -1: not a safe integer, or negative.
Event == {e \in [phase : {"add", "payload", "done"}, kind : Kinds, index : Indexes \cup {-1},
                 item : Items \cup {None}, call : Calls \cup {None}, finished : BOOLEAN] :
              /\ e.finished \/ e.phase = "done"
              /\ e.phase = "payload" => e.kind \in ToolKinds}

Names(e) == {e.item, e.call} \ {None}

-----------------------------------------------------------------------------
(* observeResponsesIntegrity *)

NoTool == [kind |-> "none", item |-> None, call |-> None, done |-> FALSE]
Tracks(i) == i \in Indexes /\ tools[i] # NoTool
Aliased(name) == aliases[name] # -1
Compatible(a, b) == a = None \/ b = None \/ a = b

Ignored(e) ==
    \/ failure # "none"
    \/ e.kind \notin ToolKinds /\ ~ Tracks(e.index) /\ \A n \in Names(e) : ~ Aliased(n)

Fails(reason) == failure' = reason /\ UNCHANGED <<tools, aliases>>

Note(e, tool) ==
    /\ tools' = [tools EXCEPT ![e.index] = tool]
    /\ aliases' = [n \in DOMAIN aliases |-> IF n \in Names(e) THEN e.index ELSE aliases[n]]
    /\ UNCHANGED failure

\* mutant: a name that another tool bears is taken
SameToolAnyName(e) ==
    LET tool == tools[e.index] IN
    /\ tool.kind = e.kind /\ ~ tool.done
    /\ Compatible(tool.call, e.call)
    /\ \/ e.item = None \/ e.item = tool.item
       \/ e.phase = "done" /\ tool.item = None /\ e.call # None /\ e.call = tool.call
    /\ e.phase = "done" => e.finished

\* A second sign of the tool: it must be its own, and name it.
SameTool(e) ==
    LET tool == tools[e.index] IN
    /\ tool.kind = e.kind /\ ~ tool.done
    /\ Compatible(tool.call, e.call)
    /\ \/ e.item = None \/ e.item = tool.item
       \/ e.phase = "done" /\ tool.item = None /\ e.call # None /\ e.call = tool.call
    /\ \/ e.item # None /\ e.item = tool.item
       \/ e.call # None /\ e.call = tool.call
    /\ \A n \in Names(e) : aliases[n] \in {-1, e.index}
    /\ e.phase = "done" => e.finished

Observe(e) ==
    IF Ignored(e) THEN UNCHANGED integrity
    ELSE IF e.index = -1 \/ Names(e) = {} THEN Fails("invalid_tool_correlation")
    ELSE IF e.kind = "function_call_output"
         THEN IF Tracks(e.index) \/ (e.item # None /\ Aliased(e.item))
              THEN Fails("invalid_tool_correlation") ELSE UNCHANGED integrity
    ELSE IF e.kind \notin ToolKinds THEN Fails("invalid_tool_correlation")
    ELSE IF e.phase = "add"
         THEN IF Tracks(e.index) \/ \E n \in Names(e) : Aliased(n)
              THEN Fails("invalid_tool_correlation")
              ELSE IF Cardinality({i \in Indexes : Tracks(i)}) >= MaxTools
              THEN Fails("tool_tracking_overflow")
              ELSE Note(e, [kind |-> e.kind, item |-> e.item, call |-> e.call, done |-> FALSE])
    ELSE IF ~ Tracks(e.index) \/ ~ SameTool(e) THEN Fails("invalid_tool_correlation")
    ELSE LET tool == tools[e.index] IN
         Note(e, [tool EXCEPT !.item = IF @ = None THEN e.item ELSE @,
                              !.call = IF @ = None THEN e.call ELSE @,
                              !.done = e.phase = "done"])

\* responsesCompletionFailure
CompletionFailure == failure # "none" \/ \E i \in Indexes : Tracks(i) /\ ~ tools[i].done

-----------------------------------------------------------------------------
(* normalizePublicResponsesEvent *)

\* After a failure nothing is observed any more, and the history is over.
Tool(e) ==
    /\ Len(history) < MaxEvents
    /\ Observe(e)
    /\ history' = IF failure' = "none" /\ e.kind \in ToolKinds THEN Append(history, e) ELSE history
    /\ UNCHANGED ended

\* response.completed, passed on or turned into a failure
Completed ==
    /\ ended' = IF CompletionFailure THEN "failed" ELSE "completed"
    /\ UNCHANGED <<integrity, history>>

\* response.incomplete and response.failed are not held against the tools.
EndedOtherwise ==
    /\ ended' \in {"incomplete", "failed"}
    /\ UNCHANGED <<integrity, history>>

-----------------------------------------------------------------------------
(* Specification *)

Init ==
    /\ tools = [i \in Indexes |-> NoTool]
    /\ aliases = [n \in Items \cup Calls |-> -1]
    /\ failure = "none"
    /\ ended = "no"
    /\ history = <<>>

Next ==
    /\ ended = "no"
    /\ (\E e \in Event : Tool(e)) \/ Completed \/ EndedOtherwise

Spec == Init /\ [][Next]_vars

-----------------------------------------------------------------------------
(* Properties *)

TypeOK ==
    /\ \A i \in Indexes : tools[i].kind \in ToolKinds \cup {"none"} /\ tools[i].done \in BOOLEAN
    /\ aliases \in [Items \cup Calls -> Indexes \cup {-1}]
    /\ failure \in {"none", "invalid_tool_correlation", "tool_tracking_overflow"}
    /\ ended \in {"no", "completed", "incomplete", "failed"}
    /\ history \in Seq(Event)

\* The tool events at one index, in order.
At(i) == SelectSeq(history, LAMBDA e : e.index = i /\ e.kind \in ToolKinds)
Named(i, field) == {At(i)[k][field] : k \in DOMAIN At(i)} \ {None}

\* One call at an index: announced, filled and finished once, under one name.
OneCall(i) ==
    LET events == At(i) IN
    /\ events[1].phase = "add"
    /\ \A k \in 2 .. Len(events) : events[k].phase = (IF k = Len(events) THEN "done" ELSE "payload")
    /\ Len(events) > 1 /\ Last(events).finished
    /\ \A j, k \in DOMAIN events : events[j].kind = events[k].kind
    /\ \A field \in {"item", "call"} : Cardinality(Named(i, field)) <= 1

ToolsAddUp ==
    /\ \A k \in DOMAIN history : history[k].kind \in ToolKinds => history[k].index # -1
    /\ \A i \in Indexes : At(i) # <<>> => OneCall(i)
    /\ \A i, j \in Indexes, field \in {"item", "call"} :
           i # j => Named(i, field) \cap Named(j, field) = {}

\* The client is told of a completion only when the tool calls it was shown
\* add up: one call to an index, one index to a name, each call finished
\* (observeResponsesIntegrity, responsesCompletionFailure).
CompletionIsCertified == ended = "completed" => ToolsAddUp

=============================================================================
