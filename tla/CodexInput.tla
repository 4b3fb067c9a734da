------------------------------ MODULE CodexInput ------------------------------
(***************************************************************************)
(* What becomes of a Responses request on its way to a Codex account, and  *)
(* of a Messages request on its way to Compass (proxy.js projectProxyRequest*)
(* and projectPublicWebSocketFrame, codex-compatibility.js): native input  *)
(* is cleaned, the outputs of delegations without a call become messages,  *)
(* the namespace of the collaboration tools is renamed and renamed back in *)
(* the answer, ids get the prefix of their type and are shortened, the     *)
(* efforts of all dialects become one, and the optional fields that the    *)
(* provider rejects are left out when the request is sent again.           *)
(***************************************************************************)
EXTENDS Integers, Sequences, SequencesExt, FiniteSets, FiniteSetsExt

CONSTANTS
    Requests,           \* what clients send: items, namespaces, efforts and fields
    Prefix,             \* by type of item, the prefix of its ids (ID_PREFIXES)
    Extends,            \* prefixes that begin with another: pairs of names
    Size,               \* by base, the length of an id without prefixes
    MaxId,              \* MAX_INPUT_ITEM_ID_LENGTH; a prefix has length 1
    CodexOptional, CompassOptional,     \* the optional fields of each provider
    Absent, None

SizesFit == MaxId > 1 /\ \A b \in DOMAIN Size : Size[b] > 0

VARIABLES
    given,      \* the request of the client, and the provider and transport it goes by
    fact,       \* the fields learned for the account and route that are in force
    evidence,   \* what was learned once: [field, value]
    compat,     \* the fields that this request does without
    sent,       \* the requests sent to the provider, in order
    rejected,   \* history: what the provider answered to each but the last
    answer      \* what the client is told, or None

vars == <<given, fact, evidence, compat, sent, rejected, answer>>

-----------------------------------------------------------------------------
\* Ids are [names, base, hash]: the prefixes before the base, and what was
\* appended when it was shortened, [attempt, names]: an id is MaxId long then.
Length(id) ==
    IF id.hash = <<>> THEN Len(id.names) + Size[id.base]
    ELSE MaxId + Len(id.names) - Last(id.hash).names
Long(id) == Length(id) > MaxId

\* startsWith knows no underscore: "ctco" also begins with "ctc".
Begins(id, name) == id.names # <<>> /\ (id.names[1] = name \/ <<id.names[1], name>> \in Extends)

\* normalizeItemId.
Normalized(item) ==
    IF item.type \notin DOMAIN Prefix \/ Begins(item.id, Prefix[item.type]) THEN item.id
    ELSE [item.id EXCEPT !.names = <<Prefix[item.type]>> \o @]

\* shortenItemId: the first attempt that is not taken.
Attempt(id, k) == [id EXCEPT !.hash = Append(@, [attempt |-> k, names |-> Len(id.names)])]
Shortened(id, occupied) ==
    Attempt(id, CHOOSE k \in 0 .. Cardinality(occupied) :
        Attempt(id, k) \notin occupied /\ \A l \in 0 .. k - 1 : Attempt(id, l) \in occupied)

\* sanitizeCodexInputItemIds.
Unnameable(item) == item.type = "reasoning" /\ item.id # None /\ Long(item.id) /\ item.enc

Identified(items) ==
    LET kept == SelectSeq(items, LAMBDA x : ~Unnameable(x))
        named == {x \in ToSet(kept) : x.id # None}
        preserved == {x.id : x \in {y \in named : Normalized(y) = y.id /\ ~Long(y.id)}}
        short == {n \in {Normalized(x) : x \in named} : ~Long(n)}
        Take(acc, x) ==
            LET next == Normalized(x)
                clash == next # x.id /\ next \in preserved
                apart == IF clash THEN Shortened(next, acc.occupied) ELSE next
                occupied == acc.occupied \cup (IF clash THEN {apart} ELSE {})
                known == {p \in acc.mapped : p[1] = apart}
                final == CASE ~Long(apart) -> apart
                           [] known # {} -> (CHOOSE p \in known : TRUE)[2]
                           [] OTHER -> Shortened(apart, occupied)
            IN IF x.id = None THEN [acc EXCEPT !.out = Append(@, x)]
               ELSE [out      |-> Append(acc.out, [x EXCEPT !.id = final]),
                     occupied |-> occupied \cup (IF Long(apart) THEN {final} ELSE {}),
                     mapped   |-> acc.mapped \cup (IF Long(apart) THEN {<<apart, final>>} ELSE {})]
    IN FoldLeft(Take, [out |-> <<>>, occupied |-> short, mapped |-> {}], kept).out

-----------------------------------------------------------------------------
\* cleanNativeInputItem: an id that is not of the form prefix_rest is dropped.
CleanItem(item) ==
    IF item.type \in {"compaction", "reference"} \/ item.id = None \/ item.id.names # <<>>
    THEN item ELSE [item EXCEPT !.id = None]

\* normalizeNativeCodexInput.
NativeItems(items) ==
    LET kept == SelectSeq(items, LAMBDA x : ~(x.content = "null" /\ x.enc))
    IN [i \in DOMAIN kept |-> CleanItem(kept[i])]

\* nativeToolResultContinuation.
Continues(g) == g.previous /\ \E i \in DOMAIN g.items : g.items[i].type = "output"

\* rewriteOrphanDelegation: an output takes one of the calls with its id.
Delegated(items) ==
    LET Calls(c) == Cardinality({i \in DOMAIN items : items[i].type = "call" /\ items[i].call = c})
        Taken(c, k) == Cardinality({i \in 1 .. k - 1 : items[i].type = "output" /\ items[i].call = c})
    IN [i \in DOMAIN items |->
          IF items[i].type = "output" /\ items[i].app /\ Taken(items[i].call, i) >= Calls(items[i].call)
          THEN [items[i] EXCEPT !.type = "message", !.id = None, !.call = None, !.app = FALSE]
          ELSE items[i]]

\* rewriteAgentMessageContent.
Opened(items) ==
    [i \in DOMAIN items |->
       IF items[i].type = "agent" /\ items[i].content = "sealed"
       THEN [items[i] EXCEPT !.content = "text"] ELSE items[i]]

\* renameCollaborationNamespace, of namespaces [name, spawn].
Collaboration(space) == space.name = "collaboration" /\ space.spawn
Renamed(spaces) ==
    [i \in DOMAIN spaces |->
       IF Collaboration(spaces[i]) THEN [spaces[i] EXCEPT !.name = "optimize"] ELSE spaces[i]]

\* prepareCodexMultiAgentRequest, with what was renamed.
Optimizes(g) == g.official /\ g.optimize /\ \E i \in DOMAIN g.spaces : Collaboration(g.spaces[i])
MultiAgent(g, items) ==
    LET delegated == IF g.official /\ g.orphans /\ g.subagent THEN Delegated(items) ELSE items
    IN IF g.official /\ g.optimize THEN Opened(delegated) ELSE delegated
Spaces(g) == IF g.official /\ g.optimize THEN Renamed(g.spaces) ELSE g.spaces

\* restoreCodexMultiAgentResponse: of calls, not of what calls say.
Restored(g, called) ==
    IF Optimizes(g) /\ called.kind = "call" /\ called.name = "optimize"
    THEN [called EXCEPT !.name = "collaboration"] ELSE called

-----------------------------------------------------------------------------
\* extractNativeReasoningEffort: the first dialect that is present decides, also
\* by saying nothing; minimal and ultra have other names.
Wire(effort) ==
    CASE effort = "minimal" -> "low"
      [] effort = "ultra" -> "max"
      [] OTHER -> effort
Effort(g) ==
    LET present == SelectSeq(g.effort, LAMBDA e : e # Absent)
    IN IF present = <<>> THEN None ELSE Wire(present[1])

Optional(g) == IF g.provider = "codex" THEN CodexOptional ELSE CompassOptional

\* omitCompatibilityFields.
Omitted(g, unsupported) == g.fields \ (unsupported \cap Optional(g))

\* projectProxyRequest and projectPublicWebSocketFrame; directUpstreamPayload
\* makes enabled thinking adaptive.
Projected(g, unsupported) ==
    LET codex == g.provider = "codex"
        items == IF codex /\ g.native THEN NativeItems(g.items) ELSE g.items
    IN [items    |-> IF codex THEN Identified(MultiAgent(g, items)) ELSE items,
        spaces   |-> IF codex THEN Spaces(g) ELSE g.spaces,
        effort   |-> IF codex THEN Effort(g) ELSE None,
        previous |-> IF codex /\ g.native THEN Continues(g) ELSE g.previous,
        adaptive |-> ~codex /\ g.thinking,
        fields   |-> Omitted(g, unsupported)]

Init ==
    /\ given \in Requests
    /\ fact \in {{}} \cup {{f} : f \in Optional(given) \cap given.fields}
    /\ evidence = {} /\ rejected = <<>> /\ answer = None
    /\ compat = [fields |-> fact, adaptive |-> FALSE]
    /\ sent = <<Projected(given, fact)>>

\* COMPATIBILITY_RETRY_LIMIT.
RetryLimit == Max({Cardinality(CodexOptional), Cardinality(CompassOptional) + 1})

\* observe: what is learned a second time is in force from then on.
Observe(lesson) ==
    /\ evidence' = evidence \cup {lesson}
    /\ fact' = IF lesson \in evidence THEN lesson.value ELSE fact

Again(told, new) ==
    /\ compat' = new
    /\ rejected' = Append(rejected, told)
    /\ sent' = Append(sent, Projected(given, new.fields))

Open == answer = None /\ Len(sent) <= RetryLimit

\* Providers reject fields that they were sent.  compatibilityFallback: the
\* request goes out again without the field, and without those it did without.
Rejectable(f, known) == f \in (Optional(given) \cap Last(sent).fields) \ known

HttpRejected(f) ==
    /\ Open /\ given.via = "http"
    /\ Rejectable(f, compat.fields)
    /\ LET new == [compat EXCEPT !.fields = @ \cup {f}]
       IN Again(f, new) /\ Observe([field |-> f, value |-> new.fields])
    /\ UNCHANGED <<given, answer>>

\* retryPublicWebSocketCompatibility: without the field, and without those that
\* a fact in force names.
SocketRejected(f) ==
    /\ Open /\ given.via = "websocket"
    /\ Rejectable(f, fact)
    /\ LET new == [compat EXCEPT !.fields = fact \cup {f}]
       IN Again(f, new) /\ Observe([field |-> f, value |-> new.fields])
    /\ UNCHANGED <<given, answer>>

\* Compass asks for adaptive thinking.
AdaptiveRequired ==
    /\ Open /\ given.provider = "compass" /\ given.thinking /\ ~compat.adaptive
    /\ Again("adaptive", [compat EXCEPT !.adaptive = TRUE])
    /\ UNCHANGED <<given, fact, evidence, answer>>

\* The provider answers: with a call of a tool in one of the namespaces it was
\* given or a text that names one, or an error that the client is told.
Answered ==
    /\ answer = None
    /\ \/ \E i \in DOMAIN Last(sent).spaces, kind \in {"call", "arguments"} :
            answer' = [kind |-> kind, name |-> Last(sent).spaces[i].name, space |-> i,
                       told |-> Restored(given, [kind |-> kind, name |-> Last(sent).spaces[i].name]).name]
       \/ \E f \in Last(sent).fields :
            /\ ~(Len(sent) <= RetryLimit
                   /\ Rejectable(f, IF given.via = "http" THEN compat.fields ELSE fact))
            /\ answer' = [kind |-> "rejected", field |-> f]
    /\ UNCHANGED <<given, fact, evidence, compat, sent, rejected>>

Next ==
    \/ \E f \in CodexOptional \cup CompassOptional : HttpRejected(f) \/ SocketRejected(f)
    \/ AdaptiveRequired \/ Answered

Spec == Init /\ [][Next]_vars

TypeOK ==
    /\ given.provider \in {"codex", "compass"} /\ given.via \in {"http", "websocket"}
    /\ fact \subseteq Optional(given) /\ compat.fields \subseteq Optional(given)
    /\ compat.adaptive \in BOOLEAN
    /\ \A l \in evidence : l.field \in l.value /\ l.value \subseteq Optional(given)
    /\ Len(rejected) = Len(sent) - 1 /\ Len(sent) \in 1 .. RetryLimit + 1

-----------------------------------------------------------------------------
Codex == given.provider = "codex"
Arrived == sent[1].items

\* Where the item sent at i was in the input of the client: what is left out is
\* left out for its own sake.
LeftOut(item) ==
    \/ given.native /\ item.content = "null" /\ item.enc
    \/ item.type = "reasoning" /\ item.enc /\ item.id # None /\ Long(item.id)
         /\ ~(given.native /\ item.id.names = <<>>)
Kept == SelectSeq(given.items, LAMBDA x : ~LeftOut(x))
Acceptable(item) ==
    /\ item.id # None /\ ~Long(item.id)
    /\ given.native => item.id.names # <<>>
    /\ item.type \in DOMAIN Prefix => Begins(item.id, Prefix[item.type])

(* An input arrives whole and in order: each item as itself, or an output  *)
(* of a delegation whose call is not there as a message; and with an id    *)
(* that the provider accepts, its own if that was acceptable (proxy.js     *)
(* normalizeNativeCodexInput; codex-compatibility.js                       *)
(* rewriteOrphanDelegation, sanitizeCodexInputItemIds).                    *)
InputIsWhole ==
    Codex =>
      /\ Len(Arrived) = Len(Kept)
      /\ \A i \in DOMAIN Arrived :
           LET x == Kept[i]
               y == Arrived[i]
           IN /\ \/ y.type = x.type /\ y.call = x.call /\ y.enc = x.enc
                 \/ x.type = "output" /\ x.app /\ y.type = "message" /\ y.id = None
              /\ y.id # None => ~Long(y.id) /\ (y.type \in DOMAIN Prefix => Begins(y.id, Prefix[y.type]))
              /\ Acceptable(x) /\ y.type = x.type => y.id = x.id

(* Ids that were apart stay apart, but for long ids of one type that are   *)
(* the same with its prefix; an id that was given twice stays one.         *)
IdsStayApart ==
    Codex => \A i, j \in DOMAIN Arrived :
      LET x == Kept[i]
          y == Kept[j]
      IN (Arrived[i].id # None /\ Arrived[j].id # None) =>
           /\ Arrived[i].id = Arrived[j].id =>
                \/ x.id = y.id
                \/ Normalized(x) = Normalized(y) /\ Long(Normalized(x))
           /\ x.type = y.type /\ x.id = y.id /\ Acceptable(x) => Arrived[i].id = Arrived[j].id

(* A delegation that is asked for leaves no output without a call, and     *)
(* none that has one becomes a message: as many outputs of a call's id as  *)
(* there are calls (codex-compatibility.js rewriteOrphanDelegation).       *)
OutputsHaveCalls ==
    Codex /\ given.official /\ given.orphans /\ given.subagent =>
      \A c \in {x.call : x \in ToSet(given.items)} :
        LET Count(s, type) == Cardinality({i \in DOMAIN s : s[i].type = type /\ s[i].call = c})
            calls == Count(Kept, "call")
            app == \A x \in ToSet(Kept) : x.type = "output" /\ x.call = c => x.app
        IN /\ Count(Arrived, "output") >= Min({calls, Count(Kept, "output")})
           /\ app => Count(Arrived, "output") <= calls

(* Whatever tool the provider calls, the client is told of the namespace   *)
(* it gave, unless it gave one under the gateway's own name besides; what a*)
(* call says is left alone (codex-compatibility.js                         *)
(* restoreCodexMultiAgentResponse).                                        *)
NamesComeBack ==
    (answer # None /\ answer.kind \in {"call", "arguments"}) =>
      /\ answer.kind = "call" /\ ~(\E s \in ToSet(given.spaces) : s.name = "optimize") =>
           answer.told = given.spaces[answer.space].name
      /\ answer.kind = "arguments" => answer.told = answer.name

(* A request that is sent again is another one: it does without the field  *)
(* that was rejected, and never without one that no rejection named.  Over *)
(* HTTP no field is rejected twice, and the client is told of a rejection  *)
(* only if the field was not optional (proxy.js compatibilityFallback,     *)
(* COMPATIBILITY_RETRY_LIMIT).  (A demand for adaptive thinking has the    *)
(* same request sent again: it was adaptive already.)                      *)
RetriesLearn ==
    /\ \A i \in DOMAIN rejected :
         rejected[i] # "adaptive" => rejected[i] \in sent[i].fields \ sent[i + 1].fields
    /\ \A i \in DOMAIN sent :
         given.fields \ sent[i].fields \subseteq
           (given.fields \ sent[1].fields) \cup {rejected[j] : j \in 1 .. i - 1}
    /\ given.via = "http" =>
         /\ \A i, j \in DOMAIN rejected : i < j => rejected[i] # rejected[j]
         /\ (answer # None /\ answer.kind = "rejected") => answer.field \notin Optional(given)

(* An effort that the client names in one dialect only arrives, under the  *)
(* provider's name (proxy.js normalizeReasoningAliases).                   *)
EffortArrives ==
    Codex => \A e \in {given.effort[k] : k \in DOMAIN given.effort} \ {Absent} :
      {given.effort[k] : k \in DOMAIN given.effort} \subseteq {Absent, e} => sent[1].effort = Wire(e)

\* What a provider gets is what the client asked for, and so is what comes back.
RequestIsKept ==
    /\ InputIsWhole /\ IdsStayApart /\ OutputsHaveCalls /\ NamesComeBack
    /\ RetriesLearn /\ EffortArrives

(* Over WebSocket a field that was rejected once may be sent again in the  *)
(* same turn: what was learned is looked up among the facts in force, and a*)
(* first observation is not (proxy.js retryPublicWebSocketCompatibility).  *)
RejectedOnce == \A i, j \in DOMAIN rejected : i < j => rejected[i] # rejected[j]
=============================================================================
