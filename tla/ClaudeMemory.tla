---------------------------- MODULE ClaudeMemory ----------------------------
(***************************************************************************)
(* What the gateway remembers of Claude conversations between requests,    *)
(* in memory only: the last message of a conversation (claude-protocol.js, *)
(* beginClaudeDiagnostics and commitClaudeDiagnostics) and the signed      *)
(* thinking it may put back into a history (claude-thinking-replay.js).    *)
(* Turns of one conversation may overlap and finish in any order.          *)
(*                                                                         *)
(* A turn stands for its message id and for the content it answered with.  *)
(* A conversation is one diagnostics key and one replay scope.             *)
(***************************************************************************)
EXTENDS Naturals, Sequences, FiniteSets, SequencesExt

CONSTANTS
    Turns,
    Conversations,
    ConversationOf,     \* of a turn
    Size,               \* bytes of the content of a turn
    Ttl,                \* an hour, for both memories
    PruneInterval,      \* CLAUDE_DIAGNOSTICS_PRUNE_INTERVAL_MS
    DiagnosticsLimit, EntryLimit, TurnLimit, SessionBytes, TotalBytes,
    None,
    MaxTime             \* bound

VARIABLES
    now,
    turn,           \* per turn: its phase and what beginning it returned
    entry,          \* claudeDiagnostics: conversation -> entry, in the order of
    entryOrder,     \* the Map
    lastPrune,
    replay,         \* the replay entries: conversation -> entry, in the order of
    replayOrder,    \* the Map, least recently used first
    totalBytes,
    finished        \* history: the turns that completed, <<lifetime, turn>>

vars == <<now, turn, entry, entryOrder, lastPrune, replay, replayOrder, totalBytes, finished>>
diagnostics == <<entry, entryOrder, lastPrune, finished>>
replays == <<replay, replayOrder, totalBytes>>

NoEntry == [previous |-> None, committed |-> 0, sequence |-> 0, expires |-> 0, lifetime |-> 0]
NoReplay == [contents |-> <<>>, bytes |-> 0, at |-> 0]
NewTurn == [phase |-> "new", c |-> None, sequence |-> 0, lifetime |-> 0, previous |-> None, captured |-> FALSE]

TypeOK ==
    /\ now \in 0..MaxTime
    /\ \A t \in Turns : turn[t].phase \in {"new", "sent", "done"} /\ turn[t].c \in Conversations \cup {None}
    /\ ToSet(entryOrder) \subseteq Conversations /\ IsInjective(entryOrder)
    /\ ToSet(replayOrder) \subseteq Conversations /\ IsInjective(replayOrder)
    /\ Len(entryOrder) <= DiagnosticsLimit + 1
    /\ totalBytes \in Nat

Init ==
    /\ now = 0 /\ lastPrune = 0 /\ totalBytes = 0 /\ finished = {}
    /\ turn = [t \in Turns |-> NewTurn]
    /\ entry = [c \in Conversations |-> NoEntry] /\ entryOrder = <<>>
    /\ replay = [c \in Conversations |-> NoReplay] /\ replayOrder = <<>>

-----------------------------------------------------------------------------
(* Diagnostics *)

\* pruneClaudeDiagnostics: at most once an interval, unless there are too
\* many; the expired first, then the oldest.
Pruned(order) ==
    IF now - lastPrune < PruneInterval /\ Len(order) <= DiagnosticsLimit THEN order
    ELSE LET live == SelectSeq(order, LAMBDA c : entry[c].expires > now)
         IN IF Len(live) <= DiagnosticsLimit THEN live
            ELSE SubSeq(live, Len(live) - DiagnosticsLimit + 1, Len(live))

LastPruneAfter(order) ==
    IF now - lastPrune < PruneInterval /\ Len(order) <= DiagnosticsLimit THEN lastPrune ELSE now

\* The lifetimes of an entry are numbered, for the properties.
BeginDiagnostics(t, c) ==
    LET order == Pruned(entryOrder)
        fresh == [NoEntry EXCEPT !.expires = now + Ttl, !.lifetime = entry[c].lifetime + 1]
        found == IF c \in ToSet(order) /\ entry[c].expires > now THEN entry[c] ELSE fresh
        begun == [found EXCEPT !.sequence = @ + 1]
    IN /\ entry' = [entry EXCEPT ![c] = begun]
       /\ entryOrder' = IF c \in ToSet(order) THEN order ELSE Append(order, c)
       /\ lastPrune' = LastPruneAfter(entryOrder)
       /\ turn' = [turn EXCEPT ![t] = [@ EXCEPT !.phase = "sent", !.c = c, !.sequence = begun.sequence,
                                                !.lifetime = begun.lifetime, !.previous = begun.previous]]
       /\ UNCHANGED finished

\* Mutant: whoever finishes last is the latest.
Accepts(e, t) == TRUE

Commits(e, t) == turn[t].sequence >= e.committed

CommitDiagnostics(t) ==
    LET c == turn[t].c
    IN /\ entry' = IF c \in ToSet(entryOrder) /\ Commits(entry[c], t)
                   THEN [entry EXCEPT ![c] = [@ EXCEPT !.previous = t, !.committed = turn[t].sequence,
                                                       !.expires = now + Ttl]]
                   ELSE entry
       /\ finished' = finished \cup {<<turn[t].lifetime, t>>}
       /\ UNCHANGED <<entryOrder, lastPrune>>

-----------------------------------------------------------------------------
(* Thinking replay *)

SumBytes(contents) == FoldSeq(LAMBDA t, sum : sum + Size[t], 0, contents)
Without(order, c) == SelectSeq(order, LAMBDA x : x # c)

\* deleteEntry.  Mutant: the bytes of the entry stay counted.
DeleteCounting(c) ==
    /\ replay' = [replay EXCEPT ![c] = NoReplay]
    /\ replayOrder' = Without(replayOrder, c)
    /\ UNCHANGED totalBytes

\* Mutant: the entry stays when its bytes are given back.
DeleteTheBytes(c) ==
    /\ UNCHANGED <<replay, replayOrder>>
    /\ totalBytes' = totalBytes - replay[c].bytes

Delete(c) ==
    /\ replay' = [replay EXCEPT ![c] = NoReplay]
    /\ replayOrder' = Without(replayOrder, c)
    /\ totalBytes' = totalBytes - replay[c].bytes

Fresh(c) == c \in ToSet(replayOrder) /\ now - replay[c].at <= Ttl

\* getClaudeThinkingReplay: what may be put back; reading renews it.
ReadReplay(c) ==
    IF Fresh(c)
    THEN /\ replay' = [replay EXCEPT ![c].at = now]
         /\ replayOrder' = Append(Without(replayOrder, c), c)
         /\ UNCHANGED totalBytes
    ELSE Delete(c)

\* The turns that are kept of one session: the latest that fit.
Fitting(contents) ==
    LET fits(n) == LET kept == SubSeq(contents, n, Len(contents))
                   IN Len(kept) <= TurnLimit /\ SumBytes(kept) <= SessionBytes
        first == CHOOSE n \in 1..(Len(contents) + 1) : fits(n) /\ \A m \in 1..(n - 1) : ~fits(m)
    IN SubSeq(contents, first, Len(contents))

\* enforceLimits: whole sessions go, least recently used first.
Enforced(order, table) ==
    LET size(o) == FoldSeq(LAMBDA c, sum : sum + table[c].bytes, 0, o)
        fits(n) == LET kept == SubSeq(order, n, Len(order))
                   IN Len(kept) <= EntryLimit /\ size(kept) <= TotalBytes
        first == CHOOSE n \in 1..(Len(order) + 1) : fits(n) /\ \A m \in 1..(n - 1) : ~fits(m)
    IN SubSeq(order, first, Len(order))

\* cacheClaudeThinkingReplay, for content with signed thinking and a tool use.
Cache(t, c) ==
    IF Size[t] > SessionBytes THEN UNCHANGED replays
    ELSE LET kept == IF Fresh(c) THEN replay[c].contents ELSE <<>>
             contents == Fitting(IF t \in ToSet(kept) THEN kept ELSE Append(kept, t))
             mine == [contents |-> contents, bytes |-> SumBytes(contents), at |-> now]
             table == [replay EXCEPT ![c] = mine]
             order == Enforced(Append(Without(replayOrder, c), c), table)
             dropped == {x \in Conversations : x \notin ToSet(order)}
         IN /\ replayOrder' = order
            /\ replay' = [x \in Conversations |-> IF x \in dropped THEN NoReplay ELSE table[x]]
            \* Counted as it goes: what is added, what is shifted out, what is dropped.
            /\ totalBytes' = totalBytes - replay[c].bytes + mine.bytes
                               - FoldSeq(LAMBDA x, sum : sum + (IF x \in dropped THEN table[x].bytes ELSE 0), 0,
                                         Append(Without(replayOrder, c), c))

-----------------------------------------------------------------------------
(* Requests *)

\* buildRequest: the history is restored, the diagnostics are begun.
Begin(t) ==
    /\ turn[t].phase = "new"
    /\ BeginDiagnostics(t, ConversationOf[t])
    /\ ReadReplay(ConversationOf[t])
    /\ UNCHANGED now

\* The answer completes, or the request fails.
Complete(t) ==
    /\ turn[t].phase = "sent"
    /\ turn' = [turn EXCEPT ![t].phase = "done"]
    /\ CommitDiagnostics(t)
    /\ UNCHANGED <<now, replays>>

Fail(t) ==
    /\ turn[t].phase = "sent"
    /\ turn' = [turn EXCEPT ![t].phase = "done"]
    /\ UNCHANGED <<now, diagnostics, replays>>

\* captureClaudeThinkingReplayResponse reads a copy of the answer beside the
\* relay and may end before or after it.  What cannot be replayed clears the
\* scope, and so does an answer that failed on a restored history.
Capture(t) ==
    /\ turn[t].phase # "new" /\ ~turn[t].captured
    /\ turn' = [turn EXCEPT ![t].captured = TRUE]
    /\ Cache(t, turn[t].c) \/ Delete(turn[t].c) \/ UNCHANGED replays
    /\ UNCHANGED <<now, diagnostics>>

Tick ==
    /\ now < MaxTime
    /\ now' = now + 1
    /\ UNCHANGED <<turn, diagnostics, replays>>

Next ==
    \/ \E t \in Turns : Begin(t) \/ Complete(t) \/ Fail(t) \/ Capture(t)
    \/ Tick

Spec == Init /\ [][Next]_vars

-----------------------------------------------------------------------------

(* The memory of signed thinking stays within its limits and its books:     *)
(* totalBytes is what the entries hold, whatever was renewed, shifted out, *)
(* expired, evicted or cleared by a request that failed meanwhile, and     *)
(* every content kept for a conversation was answered in it                *)
(* (claude-thinking-replay.js: otherwise enforceLimits evicts everyone, or *)
(* no one, for ever).                                                      *)
ReplayIsAccountedFor ==
    /\ totalBytes = FoldSeq(LAMBDA c, sum : sum + SumBytes(replay[c].contents), 0, replayOrder)
    /\ totalBytes <= TotalBytes /\ Len(replayOrder) <= EntryLimit
    /\ \A c \in Conversations :
         /\ Len(replay[c].contents) <= TurnLimit /\ replay[c].bytes <= SessionBytes
         /\ \A t \in ToSet(replay[c].contents) : turn[t].c = c /\ turn[t].captured

(* Within one lifetime of a conversation's entry, the message it names as   *)
(* the previous one is the latest begun of those that completed, in        *)
(* whatever order overlapping turns came back (commitClaudeDiagnostics).   *)
PreviousIsTheLatest ==
    \A c \in ToSet(entryOrder) :
      LET e == entry[c]
      IN e.previous # None /\ turn[e.previous].lifetime = e.lifetime =>
           \A x \in finished :
              x[1] = e.lifetime /\ turn[x[2]].c = c => turn[x[2]].sequence <= turn[e.previous].sequence
=============================================================================
