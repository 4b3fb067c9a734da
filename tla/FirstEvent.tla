------------------------------ MODULE FirstEvent ------------------------------
(***************************************************************************)
(* What the gateway reads of a provider's stream before it commits to it   *)
(* (proxy.js, inspectInitialSseEvent): a stream that fails before it shows *)
(* anything may be answered by another account, one that has shown         *)
(* something may not.  With bootstrap buffering it waits for the first     *)
(* event that shows something, within limits of events and time.           *)
(*                                                                         *)
(* Everything that is read here is also kept for the client (tee).  The    *)
(* limits of bytes have the same effect as those of events.                *)
(***************************************************************************)
EXTENDS Integers, Sequences, SequencesExt

CONSTANTS
    MaxEvents,          \* streamBootstrapEvents
    MaxPreambles,       \* preambles that fit into NATIVE_SSE_EVENT_BYTES
    MaxChunk, MaxChunks     \* bounds

SomeEventsFit == MaxEvents \in Nat /\ MaxPreambles \in Nat

VARIABLES
    mode,       \* "plain", "native" or "bootstrap"
    chunks,     \* history: the chunks read
    seen,       \* events with data
    preambles,  \* nativePreambleBytes
    verdict     \* "none", or what the function returned

vars == <<mode, chunks, seen, preambles, verdict>>

\* "preamble" is response.created or in_progress, "quiet" the other events that
\* show nothing, "retry" a failure that another account may not have, "failure"
\* another one, "bad" an event that cannot be decoded, "empty" one without data.
Decoded == {"preamble", "quiet", "shown", "retry", "failure"}
Kinds(m) ==
    Decoded \cup {"bad", "empty", "done"}
        \cup (IF m = "native" THEN {"raw", "oversized"} ELSE {})

Verdicts == {"none", "commit", "retry", "local"}

TypeOK ==
    /\ mode \in {"plain", "native", "bootstrap"}
    /\ chunks \in Seq(Seq(Kinds(mode))) /\ verdict \in Verdicts
    /\ seen \in Nat /\ preambles \in 0 .. MaxPreambles + 1

HasData(e) == e # "empty"

\* isSseBootstrapComplete
Complete(e) == e \in {"shown", "retry", "failure"}

-----------------------------------------------------------------------------
Reading == [seen |-> seen, preambles |-> preambles, verdict |-> "none"]

\* One event that is not a preamble decides, unless the stream is bootstrapped.
JudgePlain(e) ==
    CASE e = "retry" -> "retry"
      [] e = "preamble" -> "none"
      [] OTHER -> "commit"

JudgeBootstrap(e) ==
    CASE e = "retry" -> "retry"
      [] e \in {"preamble", "quiet", "bad"} -> "none"
      [] OTHER -> "commit"

\* The loop over the events of a chunk, which ends with a verdict; late says
\* that the bootstrap's time is over.
Judge(late) == [st \in [seen : Nat, preambles : Nat, verdict : Verdicts], e \in Kinds(mode) |->
    IF st.verdict # "none" THEN st
    ELSE LET count == st.preambles + (IF mode = "native" /\ e = "preamble" THEN 1 ELSE 0)
             one == [st EXCEPT !.seen = @ + 1, !.preambles = count]
         IN CASE e = "oversized" \/ count > MaxPreambles -> [st EXCEPT !.verdict = "local"]
              [] e = "raw" -> [st EXCEPT !.verdict = "commit"]
              [] ~HasData(e) -> st
              [] mode = "bootstrap" /\ (one.seen > MaxEvents \/ late) -> [one EXCEPT !.verdict = "commit"]
              [] mode = "bootstrap" /\ one.seen <= MaxEvents /\ ~late ->
                    [one EXCEPT !.verdict = JudgeBootstrap(e)]
              [] OTHER -> [one EXCEPT !.verdict = JudgePlain(e)]]

Judged(chunk, late) ==
    FoldLeft(LAMBDA st, e : Judge(late)[st, e], Reading, chunk)

-----------------------------------------------------------------------------
Init ==
    /\ mode \in {"plain", "native", "bootstrap"}
    /\ chunks = <<>> /\ seen = 0 /\ preambles = 0 /\ verdict = "none"

\* A read. Preambles alone commit an unbuffered stream at the end of their chunk.
Read ==
    /\ verdict = "none" /\ Len(chunks) < MaxChunks
    /\ \E chunk \in UNION {[1 .. n -> Kinds(mode)] : n \in 0 .. MaxChunk}, late \in BOOLEAN :
        LET st == Judged(chunk, late)
        IN /\ late => mode = "bootstrap"
           /\ chunks' = Append(chunks, chunk)
           /\ seen' = st.seen /\ preambles' = st.preambles
           /\ verdict' = IF st.verdict = "none" /\ mode # "bootstrap" /\ Contains(chunk, "preamble")
                         THEN "commit" ELSE st.verdict
    /\ UNCHANGED mode

\* The event that is being read is too long for the parser.
Overflow ==
    /\ verdict = "none" /\ mode # "native"
    /\ verdict' = "local"
    /\ UNCHANGED <<mode, chunks, seen, preambles>>

\* The stream ends without having shown or refused anything.
End ==
    /\ verdict = "none"
    /\ verdict' = "retry"
    /\ UNCHANGED <<mode, chunks, seen, preambles>>

\* The bootstrap waits no longer.
Timeout ==
    /\ verdict = "none" /\ mode = "bootstrap"
    /\ verdict' = "commit"
    /\ UNCHANGED <<mode, chunks, seen, preambles>>

Next == Read \/ Overflow \/ End \/ Timeout

Spec == Init /\ [][Next]_vars

-----------------------------------------------------------------------------
Events == FlattenSeq(chunks)
Before(e) == SubSeq(Events, 1, SelectInSeq(Events, LAMBDA x : x = e) - 1)

\* A stream is given up for another account only when it showed nothing before
\* it failed or ended (proxy.js:1473, "contains no output").
RetryIsInvisible ==
    verdict = "retry" =>
        LET read == IF Contains(Events, "retry") THEN Before("retry") ELSE Events
        IN ~Contains(read, "shown") /\ ~Contains(read, "raw") /\ ~Contains(read, "failure")

\* A failure that arrives in one chunk with the preambles before it fails over
\* (proxy.js:1475, "a terminal in the same transport chunk can fail over").
FailureInTheFirstChunkFailsOver ==
    /\ Len(chunks) = 1 /\ Contains(chunks[1], "retry")
    /\ Range(Before("retry")) \subseteq {"preamble", "empty"} /\ Len(chunks[1]) <= MaxPreambles
    /\ mode # "bootstrap"
    => verdict = "retry"

\* The bootstrap withholds no more than its limit of events.
WithheldIsBounded ==
    mode = "bootstrap" => seen <= MaxEvents + 1 /\ (seen > MaxEvents => verdict # "none")
=============================================================================
