--------------------------- MODULE ResponseLifecycle ---------------------------
(***************************************************************************)
(* One request to a provider and the body of its answer: requestUpstream   *)
(* (proxy.js; timedFetch of compatibility.js is the same without           *)
(* decoding), the signal that ends it when the client goes                 *)
(* (upstream-response-lifecycle.js), the deadlines                         *)
(* (upstream-deadlines.js), the decoding of a Claude answer                *)
(* (upstream-response.js) and the ways a body is consumed: relayed chunk   *)
(* by chunk under the client's backpressure (http-stream.js), collected as *)
(* the answer (readResponseBytes), or collected to look at a rejection     *)
(* (collectRejectedResponse) or at an error (readBoundedResponse).         *)
(***************************************************************************)
EXTENDS Integers

CONSTANTS
    MaxChunks,          \* bound: chunks of a body
    MaxBytes,           \* maxBytes: what is collected of a compressed answer
    RejectedBytes,      \* 1024 * 1024: what is collected of a rejection
    CollectedBytes      \* 16 * 1024 * 1024: what is collected of an answer

LimitsFit == MaxChunks \in Nat /\ MaxBytes \in Nat \ {0} /\ RejectedBytes \in Nat
              /\ CollectedBytes \in Nat

VARIABLES
    request,    \* who asks: is it Claude, is the body compressed, who consumes it
    client,     \* "open" or "closed"; is it keeping up
    abort,      \* downstreamAbortSignal: reason, timer and listeners
    at,         \* where requestUpstream is
    fetch,      \* the promise of fetchImpl
    raw,        \* the provider's body
    stream,     \* the body responseWithDownstreamAbort puts in its place
    got,        \* chunks the reader at hand has received
    consumer,   \* the reader of the returned body
    kind        \* upstreamFailureKind of the error that was thrown

vars == <<request, client, abort, at, fetch, raw, stream, got, consumer, kind>>

Readers == {"relay", "rejection", "error", "answer"}
Fetch == {"none", "pending", "headers", "timeout", "transport", "aborted"}
Raw == [state : {"none", "open", "done", "failed", "cancelled"}, left : 0 .. MaxChunks]

TypeOK ==
    /\ request \in [claude : BOOLEAN, coded : BOOLEAN, reader : Readers,
                    size : 0 .. MaxChunks]
    /\ client \in {"open", "closed"}
    /\ abort \in [reason : {"none", "closed", "timeout"}, timer : BOOLEAN, listening : BOOLEAN]
    /\ at \in {"waiting", "fetching", "first", "whole", "returned", "thrown"}
    /\ fetch \in Fetch /\ raw \in Raw
    /\ stream \in {"none", "open", "closed", "errored", "cancelled"}
    /\ got \in 0 .. MaxChunks
    /\ consumer \in {"none", "reading", "writing", "whole", "empty", "failed", "cancelled"}
    /\ kind \in {"none", "cancelled", "timeout", "transport"}

\* downstreamAbortSignal: a client that is gone already aborts at once.
Init ==
    /\ request \in [claude : BOOLEAN, coded : BOOLEAN, reader : Readers,
                    size : 0 .. MaxChunks]
    /\ request.coded => request.claude
    /\ client \in {"open", "closed"}
    /\ abort = [reason |-> IF client = "closed" THEN "closed" ELSE "none",
                timer |-> TRUE, listening |-> TRUE]
    /\ at = "waiting" /\ fetch = "none"
    /\ raw = [state |-> "none", left |-> request.size]
    /\ stream = "none" /\ got = 0 /\ consumer = "none" /\ kind = "none"

-----------------------------------------------------------------------------
(* The signal and the body that listens to it. *)

CleanedUp(signal) == [signal EXCEPT !.timer = FALSE, !.listening = FALSE]

\* reader.cancel and releaseLock: the provider's body is given up.
GivenUp(body) == IF body.state = "open" THEN [body EXCEPT !.state = "cancelled"] ELSE body

\* cancelled(): the signal errors the body at once and gives up the provider's.
Signalled(reason) ==
    IF abort.reason # "none" THEN UNCHANGED <<abort, raw, stream>>
    ELSE IF stream = "open" THEN
        /\ abort' = CleanedUp([abort EXCEPT !.reason = reason])
        /\ stream' = "errored" /\ raw' = GivenUp(raw)
    ELSE abort' = [abort EXCEPT !.reason = reason] /\ UNCHANGED <<raw, stream>>

\* A client that closes also wakes the writer that waits for it to drain.
ClientCloses ==
    /\ client = "open" /\ client' = "closed"
    /\ IF abort.listening THEN Signalled("closed") ELSE UNCHANGED <<abort, raw, stream>>
    /\ consumer' = IF consumer = "writing" THEN "reading" ELSE consumer
    /\ UNCHANGED <<request, at, fetch, got, kind>>

\* The time limit of the whole exchange up to its headers.
TimesOut ==
    /\ abort.timer
    /\ IF abort.reason = "none" THEN abort' = [abort EXCEPT !.reason = "timeout", !.timer = FALSE]
       ELSE abort' = [abort EXCEPT !.timer = FALSE]
    /\ UNCHANGED <<request, client, at, fetch, raw, stream, got, consumer, kind>>

\* The catch and the finally of requestUpstream.
Thrown(failure) ==
    /\ at' = "thrown"
    /\ kind' = IF abort'.reason = "closed" THEN "cancelled" ELSE failure

-----------------------------------------------------------------------------
(* Up to the headers. *)

Aborted == abort.reason # "none"

\* throwIfAborted, or the pacer's queue left on the signal.
NotSent ==
    /\ at = "waiting" /\ Aborted
    /\ abort' = CleanedUp(abort) /\ Thrown("timeout")
    /\ UNCHANGED <<request, client, fetch, raw, stream, got, consumer>>

Send ==
    /\ at = "waiting" /\ ~Aborted
    /\ at' = "fetching" /\ fetch' = "pending"
    /\ UNCHANGED <<request, client, abort, raw, stream, got, consumer, kind>>

\* What the promise settles with, before requestUpstream goes on.
FetchSettles ==
    /\ at = "fetching" /\ fetch = "pending"
    /\ \/ ~Aborted /\ fetch' \in {"headers", "timeout", "transport"}
       \/ Aborted /\ fetch' = "aborted"
    /\ raw' = IF fetch' = "headers" THEN [raw EXCEPT !.state = "open"] ELSE raw
    /\ UNCHANGED <<request, client, abort, at, stream, got, consumer, kind>>

FetchRejected ==
    /\ at = "fetching" /\ fetch \in {"timeout", "transport", "aborted"}
    /\ abort' = CleanedUp(abort)
    /\ Thrown(IF fetch = "transport" THEN "transport" ELSE "timeout")
    /\ UNCHANGED <<request, client, fetch, raw, stream, got, consumer>>

\* headersReceived, then responseWithDownstreamAbort: the body owns the signal
\* from here, and one that fired in the meantime errors it at the start.
Headers ==
    /\ at = "fetching" /\ fetch = "headers"
    /\ fetch' = "none"
    /\ IF Aborted THEN abort' = CleanedUp(abort) /\ stream' = "errored" /\ raw' = GivenUp(raw)
       ELSE abort' = [abort EXCEPT !.timer = FALSE] /\ stream' = "open" /\ UNCHANGED raw
    /\ at' = IF request.claude THEN "first" ELSE "returned"
    /\ consumer' = IF request.claude THEN "none" ELSE "reading"
    /\ UNCHANGED <<request, client, got, kind>>

\* An answer without a body leaves nothing to own.
Bodiless ==
    /\ at = "fetching" /\ fetch = "headers" /\ raw.left = 0
    /\ fetch' = "none" /\ abort' = CleanedUp(abort)
    /\ raw' = [raw EXCEPT !.state = "done"] /\ stream' = "closed"
    /\ at' = "returned" /\ consumer' = "reading"
    /\ UNCHANGED <<request, client, got, kind>>

-----------------------------------------------------------------------------
(* One read of the body by whoever holds it. *)

Chunk ==
    /\ stream = "open" /\ raw.state = "open" /\ raw.left > 0
    /\ raw' = [raw EXCEPT !.left = @ - 1] /\ got' = got + 1
    /\ UNCHANGED <<abort, stream>>

Over ==
    /\ stream = "open" /\ raw.state = "open" /\ raw.left = 0
    /\ raw' = [raw EXCEPT !.state = "done"] /\ stream' = "closed"
    /\ abort' = CleanedUp(abort) /\ UNCHANGED got

Broken ==
    /\ stream = "open" /\ raw.state = "open"
    /\ raw' = [raw EXCEPT !.state = "failed"] /\ stream' = "errored"
    /\ abort' = CleanedUp(abort) /\ UNCHANGED got

\* The reader gives the body up: its idle deadline passed, or it has enough.
GiveUp ==
    IF stream = "open" THEN
        stream' = "cancelled" /\ raw' = GivenUp(raw) /\ abort' = CleanedUp(abort)
    ELSE UNCHANGED <<stream, raw, abort>>

-----------------------------------------------------------------------------
(* decodeClaudeResponse *)

Returned == at' = "returned" /\ consumer' = "reading" /\ UNCHANGED kind

DecodeRead ==
    /\ at \in {"first", "whole"}
    /\ \/ /\ Chunk
          /\ IF ~request.coded THEN Returned
             ELSE at' = "whole" /\ UNCHANGED <<consumer, kind>>
       \/ Over /\ Returned
       \/ Broken /\ Thrown("transport") /\ UNCHANGED consumer
       \/ stream = "open" /\ GiveUp /\ Thrown("timeout") /\ UNCHANGED <<got, consumer>>
       \/ /\ stream = "errored" /\ UNCHANGED <<abort, raw, stream, got, consumer>>
          /\ Thrown("timeout")
    /\ ~(at = "whole" /\ got' > MaxBytes)
    /\ UNCHANGED <<request, client, fetch>>

TooLarge ==
    /\ at = "whole"
    /\ stream = "open" /\ raw.state = "open" /\ raw.left > 0 /\ got >= MaxBytes
    /\ GiveUp /\ Thrown("transport")
    /\ UNCHANGED <<request, client, fetch, got, consumer>>

\* The bytes were all there, and are not what the encodings say.
Undecodable ==
    /\ at = "whole" /\ raw.left = 0 /\ Over /\ Thrown("transport")
    /\ UNCHANGED <<request, client, fetch, consumer>>

-----------------------------------------------------------------------------
(* The consumer.  A compressed answer is held whole when it is returned. *)

RelayRead ==
    /\ at = "returned" /\ request.reader = "relay" /\ consumer = "reading"
    /\ \/ Chunk /\ consumer' \in IF client = "open" THEN {"reading", "writing"} ELSE {"reading"}
       \/ Over /\ consumer' = "whole"
       \/ Broken /\ consumer' = "failed"
       \/ stream = "open" /\ GiveUp /\ consumer' = "failed" /\ UNCHANGED got
       \/ stream = "errored" /\ consumer' = "failed" /\ UNCHANGED <<abort, raw, stream, got>>
       \/ stream = "closed" /\ consumer' = "whole" /\ UNCHANGED <<abort, raw, stream, got>>
    /\ UNCHANGED <<request, client, at, fetch, kind>>

\* writeChunk: the client has taken what was written.
Drained ==
    /\ consumer = "writing" /\ consumer' = "reading"
    /\ UNCHANGED <<request, client, abort, at, fetch, raw, stream, got, kind>>

\* collectRejectedResponse reads for one second and up to a limit; what it could
\* not read whole counts as nothing, and a client that left is reported.
CollectRead ==
    /\ at = "returned" /\ request.reader = "rejection" /\ consumer = "reading"
    /\ \/ Chunk /\ got' <= RejectedBytes /\ UNCHANGED consumer
       \/ Over /\ consumer' = "whole"
       \/ Broken /\ consumer' = "empty"
       \/ stream = "open" /\ GiveUp /\ consumer' = "empty" /\ UNCHANGED got
       \/ /\ stream = "errored"
          /\ consumer' = IF abort.reason = "closed" THEN "cancelled" ELSE "empty"
          /\ UNCHANGED <<abort, raw, stream, got>>
       \/ stream = "closed" /\ consumer' = "whole" /\ UNCHANGED <<abort, raw, stream, got>>
    /\ UNCHANGED <<request, client, at, fetch, kind>>

\* readBoundedResponse: an error counts by its status, whatever is left of its body.
ErrorRead ==
    /\ at = "returned" /\ request.reader = "error" /\ consumer = "reading"
    /\ \/ Chunk /\ got' <= RejectedBytes /\ UNCHANGED consumer
       \/ Over /\ consumer' = "whole"
       \/ Broken /\ consumer' = "empty"
       \/ stream = "open" /\ GiveUp /\ consumer' = "empty" /\ UNCHANGED got
       \/ stream = "errored" /\ consumer' = "empty" /\ UNCHANGED <<abort, raw, stream, got>>
       \/ stream = "closed" /\ consumer' = "whole" /\ UNCHANGED <<abort, raw, stream, got>>
    /\ UNCHANGED <<request, client, at, fetch, kind>>

\* readResponseBytes: an answer is had whole and within its limit, or not at all.
AnswerRead ==
    /\ at = "returned" /\ request.reader = "answer" /\ consumer = "reading"
    /\ \/ Chunk /\ got' <= CollectedBytes /\ UNCHANGED consumer
       \/ Over /\ consumer' = "whole"
       \/ Broken /\ consumer' = "failed"
       \/ stream = "open" /\ GiveUp /\ consumer' = "failed" /\ UNCHANGED got
       \/ stream = "errored" /\ consumer' = "failed" /\ UNCHANGED <<abort, raw, stream, got>>
       \/ stream = "closed" /\ consumer' = "whole" /\ UNCHANGED <<abort, raw, stream, got>>
    /\ UNCHANGED <<request, client, at, fetch, kind>>

-----------------------------------------------------------------------------
Next ==
    \/ ClientCloses \/ TimesOut \/ NotSent \/ Send \/ FetchSettles \/ FetchRejected
    \/ Headers \/ Bodiless \/ DecodeRead \/ TooLarge \/ Undecodable \/ RelayRead \/ Drained \/ CollectRead
    \/ ErrorRead \/ AnswerRead

Spec == Init /\ [][Next]_vars

-----------------------------------------------------------------------------
\* Whatever way an exchange ends, it has let go of the client, of its timer and
\* of the provider's connection (upstream-response-lifecycle.js: "Keep
\* disconnect ownership until the provider body is consumed or cancelled").
NothingIsHeld ==
    (at = "thrown" \/ consumer \in {"whole", "empty", "failed", "cancelled"}) =>
        /\ ~abort.timer /\ ~abort.listening
        /\ raw.state # "open"

\* A reader that takes a body for complete has every byte of it; after the end
\* of the client, of the time or of the connection it has an error instead.
WholeMeansWhole ==
    consumer = "whole" => raw.state = "done" /\ got = request.size

\* While the body flows the client's departure is being listened to, so that
\* nothing is read from the provider for a client that left.
NobodyReadsForTheDeparted ==
    client = "closed" => stream # "open"

\* A failure is called a cancellation when the client left and only then:
\* an account is never blamed for a client that left, nor excused by one that
\* stayed.
KindIsTrue ==
    at = "thrown" =>
        /\ kind = "cancelled" <=> abort.reason = "closed"
        /\ kind = "cancelled" => client = "closed"

\* A rejection is looked at only when the client is still there to be answered.
RejectionIsAnswered ==
    consumer = "cancelled" => client = "closed"

LifecycleIsClean ==
    /\ NothingIsHeld /\ WholeMeansWhole /\ NobodyReadsForTheDeparted /\ KindIsTrue
    /\ RejectionIsAnswered

\* The inductive invariant.  Every byte is either with the provider or with the
\* reader.
BytesAddUp == got + raw.left = request.size

\* While it listens, the signal knows of a client that left.
SignalKnows ==
    /\ abort.reason = "closed" => client = "closed"
    /\ abort.listening /\ client = "closed" => abort.reason # "none"

\* Up to the headers nobody reads and the signal is listened to.
BeforeTheHeaders ==
    at \in {"waiting", "fetching"} =>
        /\ stream = "none" /\ consumer = "none" /\ got = 0 /\ abort.listening
        /\ raw.state = IF fetch = "headers" THEN "open" ELSE "none"
        /\ at = "waiting" => fetch = "none"

\* An open body owns the signal, one that ended has let go of it.
StreamOwnsTheSignal ==
    /\ stream = "open" =>
        /\ abort.reason = "none" /\ ~abort.timer /\ abort.listening
        /\ raw.state = "open" /\ client = "open"
    /\ stream \in {"closed", "errored", "cancelled"} =>
        ~abort.timer /\ ~abort.listening /\ raw.state # "open"
    /\ stream = "closed" => raw.state = "done" /\ raw.left = 0

\* Whoever reads has a body, and who is done with it has ended it.
ReadersHaveABody ==
    /\ at \in {"first", "whole"} => consumer = "none" /\ stream \in {"open", "errored"}
    /\ consumer # "none" => at = "returned" /\ stream # "none"
    /\ consumer \in {"whole", "empty", "failed", "cancelled"} => stream # "open"
    /\ consumer = "whole" => stream = "closed"
    /\ consumer = "cancelled" => abort.reason = "closed"

\* What was thrown holds nothing and says why.
ThrownIsOver ==
    at = "thrown" =>
        /\ ~abort.timer /\ ~abort.listening /\ raw.state # "open" /\ stream # "open"
        /\ kind = "cancelled" <=> abort.reason = "closed"

ExchangeInv ==
    /\ TypeOK /\ BytesAddUp /\ SignalKnows /\ BeforeTheHeaders /\ StreamOwnsTheSignal
    /\ ReadersHaveABody /\ ThrownIsOver

=============================================================================
