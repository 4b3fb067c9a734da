------------------------------ MODULE Delivery ------------------------------
(***************************************************************************)
(* The delivery of one streamed answer (streamResponse in proxy.js) on the *)
(* three lanes it serves: native events as they are, the public Responses  *)
(* projection and the chat projection. Three classifiers look at the same  *)
(* event: the one of the account's health (classifySseEvent), the one of   *)
(* the request's row (successfulSseTerminal), and the normalizer that      *)
(* writes to the client (terminalKind). Between a write and what follows   *)
(* it the client may close.                                                *)
(*                                                                         *)
(* Events are classes of upstream events. Texts, sequence numbers and the  *)
(* rewriting of names are left out.                                        *)
(***************************************************************************)
EXTENDS Naturals

CONSTANTS
    MaxEvents         \* bound on the events of the upstream

DeliveryAssumption == MaxEvents \in Nat

VARIABLES
    route,            \* which projection the client asked for
    billed,           \* what pays: a row of the ledger or a share
    phase,            \* reading, writing an event, or ended
    event,            \* the event being written
    seen,             \* events read so far
    closed,           \* downstreamClosed
    terminal,
    completed,
    visible,
    measured,         \* hasMeasuredUsage(usage)
    health,           \* healthOutcome, at the end what the account is told
    told,             \* the terminal answer the client was written
    row,
    share,
    lease             \* the receipt of a native turn

inputs == <<route, billed>>
vars == <<inputs, phase, event, seen, closed, terminal, completed, visible, measured, health,
          told, row, share, lease>>

-----------------------------------------------------------------------------
(* Events and what the classifiers make of them *)

Routes == {"chat", "public", "native"}

\* erroneous: response.completed that carries an error; unfinished: with a
\* status other than completed; incomplete: stopped by length or filter;
\* interrupted: response.incomplete with a failure's reason; exhausted: with
\* a quota's; inconsistent: completed, but its tool calls do not reconcile;
\* mismatch: a tool call contradicts its deltas before the end.
Ends == {"completed", "erroneous", "unfinished", "incomplete", "interrupted", "exhausted",
         "failed", "inconsistent"}
Events == Ends \cup {"delta", "mismatch", "done", "garbage"}

\* successfulSseTerminal
Successful(e) == e \in {"completed", "incomplete", "interrupted", "inconsistent"}

\* classifySseEvent is asked about these.
Unhealthy(e) == e \in {"failed", "exhausted"}

\* terminalKind, with responsesCompletionFailure or the chat's reconciliation
Shown(e) ==
    CASE e \in {"completed", "erroneous", "incomplete"} -> "success"
      [] e \in {"failed", "exhausted", "interrupted", "inconsistent"} -> "failure"
      [] OTHER -> "nothing"

\* nativeEventWritten
LeaseAfter(e) ==
    CASE lease # "running" -> lease
      [] e \in {"completed", "unfinished", "incomplete", "interrupted", "inconsistent"} -> "succeeded"
      [] e \in {"erroneous", "exhausted", "failed"} -> "failed"
      [] OTHER -> lease

Raise(outcome) == IF health = "none" THEN outcome ELSE health
Tell(answer) == IF closed \/ answer = "nothing" \/ told # "nothing" THEN told ELSE answer

-----------------------------------------------------------------------------
(* finally *)

Finished(comp, out) ==
    /\ phase' = "ended" /\ event' = "none"
    /\ completed' = comp
    /\ health' = (IF out # "none" THEN out ELSE IF closed THEN "neutral" ELSE "transient")
    /\ row' = IF billed # "row" THEN row ELSE IF comp THEN "succeeded" ELSE "failed"
    /\ share' = IF billed # "share" THEN share
                ELSE IF measured THEN "settled" ELSE "released"

FinishLease(comp, now) == IF now = "running" THEN (IF comp THEN "succeeded" ELSE "interrupted")
                                             ELSE now

\* After the loop: what was shown without an end gets one, but not natively.
Wind(comp, out, final) ==
    /\ Finished(comp, out)
    /\ told' = Tell(IF route # "native" /\ visible /\ ~ terminal THEN "failure" ELSE final)
    /\ lease' = FinishLease(comp, lease)
    /\ UNCHANGED <<inputs, seen, closed, terminal, visible, measured>>

-----------------------------------------------------------------------------
(* relayEvent up to its write *)

Writes(e) == ~ (route = "chat" /\ e \in {"done", "unfinished"})

Read(e) ==
    /\ phase = "reading" /\ ~ closed /\ ~ terminal /\ seen < MaxEvents
    /\ seen' = seen + 1
    /\ measured' \in {measured, measured \/ e \in Ends}
    /\ health' = IF Unhealthy(e) THEN "upstream" ELSE health
    /\ terminal' = IF route = "native" THEN Unhealthy(e) ELSE e = "garbage"
    /\ phase' = "writing" /\ event' = e
    /\ UNCHANGED <<inputs, closed, completed, visible, told, row, share, lease>>

\* and after it: the chat projection
ChatWritten(e) ==
    /\ route = "chat"
    /\ told' = Tell(IF e = "mismatch" \/ e = "garbage" THEN "failure"
                    ELSE IF e = "done" THEN "success" ELSE Shown(e))
    /\ terminal' = (e \notin {"delta", "unfinished"})
    /\ completed' = (e = "done" \/ (Successful(e) /\ e # "inconsistent"))
    /\ health' = CASE e \in {"mismatch", "inconsistent"} -> "neutral"
                   [] completed' -> "success"
                   [] OTHER -> health
    /\ visible' = (visible \/ e = "delta")
    /\ UNCHANGED lease

\* mutant: success is read off the upstream's event, not off the projection
PublicWrittenAsRead(e) ==
    /\ route = "public"
    /\ told' = Tell(IF e = "garbage" THEN "failure" ELSE IF e = "done" THEN "success" ELSE Shown(e))
    /\ terminal' = (e = "garbage" \/ e = "done" \/ Shown(e) # "nothing")
    /\ completed' = (e = "done" \/ Successful(e))
    /\ health' = IF completed' THEN "success" ELSE health
    /\ visible' = (visible \/ e = "delta")
    /\ UNCHANGED lease

PublicWritten(e) ==
    /\ route = "public"
    /\ told' = Tell(IF e = "garbage" THEN "failure" ELSE IF e = "done" THEN "success" ELSE Shown(e))
    /\ terminal' = (e = "garbage" \/ e = "done" \/ Shown(e) # "nothing")
    /\ completed' = (e = "done" \/ Shown(e) = "success")
    /\ health' = CASE e = "inconsistent" -> "neutral"
                   [] completed' -> "success"
                   [] OTHER -> health
    /\ visible' = (visible \/ e \notin Ends)
    /\ UNCHANGED lease

\* A native write rejects when the client closed.
NativeWritten(e) ==
    /\ route = "native" /\ ~ closed
    /\ told' = Tell(IF e = "done" \/ Successful(e) THEN "success"
                    ELSE IF Unhealthy(e) THEN "failure" ELSE "nothing")
    /\ terminal' = (terminal \/ e = "done" \/ Successful(e))
    /\ completed' = (e = "done" \/ Successful(e))
    /\ health' = IF completed' THEN "success" ELSE health
    /\ visible' = (visible \/ e \notin {"done", "garbage"})
    /\ lease' = LeaseAfter(e)

Written ==
    /\ phase = "writing"
    /\ ChatWritten(event) \/ PublicWritten(event) \/ NativeWritten(event)
    /\ phase' = "reading" /\ event' = "none"
    /\ UNCHANGED <<inputs, seen, closed, measured, row, share>>

-----------------------------------------------------------------------------
(* Ways out of the loop *)

\* A terminal event, the end of the body, or the reader cancelled by a close.
BodyEnds ==
    /\ phase = "reading"
    /\ Wind(completed, health, "nothing")

\* The native write rejects: the client went.
WriteRejected ==
    /\ phase = "writing" /\ route = "native" /\ closed
    /\ Wind(FALSE, Raise("neutral"), "nothing")

\* The read fails or times out, or an event is too large; too many native
\* preambles are the gateway's own limit.
ReadFails ==
    /\ phase = "reading" /\ ~ terminal
    /\ \E outcome \in {"transient", "neutral"} :
          /\ outcome = "neutral" => closed \/ route = "native"
          /\ closed => outcome = "neutral"
          /\ Wind(FALSE, Raise(outcome), "nothing")

ClientCloses ==
    /\ phase # "ended" /\ ~ closed
    /\ closed' = TRUE
    /\ UNCHANGED <<inputs, phase, event, seen, terminal, completed, visible, measured, health,
                   told, row, share, lease>>

-----------------------------------------------------------------------------
(* Specification *)

Init ==
    /\ route \in Routes /\ billed \in {"row", "share"}
    /\ phase = "reading" /\ event = "none" /\ seen = 0
    /\ closed = FALSE /\ terminal = FALSE /\ completed = FALSE
    /\ visible = FALSE /\ measured = FALSE
    /\ health = "none" /\ told = "nothing"
    /\ row = "in_progress" /\ share = "reserved"
    /\ lease = IF route = "native" THEN "running" ELSE "absent"

Next ==
    \/ \E e \in Events : Read(e)
    \/ Written
    \/ BodyEnds \/ WriteRejected \/ ReadFails
    \/ ClientCloses

Spec == Init /\ [][Next]_vars

-----------------------------------------------------------------------------
(* Properties *)

TypeOK ==
    /\ route \in Routes /\ billed \in {"row", "share"}
    /\ phase \in {"reading", "writing", "ended"}
    /\ event \in Events \cup {"none"}
    /\ seen \in 0 .. MaxEvents
    /\ closed \in BOOLEAN /\ terminal \in BOOLEAN /\ completed \in BOOLEAN
    /\ visible \in BOOLEAN /\ measured \in BOOLEAN
    /\ health \in {"none", "success", "neutral", "transient", "upstream"}
    /\ told \in {"nothing", "success", "failure"}
    /\ row \in {"in_progress", "succeeded", "failed"}
    /\ share \in {"reserved", "settled", "released"}
    /\ lease \in {"absent", "running", "succeeded", "failed", "interrupted"}

Ended == phase = "ended"

\* However the upstream ends its answer and whenever the client leaves, the
\* ledger and the account's health record one result, a successful native turn
\* cannot be sent again, measured usage is paid for, and the client was told
\* that result; for the chat projection see FailedIsNotSuccessful.
OneStory ==
    Ended =>
        /\ billed = "row" => (row = "succeeded" <=> completed) /\ row # "in_progress"
        /\ health = "success" <=> completed
        /\ billed = "share" => share = (IF measured THEN "settled" ELSE "released")
        /\ lease # "running" /\ (completed => lease # "interrupted")
        /\ route # "chat" => /\ told = "failure" => ~ completed
                             /\ told = "success" => completed
        /\ completed /\ ~ closed => told # "nothing"

\* What a stream that has not ended has said of itself so far: before a write
\* nothing was told or booked, and natively a failure is known to be the end;
\* between events the health, the row's result and the client's answer agree, and
\* without a terminal event there is none.
StorySoFar ==
    /\ phase = "writing" =>
        /\ event \in Events /\ ~ completed /\ health # "success" /\ told = "nothing"
        /\ route = "native" /\ Unhealthy(event) => terminal
    /\ phase = "reading" =>
        /\ health = "success" <=> completed
        /\ completed => terminal
        /\ ~ terminal => told = "nothing"
        /\ route # "chat" => /\ told = "failure" => ~ completed
                             /\ told = "success" => completed
        /\ completed /\ ~ closed => told # "nothing"
    /\ ~ Ended => row = "in_progress" /\ share = "reserved" /\ lease # "interrupted"

\* Inductive: what holds of a stream at each of its steps.
StoryInv == TypeOK /\ StorySoFar /\ OneStory

\* A turn the client is told failed does not become a successful request
\* (README of node, "without becoming successful requests").
FailedIsNotSuccessful ==
    Ended /\ told = "failure" => row # "succeeded" /\ health # "success"

=============================================================================
