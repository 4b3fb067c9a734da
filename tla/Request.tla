-------------------------------- MODULE Request --------------------------------
(***************************************************************************)
(* One JSON request from the handler's first line to its last (proxy.js,   *)
(* proxyRequest): what it acquires on the way, a ledger row, a native      *)
(* receipt, an admission, the share's reservation, a session's pin, and    *)
(* what each of its many ends does with them.                              *)
(*                                                                         *)
(* The loop over accounts in the middle is Dispatch.tla; here it answers   *)
(* with any of the results that it returns, and holds what it then holds.  *)
(* A stream's own ends are Delivery.tla.  The test of a connection, which  *)
(* an operator asks for, is a request of its own to one account            *)
(* (testUpstreamConnection).                                               *)
(***************************************************************************)
EXTENDS Naturals

VARIABLES
    req,        \* the request, which does not change
    phase,
    account,    \* the type of the account that is planned first, then of the one that answered
    row,        \* the ledger row
    receipt,    \* the native turn's receipt
    admission, share,
    pin,        \* the session's account: none, "self", the one that answers, or "other"
    told        \* what the client got

\* The rest of the state: whether the account is still in the store.
VARIABLE present

vars == <<req, phase, account, row, receipt, admission, share, pin, told, present>>

Requests ==
    [path : {"responses", "chat", "backend", "compact", "messages", "test"}, stream : BOOLEAN,
     key : {"api", "share"}, session : BOOLEAN, trigger : {"none", "last", "misplaced"},
     v2 : BOOLEAN, adaptable : BOOLEAN, previous : BOOLEAN]

\* prepareCompactionTriggerBridge looks for a trigger in the inputs of these.
Bridgeable(r) == r.path = "responses" \/ (r.path = "backend" /\ r.stream)

Types == {"codex", "compass", "claude"}
Phases == {"new", "durable", "dispatching", "answered", "rejected", "collecting", "collected",
           "streaming", "reading", "writing", "thrown", "done"}

TypeOK ==
    /\ req \in Requests /\ phase \in Phases /\ account \in Types \cup {"none"}
    /\ row \in {"none", "reserved", "succeeded", "failed"}
    /\ receipt \in {"none", "running", "failed", "succeeded", "interrupted"}
    /\ admission \in {"none", "open", "settled"}
    /\ share \in {"none", "reserved", "settled", "failed", "released"}
    /\ pin \in {"none", "self", "other"}
    /\ told \in {"none", "refused", "failed", "ok", "cut", "empty", "error"}
    /\ present \in BOOLEAN

Bridge == req.trigger = "last"
Shared == req.key = "share"
PublicCodex == account = "codex" /\ req.path \in {"responses", "chat"}

Init ==
    /\ req \in {r \in Requests :
                  /\ r.trigger = "none" \/ Bridgeable(r)
                  /\ r.v2 => r.path = "compact" \/ r.trigger = "last"
                  /\ ~r.adaptable => r.path \in {"responses", "chat"}
                  /\ r.previous => r.path = "responses"
                  /\ r.path = "test" => r.key = "api" /\ ~r.stream /\ ~r.session}
    /\ phase = "new" /\ account = "none"
    /\ row = "none" /\ receipt = "none" /\ admission = "none" /\ share = "none"
    /\ pin \in (IF req.session THEN {"none", "other"} ELSE {"none"})
    /\ told = "none" /\ present = TRUE

-----------------------------------------------------------------------------
(* The books *)

\* finishNativeTurn; what is finished stays as it is.
Receipt(status) == receipt' = IF receipt = "running" THEN status ELSE receipt

\* settleUpstreamAttempt throws when the account is no longer there.
Settleable == present \/ admission # "open"

\* finalizeGatewayFailure
FailRow == row' = IF row = "reserved" THEN "failed" ELSE row

Settle == admission' = IF admission = "open" THEN "settled" ELSE admission

\* settleUsage: a price is booked; without one, or when the books fail, the
\* reservation is released.
SettleUsage ==
    /\ row' = IF row = "reserved" THEN "succeeded" ELSE row
    /\ \E how \in {"settled", "released"} : share' = IF share = "reserved" THEN how ELSE share

\* settleFailedAttempt
SettleFailed ==
    \E how \in {"failed", "released"} : share' = IF share = "reserved" THEN how ELSE share

Release == share' = IF share = "reserved" THEN "released" ELSE share

Books == <<row, receipt, admission, share>>

\* The handler returns; proxyRequest then finishes the receipt if nobody has.
Return(answer) == phase' = "done" /\ told' = answer

-----------------------------------------------------------------------------
(* Before the dispatch: one step, because nothing is awaited *)

Invalid == req.trigger = "misplaced"

\* The checks of the request alone: its trigger, and identifiers, headers, models
\* and prices that may be refused as well.
Refuse ==
    /\ phase = "new"
    /\ Return("refused")
    /\ UNCHANGED <<req, account, Books, pin, present>>

\* The plan's candidates; what Codex cannot be given is for the others.
Planned(type) ==
    /\ ~req.adaptable => type \in {"compass", "claude", "none"}
    /\ req.path \in {"backend", "compact"} \/ Bridge => type \in {"codex", "none"}
    /\ req.path = "messages" => type # "codex"
    /\ req.path \notin {"messages", "test"} => type # "claude"

NoCandidate ==
    /\ phase = "new" /\ ~Invalid /\ req.path # "test" /\ Planned("none")
    /\ row' = IF req.adaptable /\ req.key = "api" /\ req.path \in {"responses", "chat"} THEN "failed" ELSE row
    /\ Return("refused")
    /\ UNCHANGED <<req, account, receipt, admission, share, pin, present>>

Accept ==
    /\ phase = "new" /\ ~Invalid /\ req.path # "test"
    /\ \E type \in Types :
        /\ Planned(type)
        /\ ~(req.previous /\ type = "codex")
        /\ account' = type
    /\ row' = IF req.key = "api" /\ req.path \in {"responses", "chat"} THEN "reserved" ELSE row
    /\ \/ receipt' = receipt /\ phase' = "dispatching"
       \/ req.path = "backend" /\ ~Bridge /\ receipt' = "running" /\ phase' = "durable"
    /\ UNCHANGED <<req, admission, share, pin, told, present>>

\* An account is asked for the time, by a model that has a price, whatever its
\* health; one without such a model is refused.
TestBegins ==
    /\ phase = "new" /\ req.path = "test"
    /\ account' \in Types
    /\ phase' = "dispatching"
    /\ UNCHANGED <<req, Books, pin, told, present>>

\* flushDurability
Durable ==
    /\ phase = "durable"
    /\ phase' \in {"dispatching", "thrown"}
    /\ UNCHANGED <<req, account, Books, pin, told, present>>

-----------------------------------------------------------------------------
(* The dispatch's results *)

\* An answer to be read: admitted and reserved. A collected one is settled.
Served ==
    /\ phase = "dispatching"
    /\ \E type \in Types : Planned(type) /\ account' = type
    /\ share' = IF Shared THEN "reserved" ELSE share
    /\ phase' = "answered"
    /\ admission' = IF account' = "codex" /\ req.path \in {"responses", "chat", "test"} /\ ~req.stream
                         /\ ~Bridge
                    THEN "settled" ELSE "open"
    /\ UNCHANGED <<req, row, receipt, pin, told, present>>

\* Nobody could be asked, the pacer or the host's circuit refused everybody.
Unserved ==
    /\ phase = "dispatching"
    /\ FailRow /\ Receipt("interrupted") /\ Return("failed")
    /\ UNCHANGED <<req, account, admission, share, pin, present>>

\* The last account asked answered with a failure, which it has been settled with.
Failed ==
    /\ phase = "dispatching"
    /\ admission' = "settled"
    /\ share' \in (IF Shared THEN {"failed", "released"} ELSE {share})
    /\ Receipt("failed")
    /\ phase' = "rejected"
    /\ UNCHANGED <<req, account, row, pin, told, present>>

\* The client went away or the request could not be built.
DispatchThrows ==
    /\ phase = "dispatching"
    /\ phase' = "thrown"
    /\ UNCHANGED <<req, account, Books, pin, told, present>>

\* An error reaches the server; the receipt is finished on its way.
Thrown ==
    /\ phase = "thrown"
    /\ Receipt("interrupted") /\ Return("error")
    /\ UNCHANGED <<req, account, row, admission, share, pin, present>>

\* The error's body is read, whatever becomes of it; a test only fails.
ErrorRead ==
    /\ phase = "rejected"
    /\ FailRow /\ Return("failed")
    /\ UNCHANGED <<req, account, receipt, admission, share, pin, present>>

-----------------------------------------------------------------------------
(* An answer *)

\* What is to be done with the body.
Readings ==
    IF Bridge THEN {"collecting"}
    ELSE IF account = "codex" /\ req.stream THEN {"streaming"} ELSE {"streaming", "reading"}

\* The receipt is bound to the account and the session pinned to it, unless the
\* key is a personal share; both need the account to be there. A collected answer
\* is booked and sent at once, a compaction's events are collected.
Begin ==
    /\ phase = "answered" /\ req.path # "test"
    /\ \E pins \in BOOLEAN :
        /\ req.key = "api" => pins = (req.session /\ pin = "none")
        /\ pins => req.session /\ pin = "none"
        /\ IF ~present /\ (receipt = "running" \/ pins)
           THEN phase' = "thrown" /\ UNCHANGED <<row, share, receipt, pin, told>>
           ELSE /\ pin' = IF pins THEN "self" ELSE pin
                /\ IF PublicCodex /\ ~req.stream /\ ~Bridge
                   THEN SettleUsage /\ Return("ok") /\ UNCHANGED receipt
                   ELSE /\ phase' \in Readings \cup (IF req.path = "compact" /\ req.v2
                                                    THEN {"collecting"} ELSE {})
                        /\ UNCHANGED <<row, share, receipt, told>>
    /\ UNCHANGED <<req, account, admission, present>>

\* A session that Compass served and Claude now answers moves to Claude.
Recover ==
    pin' \in (IF req.session /\ req.path = "messages" /\ account = "claude" /\ present /\ pin = "other"
              THEN {"self", "other"} ELSE {pin})

\* collectBody: the body breaks, or is larger than may be read.
BodyBreaks ==
    /\ phase \in {"collecting", "reading"} /\ Settleable
    /\ Settle /\ Release /\ FailRow
    /\ phase' = "thrown"
    /\ UNCHANGED <<req, account, receipt, pin, told, present>>

\* A compaction is sent once it is whole (Compaction.tla).
CompactionFails ==
    /\ phase = "collecting" /\ Settleable
    /\ Settle /\ SettleFailed /\ FailRow /\ Receipt("interrupted") /\ Return("failed")
    /\ UNCHANGED <<req, account, pin, present>>

CompactionIsWhole ==
    /\ phase = "collecting" /\ Settleable
    /\ Settle /\ SettleUsage /\ Receipt("interrupted") /\ Return("ok")
    /\ UNCHANGED <<req, account, pin, present>>

\* Without the account nothing of a body that was collected is settled.
AccountIsGone ==
    /\ phase \in {"collecting", "reading"} \/ (phase = "answered" /\ req.path = "test")
    /\ ~Settleable
    /\ phase' = "thrown"
    /\ UNCHANGED <<req, account, Books, pin, told, present>>

\* The test's answer is one of the provider's protocol and is paid for, or it is
\* not: an account that answers with something else has failed.
TestAnswered ==
    /\ phase = "answered" /\ req.path = "test" /\ Settleable
    /\ Settle
    /\ \/ SettleUsage /\ Return("ok")
       \/ Release /\ phase' = "thrown" /\ UNCHANGED <<row, told>>
    /\ UNCHANGED <<req, account, receipt, pin, present>>

\* streamResponse, by its result: whole, failed, or cut by the client. Its books
\* are closed before its admission, which goes with the account.
StreamEnds ==
    /\ phase = "streaming"
    /\ Settle
    /\ \/ SettleUsage /\ Recover /\ Receipt("succeeded") /\ Return("ok")
       \/ SettleFailed /\ FailRow /\ Receipt("failed") /\ UNCHANGED pin /\ Return("failed")
       \/ SettleFailed /\ FailRow /\ Receipt("interrupted") /\ UNCHANGED pin /\ Return("cut")
    /\ UNCHANGED <<req, account, present>>

\* Without a body streamResponse closes the row and returns: the admission and
\* the reservation stay. An event stream without one that is no compaction was
\* tried elsewhere by the dispatch.
StreamBodiless ==
    /\ phase = "streaming" /\ account = "codex" /\ (req.stream \/ req.path = "compact")
    /\ FailRow /\ Receipt("interrupted") /\ Return("empty")
    /\ UNCHANGED <<req, account, admission, share, pin, present>>

\* A body that was read says itself that it failed.
BodyFails ==
    /\ phase = "reading" /\ account = "codex" /\ Settleable
    /\ Settle /\ SettleFailed /\ FailRow /\ Receipt("interrupted") /\ Return("failed")
    /\ UNCHANGED <<req, account, pin, present>>

\* It is booked before it is written; a native turn waits for the writing.
BodyRead ==
    /\ phase = "reading" /\ Settleable
    /\ Settle /\ SettleUsage /\ Recover
    /\ IF receipt = "running" THEN phase' = "writing" /\ UNCHANGED told ELSE Return("ok")
    /\ UNCHANGED <<req, account, receipt, present>>

Written ==
    /\ phase = "writing"
    /\ Receipt("succeeded") /\ Return("ok")
    /\ UNCHANGED <<req, account, row, admission, share, pin, present>>

ClosedWhileWriting ==
    /\ phase = "writing"
    /\ phase' = "thrown"
    /\ UNCHANGED <<req, account, Books, pin, told, present>>

\* The operator removes the account, and the session's pins to it with it.
Remove ==
    /\ present /\ phase # "done"
    /\ present' = FALSE
    /\ pin' = IF pin = "self" THEN "none" ELSE pin
    /\ UNCHANGED <<req, phase, account, Books, told>>

Next ==
    \/ Refuse \/ NoCandidate \/ Accept \/ TestBegins \/ Durable
    \/ Served \/ Unserved \/ Failed \/ DispatchThrows \/ Thrown \/ ErrorRead
    \/ Begin \/ BodyBreaks \/ CompactionFails \/ CompactionIsWhole
    \/ AccountIsGone \/ TestAnswered \/ StreamEnds \/ StreamBodiless
    \/ BodyFails \/ BodyRead \/ Written \/ ClosedWhileWriting
    \/ Remove

Spec == Init /\ [][Next]_vars

-----------------------------------------------------------------------------
\* A request whose account was removed under it, or that ended in the dispatch,
\* which Dispatch.tla judges.
Abandoned == told = "error" /\ (~present \/ admission = "none")

\* A stream that had no body: what the code leaves open.
Bodiless == told = "empty"

\* When the handler is over nothing that it acquired is still its own (proxy.js,
\* proxyRequestWithRecovery: each of its returns), but for the admission and the
\* reservation of a stream without a body (2258-2264), whose books are closed.
NothingStaysOpen ==
    phase = "done" =>
        /\ receipt # "running"
        /\ ~Abandoned => row # "reserved"
        /\ ~Abandoned /\ ~Bodiless => admission # "open" /\ share # "reserved"

\* What the books say is what the client got: success is booked for an answer
\* that was whole when it was booked, a receipt succeeds only when its client has
\* it all, and nobody who got an answer has a row that failed.
BooksTellTheStory ==
    phase = "done" =>
        /\ row = "succeeded" => told = "ok"
        /\ receipt = "succeeded" => told = "ok"
        /\ told = "ok" => /\ row # "failed" /\ share # "failed" /\ receipt # "failed"
                          /\ admission = "settled"

\* What a handler that is not over holds, by how far it is: nothing but a row and
\* a receipt before the dispatch; an admission after it, which is settled before
\* anything is written; and of what is thrown only the receipt is still open,
\* unless the account is gone or the dispatch did not say what it holds.
HeldOnTheWay ==
    /\ row # "none" => req.path \in {"responses", "chat"}
    /\ receipt # "none" => req.path = "backend"
    /\ phase # "done" => told = "none"
    /\ phase = "new" => row = "none" /\ receipt = "none"
    /\ phase \in {"new", "durable", "dispatching"} => admission = "none" /\ share = "none"
    /\ phase \in {"new", "durable", "dispatching", "answered", "collecting", "streaming", "reading"} =>
        /\ share \in {"none", "reserved"} /\ row \in {"none", "reserved"}
        /\ receipt \in {"none", "running"}
    /\ phase \in {"answered", "collecting", "streaming", "reading"} => admission # "none"
    /\ phase = "answered" /\ PublicCodex /\ ~req.stream /\ ~Bridge => admission = "settled"
    /\ phase \in {"rejected", "writing"} => admission = "settled" /\ share # "reserved"
    /\ phase = "rejected" => receipt \in {"none", "failed"} /\ row \in {"none", "reserved"}
    /\ phase = "writing" => receipt = "running" /\ share # "failed"
    /\ phase = "thrown" =>
        /\ row # "succeeded" /\ receipt \in {"none", "running"}
        /\ present /\ admission # "none" =>
            admission = "settled" /\ share # "reserved" /\ row # "reserved"

\* Inductive: what holds of a handler at each of its steps.
RequestInv == TypeOK /\ HeldOnTheWay /\ NothingStaysOpen /\ BooksTellTheStory

=============================================================================
