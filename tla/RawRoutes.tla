------------------------------ MODULE RawRoutes ------------------------------
(***************************************************************************)
(* Requests that are passed through to a codex account as they are         *)
(* (proxy.js, proxyRawRequest): the admission, the share's reservation and *)
(* the session's pin along every path of the handler.  As in               *)
(* CompatRoutes.tla health, pacing and the network answer as they like;    *)
(* the handler itself differs in the order of everything, and nothing      *)
(* releases the reservation when a settlement throws: once the account is  *)
(* gone the handler ends there (AccountIsGone).                            *)
(***************************************************************************)
EXTENDS Naturals

CONSTANTS
    Requests,
    Shared      \* the requests that come with a share credential

VARIABLES
    req,        \* per request: where its handler is
    open,       \* the admissions begun and not settled, <<request, nth>>
    share,      \* per request: the reservation
    pinned,     \* the requests whose session was pinned to the account
    present     \* the account is in the store

vars == <<req, open, share, pinned, present>>

Phases == {"new", "ensuring", "pacing", "sent", "rejected", "refreshing", "failed",
           "streaming", "reading", "done"}
ShareStates == {"none", "reserved", "settled", "failed", "released"}

Answers == {"none", "ok", "failed", "cut"}
Handling == [phase : Phases, admission : 0..3, safe : BOOLEAN, again : BOOLEAN,
             answer : Answers, orphaned : BOOLEAN]

TypeOK ==
    /\ req \in [Requests -> Handling]
    /\ open \subseteq Requests \X (1..3)
    /\ share \in [Requests -> ShareStates]
    /\ pinned \subseteq Requests /\ present \in BOOLEAN

Init ==
    /\ \E safe \in [Requests -> BOOLEAN] :
          req = [r \in Requests |-> [phase |-> "new", admission |-> 0, safe |-> safe[r],
                                    again |-> FALSE, answer |-> "none", orphaned |-> FALSE]]
    /\ open = {} /\ share = [r \in Requests |-> "none"] /\ pinned = {} /\ present = TRUE

-----------------------------------------------------------------------------
At(r, phase) == req[r].phase = phase
Goto(r, phase) == req' = [req EXCEPT ![r].phase = phase]

\* The handler's answer, or its error that the server answers.
Answer(r, answer) == req' = [req EXCEPT ![r].phase = "done", ![r].answer = answer]

Settled(r) == open \ {<<r, req[r].admission>>}
Close(r, how) == share' = IF share[r] = "reserved" THEN [share EXCEPT ![r] = how] ELSE share
Release(r) == Close(r, "released")

\* settleUsage books a price as settled; an answer without one, or a failure of
\* the books, releases the reservation.
SettleUsage(r) == \E how \in {"settled", "released"} : Close(r, how)

\* settleFailedAttempt: what was measured is booked as a failure.
SettleFailed(r) == \E how \in {"failed", "released"} : Close(r, how)

-----------------------------------------------------------------------------
(* Choice, admission and reservation: one step, because nothing is awaited *)

\* No candidate, no session of the personal key for it, a header that asks for
\* another account than the share's, unreadable credentials or an exhausted
\* share: what was admitted is settled at once.
Refused(r) ==
    /\ At(r, "new")
    /\ Answer(r, "failed")
    /\ UNCHANGED <<open, share, pinned, present>>

Admit(r) ==
    /\ At(r, "new") /\ present
    /\ req' = [req EXCEPT ![r].phase = "ensuring", ![r].admission = 1]
    /\ open' = open \cup {<<r, 1>>}
    /\ share' = IF r \in Shared THEN [share EXCEPT ![r] = "reserved"] ELSE share
    /\ UNCHANGED <<pinned, present>>

-----------------------------------------------------------------------------
(* Credentials: before the request, and once more after it was rejected *)

NeedsRefresh(r) == At(r, "ensuring") \/ At(r, "refreshing")

NotRefreshed(r) ==
    /\ NeedsRefresh(r)
    /\ Goto(r, "pacing")
    /\ UNCHANGED <<open, share, pinned, present>>

\* New credentials have a new admission.
Refreshed(r) ==
    /\ NeedsRefresh(r) /\ present
    /\ req' = [req EXCEPT ![r].phase = "pacing", ![r].admission = @ + 1]
    /\ open' = Settled(r) \cup {<<r, req[r].admission + 1>>}
    /\ UNCHANGED <<share, pinned, present>>

\* The refresh fails, or the account is not eligible any more.
NotRefreshable(r) ==
    /\ NeedsRefresh(r) /\ present
    /\ open' = Settled(r)
    /\ Release(r)
    /\ Answer(r, "failed")
    /\ UNCHANGED <<pinned, present>>

-----------------------------------------------------------------------------
(* The request *)

Send(r) ==
    /\ At(r, "pacing")
    /\ Goto(r, "sent")
    /\ UNCHANGED <<open, share, pinned, present>>

\* The pacer's refusal, of a removed account too: nothing that the settlement
\* throws is heard.
PacerRefused(r) ==
    /\ At(r, "pacing")
    /\ open' = Settled(r)
    /\ Release(r)
    /\ Answer(r, "failed")
    /\ UNCHANGED <<pinned, present>>

\* The host's health refuses, the connection breaks, cookies cannot be stored,
\* the client goes: all of them give everything back.
Broken(r) ==
    /\ req[r].phase \in {"pacing", "sent", "rejected"} /\ present
    /\ open' = Settled(r)
    /\ Release(r)
    /\ Answer(r, "failed")
    /\ UNCHANGED <<pinned, present>>

\* 401 and 403 are read to see whether they were charged; those that were, those
\* of unsafe methods and those of the second try are failures.
Unauthorized(r) ==
    /\ At(r, "sent")
    /\ Goto(r, IF req[r].safe /\ ~req[r].again THEN "rejected" ELSE "failed")
    /\ UNCHANGED <<open, share, pinned, present>>

Charged(r) ==
    /\ At(r, "rejected")
    /\ Goto(r, "failed")
    /\ UNCHANGED <<open, share, pinned, present>>

TryAgain(r) ==
    /\ At(r, "rejected")
    /\ req' = [req EXCEPT ![r].phase = "refreshing", ![r].again = TRUE]
    /\ UNCHANGED <<open, share, pinned, present>>

HttpFailure(r) ==
    /\ At(r, "sent")
    /\ Goto(r, "failed")
    /\ UNCHANGED <<open, share, pinned, present>>

Failed(r) ==
    /\ At(r, "failed") /\ present
    /\ open' = Settled(r)
    /\ SettleFailed(r)
    /\ Answer(r, "failed")
    /\ UNCHANGED <<pinned, present>>

\* A success pins the session, for which the account must be there.
Succeeded(r) ==
    /\ At(r, "sent")
    /\ \E sessioned, streams \in BOOLEAN :
        /\ sessioned => present
        /\ pinned' = IF sessioned THEN pinned \cup {r} ELSE pinned
        /\ Goto(r, IF streams THEN "streaming" ELSE "reading")
    /\ UNCHANGED <<open, share, present>>

-----------------------------------------------------------------------------
(* The body *)

\* streamPassthrough to its end: a terminal event says how it went, a stream
\* without one is a failure, a client that left is none of the account's fault.
StreamEnds(r) ==
    /\ At(r, "streaming") /\ present
    /\ open' = Settled(r)
    /\ \/ SettleUsage(r) /\ Answer(r, "ok")
       \/ SettleFailed(r) /\ Answer(r, "failed")
    /\ UNCHANGED <<pinned, present>>

StreamBreaks(r) ==
    /\ At(r, "streaming") /\ present
    /\ open' = Settled(r)
    /\ SettleFailed(r)
    /\ Answer(r, "cut")
    /\ UNCHANGED <<pinned, present>>

BodyRead(r) ==
    /\ At(r, "reading") /\ present
    /\ open' = Settled(r)
    /\ SettleUsage(r)
    /\ Answer(r, "ok")
    /\ UNCHANGED <<pinned, present>>

BodyBreaks(r) ==
    /\ At(r, "reading") /\ present
    /\ open' = Settled(r)
    /\ Release(r)
    /\ Answer(r, "failed")
    /\ UNCHANGED <<pinned, present>>

-----------------------------------------------------------------------------
(* The account goes *)

\* The manager removes the account, whose record the admissions are part of.
Remove ==
    /\ present
    /\ present' = FALSE
    /\ open' = {}
    /\ UNCHANGED <<req, share, pinned>>

\* Whatever the handler awaited, settling (or pinning) for an account that is
\* gone throws, and no handler of the error releases the reservation.
AccountIsGone(r) ==
    /\ ~present
    /\ req[r].phase \in {"ensuring", "refreshing", "pacing", "sent", "rejected", "failed",
                         "streaming", "reading"}
    /\ req' = [req EXCEPT ![r].phase = "done", ![r].answer = "failed", ![r].orphaned = TRUE]
    /\ UNCHANGED <<open, share, pinned, present>>

Next ==
    \/ \E r \in Requests :
        \/ Refused(r) \/ Admit(r) \/ NotRefreshed(r) \/ Refreshed(r) \/ NotRefreshable(r)
        \/ Send(r) \/ PacerRefused(r) \/ Broken(r) \/ Unauthorized(r) \/ Charged(r) \/ TryAgain(r)
        \/ HttpFailure(r) \/ Failed(r) \/ Succeeded(r)
        \/ StreamEnds(r) \/ StreamBreaks(r) \/ BodyRead(r) \/ BodyBreaks(r)
        \/ AccountIsGone(r)
    \/ Remove

Spec == Init /\ [][Next]_vars

-----------------------------------------------------------------------------
\* Whichever way a raw request ends, none of its admissions is open, and its
\* share's reservation is closed, as settled only for an answer; what stays
\* reserved was reserved for an account that was removed under the request
\* (settleUpstreamAttempt, store.js:999, throws in proxyRawRequest).
NothingIsLeft ==
    /\ \A a \in open : a[2] = req[a[1]].admission /\ ~At(a[1], "done")
    /\ \A r \in Requests :
        /\ req[r].orphaned => ~present
        /\ At(r, "done") =>
            /\ share[r] = "reserved" => req[r].orphaned
            /\ share[r] = "settled" => req[r].answer = "ok"

\* What a request that is not over has behind it: credentials are replaced once
\* before it is sent and once after, an admission is that of the request as it
\* is now, and a reservation waits for the answer.
Way(r) ==
    /\ At(r, "new") => req[r].admission = 0 /\ share[r] = "none"
    /\ At(r, "ensuring") => req[r].admission = 1
    /\ At(r, "new") \/ At(r, "ensuring") \/ At(r, "rejected") => ~req[r].again
    /\ At(r, "refreshing") => req[r].again
    /\ ~req[r].again \/ At(r, "refreshing") => req[r].admission <= 2
    /\ At(r, "new") \/ At(r, "done") \/ req[r].admission > 0
    /\ ~At(r, "done") => share[r] \in {"none", "reserved"} /\ ~req[r].orphaned
    /\ At(r, "done") =>
        /\ share[r] = "reserved" => req[r].orphaned
        /\ share[r] = "settled" => req[r].answer = "ok"
    /\ req[r].orphaned => ~present
    /\ \A n \in 1..3 : <<r, n>> \in open =>
        n = req[r].admission /\ present /\ ~At(r, "done")

OnTheirWay == \A r \in Requests : Way(r)

\* Inductive: what holds of the raw requests at each of their steps.
RawInv == TypeOK /\ OnTheirWay

=============================================================================
