---------------------------- MODULE CompatRoutes ----------------------------
(***************************************************************************)
(* The compatibility routes (compatibility.js): files, transcriptions and  *)
(* images, answered by a Codex account.  One request is a sequence of      *)
(* fetches, each with an admission of its own; a request of a shared key   *)
(* also holds one reservation, from the choice of the account to the       *)
(* answer.  Health, pacing and the network answer as they like here (they  *)
(* are UpstreamHealth, Pacer and the world); what matters is what each     *)
(* path of the handler leaves behind.  The account is not removed here: a  *)
(* settlement that throws for a removed account skips nothing, because the *)
(* caller's "finally" releases the reservation (handleCompatibilityRequest)*)
(* and the account's admissions went with its record.                      *)
(***************************************************************************)
EXTENDS Naturals, FiniteSets

CONSTANTS
    Requests,
    Kind,           \* of a request: "file", "audio" or "image"
    Shared,         \* the requests that come with a share credential
    MaxPolls        \* bound: fetches that finalizeFile makes

VARIABLES
    req,        \* per request: where its handler is
    open,       \* the admissions begun and not settled, <<request, fetch>>
    share,      \* per request: the reservation, external to the gateway's store
    pinned      \* the requests whose session was pinned to the account

vars == <<req, open, share, pinned>>

Phases == {"new", "chosen", "pacing", "sent", "refreshing", "body", "read", "upload", "done"}
Answers == {"none", "ok", "failed"}
ShareStates == {"none", "reserved", "ok", "failed"}

Handling ==
    [phase : Phases, stage : {"first", "finalize"}, fetch : Nat, admission : Nat,
     refreshed : BOOLEAN, polls : Nat, answer : Answers, ok : BOOLEAN, deferred : BOOLEAN]

TypeOK ==
    /\ req \in [Requests -> Handling]
    /\ share \in [Requests -> ShareStates]
    /\ open \subseteq Requests \X Nat
    /\ pinned \subseteq Requests

Init ==
    /\ req = [r \in Requests |-> [phase |-> "new", stage |-> "first", fetch |-> 0, admission |-> 0,
                                  refreshed |-> FALSE, polls |-> 0, answer |-> "none",
                                  ok |-> FALSE, deferred |-> FALSE]]
    /\ open = {}
    /\ share = [r \in Requests |-> "none"]
    /\ pinned = {}

-----------------------------------------------------------------------------
(* Bookkeeping *)

Begin(r) == [req[r] EXCEPT !.fetch = req[r].fetch + 1, !.admission = req[r].fetch + 1]
Settled(r) == open \ {<<r, req[r].admission>>}

\* releaseReservation and settleSession: only a reservation can be closed.
Closed(r, how) == IF share[r] = "reserved" THEN [share EXCEPT ![r] = how] ELSE share

\* pinCompatibilitySession: not for a shared key.
Pin(r) == pinned' = pinned \cup ({r} \ Shared)

\* handleCompatibilityRequest: the answer, or the error the server turns into
\* one, and the release that ends every request.
End(r, answer, booked) ==
    /\ req' = [req EXCEPT ![r].phase = "done", ![r].answer = answer]
    /\ share' = IF booked[r] = "reserved" THEN [booked EXCEPT ![r] = "failed"] ELSE booked

-----------------------------------------------------------------------------
(* The request before its first fetch *)

\* An invalid request is answered at once; a file that is only looked up too.
Invalid(r) ==
    /\ req[r].phase = "new"
    /\ End(r, "failed", share)
    /\ UNCHANGED <<open, pinned>>

\* codexContext: the first account whose credentials can be used, that has an
\* image model where one is needed and whose session takes the reservation.
Choose(r) ==
    /\ req[r].phase = "new"
    /\ req' = [req EXCEPT ![r].phase = "chosen"]
    /\ share' = IF r \in Shared THEN [share EXCEPT ![r] = "reserved"] ELSE share
    /\ UNCHANGED <<open, pinned>>

NoCodex(r) ==
    /\ req[r].phase = "new"
    /\ End(r, "failed", share)
    /\ UNCHANGED <<open, pinned>>

\* transcribe looks at its keywords and languages after the reservation.
LateInvalid(r) ==
    /\ req[r].phase = "chosen" /\ Kind[r] = "audio"
    /\ End(r, "failed", share)
    /\ UNCHANGED <<open, pinned>>

-----------------------------------------------------------------------------
(* codexFetch *)

Admit(r) ==
    /\ req[r].phase = "chosen"
    /\ req' = [req EXCEPT ![r] = [Begin(r) EXCEPT !.phase = "pacing", !.refreshed = FALSE,
                                                  !.deferred = (Kind[r] = "image")]]
    /\ open' = open \cup {<<r, req[r].fetch + 1>>}
    /\ UNCHANGED <<share, pinned>>

NotEligible(r) ==
    /\ req[r].phase = "chosen"
    /\ End(r, "failed", share)
    /\ UNCHANGED <<open, pinned>>

\* The pacer lets the fetch through.
Send(r) ==
    /\ req[r].phase = "pacing"
    /\ req' = [req EXCEPT ![r].phase = "sent"]
    /\ UNCHANGED <<open, share, pinned>>

\* The pacer refuses, the host is not to be reached, the connection breaks or
\* the client goes: the admission is settled and the error thrown on.
Broken(r) ==
    /\ req[r].phase \in {"pacing", "sent"}
    /\ open' = Settled(r)
    /\ End(r, "failed", share)
    /\ UNCHANGED pinned

Headers(r) ==
    /\ req[r].phase = "sent"
    /\ \E ok \in BOOLEAN : req' = [req EXCEPT ![r].phase = "body", ![r].ok = ok]
    /\ UNCHANGED <<open, share, pinned>>

\* The first 401 or 403 that carries no usage, with a refresh token at hand.
Unauthorized(r) ==
    /\ req[r].phase = "sent" /\ ~req[r].refreshed
    /\ req' = [req EXCEPT ![r].phase = "refreshing", ![r].refreshed = TRUE]
    /\ UNCHANGED <<open, share, pinned>>

\* A concurrent request had refreshed: the same admission goes on.
RefreshedElsewhere(r) ==
    /\ req[r].phase = "refreshing"
    /\ req' = [req EXCEPT ![r].phase = "pacing"]
    /\ UNCHANGED <<open, share, pinned>>

\* Mutant: the new admission is begun beside the old one.
RefreshedBeside(r) ==
    /\ req[r].phase = "refreshing"
    /\ req' = [req EXCEPT ![r] = [Begin(r) EXCEPT !.phase = "pacing"]]
    /\ open' = open \cup {<<r, req[r].fetch + 1>>}
    /\ UNCHANGED <<share, pinned>>

\* New credentials: the old admission ends, another one begins.
Refreshed(r) ==
    /\ req[r].phase = "refreshing"
    /\ req' = [req EXCEPT ![r] = [Begin(r) EXCEPT !.phase = "pacing"]]
    /\ open' = Settled(r) \cup {<<r, req[r].fetch + 1>>}
    /\ UNCHANGED <<share, pinned>>

\* The refresh fails, or the account is not eligible any more.
RefreshFailed(r) ==
    /\ req[r].phase = "refreshing"
    /\ open' = Settled(r)
    /\ End(r, "failed", share)
    /\ UNCHANGED pinned

-----------------------------------------------------------------------------
(* The body *)

\* responseJson and responseBytes settle what the fetch deferred to them.
\* What a broken image answer reported is still charged, as a failure.
BodyBroken(r) ==
    /\ req[r].phase = "body"
    /\ open' = Settled(r)
    /\ \E measured \in BOOLEAN :
          End(r, "failed", IF req[r].deferred /\ measured THEN Closed(r, "failed") ELSE share)
    /\ UNCHANGED pinned

\* A JSON body; an answer that is no JSON is a failure for the caller.
BodyRead(r) ==
    /\ req[r].phase = "body" /\ ~req[r].deferred
    /\ open' = Settled(r)
    /\ \E valid \in BOOLEAN :
          req' = [req EXCEPT ![r].phase = "read", ![r].ok = req[r].ok /\ valid]
    /\ UNCHANGED <<share, pinned>>

\* image: the events say what happened; the outcome settles the admission.
ImageRead(r) ==
    /\ req[r].phase = "body" /\ req[r].deferred
    /\ open' = Settled(r)
    /\ \/ /\ req[r].ok
          /\ Pin(r)
          /\ End(r, "ok", Closed(r, "ok"))
       \/ /\ \E measured \in BOOLEAN : End(r, "failed", IF measured THEN Closed(r, "failed") ELSE share)
          /\ UNCHANGED pinned

\* transcribe: what was measured is charged, whatever came of it.
Transcribed(r) ==
    /\ req[r].phase = "read" /\ Kind[r] = "audio"
    /\ IF req[r].ok
       THEN End(r, "ok", Closed(r, "ok")) /\ Pin(r)
       ELSE /\ \E measured \in BOOLEAN : End(r, "failed", IF measured THEN Closed(r, "failed") ELSE share)
            /\ UNCHANGED pinned
    /\ UNCHANGED open

\* createFile: the upload goes to a place the answer named, or does not.
FileCreated(r) ==
    /\ req[r].phase = "read" /\ Kind[r] = "file" /\ req[r].stage = "first"
    /\ \/ /\ req[r].ok
          /\ req' = [req EXCEPT ![r].phase = "upload"]
          /\ UNCHANGED share
       \/ End(r, "failed", share)
    /\ UNCHANGED <<open, pinned>>

Uploaded(r) ==
    /\ req[r].phase = "upload"
    /\ \/ /\ req' = [req EXCEPT ![r].phase = "chosen", ![r].stage = "finalize"]
          /\ UNCHANGED share
       \/ End(r, "failed", share)
    /\ UNCHANGED <<open, pinned>>

\* finalizeFile asks again while the answer is "pending".
FilePending(r) ==
    /\ req[r].phase = "read" /\ Kind[r] = "file" /\ req[r].stage = "finalize"
    /\ req[r].ok /\ req[r].polls < MaxPolls
    /\ req' = [req EXCEPT ![r].phase = "chosen", ![r].polls = req[r].polls + 1]
    /\ UNCHANGED <<open, share, pinned>>

FileFinalized(r) ==
    /\ req[r].phase = "read" /\ Kind[r] = "file" /\ req[r].stage = "finalize"
    /\ \/ /\ req[r].ok
          /\ Pin(r)
          /\ End(r, "ok", Closed(r, "ok"))
       \/ End(r, "failed", share) /\ UNCHANGED pinned
    /\ UNCHANGED open

-----------------------------------------------------------------------------

Next ==
    \E r \in Requests :
      \/ Invalid(r) \/ Choose(r) \/ NoCodex(r) \/ LateInvalid(r)
      \/ Admit(r) \/ NotEligible(r) \/ Send(r) \/ Broken(r) \/ Headers(r)
      \/ Unauthorized(r) \/ RefreshedElsewhere(r) \/ Refreshed(r) \/ RefreshFailed(r)
      \/ BodyBroken(r) \/ BodyRead(r) \/ ImageRead(r)
      \/ Transcribed(r) \/ FileCreated(r) \/ Uploaded(r) \/ FilePending(r) \/ FileFinalized(r)

Spec == Init /\ [][Next]_vars

-----------------------------------------------------------------------------

(* Whatever path a compatibility request takes, at any of its fetches and   *)
(* with the credentials refreshed on the way, every admission that is open *)
(* belongs to a request that will settle it: the one it is fetching with.  *)
(* The reservation is open only while the request runs, and it is booked   *)
(* as a success exactly when the client was given one (compatibility.js    *)
(* codexFetch, settleCodexFetch, settleCost and the finally of             *)
(* handleCompatibilityRequest).                                            *)
RoutesLeaveNothing ==
    /\ \A a \in open :
         /\ a[2] = req[a[1]].admission
         /\ req[a[1]].phase \in {"pacing", "sent", "refreshing", "body"}
    /\ \A r \in Requests :
         /\ share[r] = "reserved" => req[r].phase \notin {"new", "done"}
         /\ req[r].phase = "done" /\ share[r] # "none" => share[r] = req[r].answer

\* What a request that is not over has behind it: only the admission it is
\* fetching with, and a reservation that nobody has closed yet.
Way(r) ==
    /\ req[r].phase = "new" => share[r] = "none"
    /\ req[r].phase # "done" => share[r] \in {"none", "reserved"}
    /\ req[r].phase = "done" => share[r] \in {"none", req[r].answer} /\ req[r].answer # "none"
    /\ \A a \in open : a[1] = r =>
         a[2] = req[r].admission /\ req[r].phase \in {"pacing", "sent", "refreshing", "body"}

OnTheirWay == \A r \in Requests : Way(r)

\* Inductive: what holds of the compatibility requests at each of their steps.
CompatInv == TypeOK /\ OnTheirWay

\* The three ways the steps touch the handler, for their proofs: it notes one
\* thing and goes on to p, it is at a fetch, it answers.
Noted(r, p) ==
    \/ req' = [req EXCEPT ![r].phase = p]
    \/ \E v \in Answers : req' = [req EXCEPT ![r].phase = p, ![r].answer = v]
    \/ \E v \in BOOLEAN : req' = [req EXCEPT ![r].phase = p, ![r].ok = v]
    \/ \E v \in BOOLEAN : req' = [req EXCEPT ![r].phase = p, ![r].refreshed = v]
    \/ \E v \in {"first", "finalize"} : req' = [req EXCEPT ![r].phase = p, ![r].stage = v]
    \/ \E v \in Nat : req' = [req EXCEPT ![r].phase = p, ![r].polls = v]

Fetching == {"pacing", "sent", "refreshing", "body"}

EndBooked(r, answer) ==
    \/ End(r, answer, Closed(r, answer))
    \/ answer = "failed" /\ End(r, answer, share)

=============================================================================
