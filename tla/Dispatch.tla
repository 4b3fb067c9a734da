------------------------------ MODULE Dispatch ------------------------------
(***************************************************************************)
(* dispatchCandidates (proxy.js) and the delivery of its answer            *)
(* (proxyRequestWithRecovery, streamResponse): the loop that takes one     *)
(* request through its candidates, with everything an attempt takes and    *)
(* must give back: the account's admission, the share reservation, the row *)
(* of the gateway ledger, and the account's spending.                      *)
(*                                                                         *)
(* Requests run concurrently and hand over only where the code awaits. The *)
(* head of the loop runs without an await: nothing else moves meanwhile.   *)
(* Health, pacing, host health and quotas answer nondeterministically here *)
(* (UpstreamHealth, Pacer and HostHealth model them). Three routes:        *)
(*   "public"    /v1/responses or chat with an API key: rows in the ledger *)
(*   "messages"  automatic Anthropic route: Claude, then Compass; the      *)
(*               spending cap is enforced                                  *)
(*   "share"     a share credential: a reservation for every attempt       *)
(* The process never crashes here; explicit pins, connection tests and     *)
(* locally counted tokens are left out.                                    *)
(***************************************************************************)
EXTENDS Integers, SequencesExt, FiniteSetTheorems, TLAPS

CONSTANTS
    Requests,
    Accounts,
    NoAccount,
    Route,            \* [Requests -> Routes]
    Type,             \* [Accounts -> Types]
    RetryLimit,       \* [Accounts -> Nat], rounds of retries of a Claude account
    MaxAttempts,      \* MAX_GATEWAY_CANDIDATE_ATTEMPTS
    Caps,             \* the spending caps an operator sets; one attempt costs 1
    MaxCapChanges,    \* bound on SetCap, per account
    MaxResends        \* COMPATIBILITY_RETRY_LIMIT

Routes == {"public", "messages", "share"}
Types == {"codex", "claude", "compass"}

ASSUME ParametersAssumption ==
    /\ IsFiniteSet(Requests) /\ IsFiniteSet(Accounts)
    /\ Route \in [Requests -> Routes]
    /\ Type \in [Accounts -> Types]
    /\ RetryLimit \in [Accounts -> Nat]
    /\ \A a \in Accounts : Type[a] # "claude" => RetryLimit[a] = 0
    /\ NoAccount \notin Accounts
    /\ MaxAttempts \in Nat \ {0}
    /\ Caps \subseteq Nat
    /\ {MaxCapChanges, MaxResends} \subseteq Nat

VARIABLES
    upstreams,        \* the accounts in the store
    requests,         \* db.gatewayRequests with their db.gatewayAttempts
    reserved,         \* share reservations, by request and attempt
    job               \* the local state of a request in dispatchCandidates

vars == <<upstreams, requests, reserved, job>>

-----------------------------------------------------------------------------
(* State *)

\* "epoch" stands for capStartedAt, "admissions" for the leases handed out.
Upstream == [present : BOOLEAN, cap : Caps, epoch : 0 .. MaxCapChanges,
             spent : Nat, admissions : Nat]

Attempt == [status : {"in_progress", "retryable_failed", "final"}, charges : Nat]

Row == [status : {"absent", "open", "closed"}, attempts : Seq(Attempt)]

Suspended == {"credentials", "pacing", "fetching", "refreshing", "delivering"}
Ended == {"done", "leaked", "lost"}

Job == [pc : {"idle", "choosing", "answering"} \cup Suspended \cup Ended,
        plan : Seq(Accounts),
        tried : [{"all", "claude", "compass"} -> Nat],
        at : Accounts \cup {NoAccount},
        attempt : Nat,                  \* attemptId
        since : 0 .. MaxCapChanges,     \* startedAt, as a cap epoch
        auth : {"first", "retrying", "retried"},
        resends : 0 .. MaxResends,
        hostBlocked : BOOLEAN,
        closed : BOOLEAN,               \* req.aborted || res.destroyed
        threw : BOOLEAN]

NoJob == [pc |-> "idle", plan |-> <<>>, tried |-> [p \in {"all", "claude", "compass"} |-> 0],
          at |-> NoAccount, attempt |-> 0, since |-> 0, auth |-> "first", resends |-> 0,
          hostBlocked |-> FALSE, closed |-> FALSE, threw |-> FALSE]

Public(r) == Route[r] = "public"
Messages(r) == Route[r] = "messages"
Shared(r) == Route[r] = "share"

At(r) == job[r].at
Present(r) == upstreams[At(r)].present
Pending(r) == job[r].plan # <<>>
Candidate(r) == Head(job[r].plan)
Retrying(r) == job[r].auth = "retrying"

\* mutant: off by one at the cap
EligibleAtCap(a) == upstreams[a].spent <= upstreams[a].cap

Eligible(a) == upstreams[a].spent < upstreams[a].cap

Phase(r) == IF Messages(r) THEN Type[Candidate(r)] ELSE "all"
BudgetSpent(r) == job[r].tried[Phase(r)] >= MaxAttempts

-----------------------------------------------------------------------------
(* The order of attempts *)

Among(candidates, accounts) ==
    LET kept[n \in 0 .. Len(candidates)] ==
            IF n = 0 THEN <<>>
            ELSE IF candidates[n] \in accounts THEN Append(kept[n - 1], candidates[n])
            ELSE kept[n - 1]
    IN  kept[Len(candidates)]

OfType(candidates, type) == Among(candidates, {a \in Accounts : Type[a] = type})

\* Round after round, each over the candidates whose retry limit reaches it.
LastRound(candidates) == Max({0} \cup {RetryLimit[a] : a \in Range(candidates)})

Rounds(candidates) ==
    LET Round(n) == Among(candidates, {a \in Accounts : RetryLimit[a] >= n})
    IN  FlattenSeq([n \in 1 .. LastRound(candidates) + 1 |-> Round(n - 1)])

CandidateAttempts(r, candidates) ==
    IF Messages(r)
    THEN Rounds(OfType(candidates, "claude")) \o Rounds(OfType(candidates, "compass"))
    ELSE Rounds(candidates)

\* What the planner may answer: some of the accounts that serve the route.
Serves(r, a) == upstreams[a].present /\ (Messages(r) => Type[a] # "codex")
Plans(r) == UNION {SetToSeqs(S) : S \in SUBSET {a \in Accounts : Serves(r, a)}}

-----------------------------------------------------------------------------
(* The ledger's rows. The wrappers around retry and finalize swallow what   *)
(* the store refuses, so a refused call leaves the row as it is.            *)

InProgress(row) ==
    row.attempts # <<>> /\ row.attempts[Len(row.attempts)].status = "in_progress"

EndAttempt(row, status, cost) ==
    [row EXCEPT !.attempts[Len(row.attempts)] =
                    [status |-> status, charges |-> @.charges + cost]]

BegunRow(row) ==
    [row EXCEPT !.attempts = Append(@, [status |-> "in_progress", charges |-> 0])]

\* Usage of an attempt that goes on or is given up, settled outside the row.
ChargedRow(row, cost) ==
    [row EXCEPT !.attempts[Len(row.attempts)].charges = @ + cost]

\* mutant: the row is not told that its attempt was given up
RetriedRowLater(row, cost) == ChargedRow(row, cost)

RetriedRow(row, cost) ==
    IF row.status = "open" /\ InProgress(row)
    THEN EndAttempt(row, "retryable_failed", cost) ELSE row

FinalizedRow(row, cost) ==
    IF row.status = "open" /\ InProgress(row)
    THEN [EndAttempt(row, "final", cost) EXCEPT !.status = "closed"] ELSE row

\* mutant: the last failure names the attempt that was given up
ClosedRowOfAttempt(row) == FinalizedRow(row, 0)

\* finalizeGatewayFailure with attemptId null closes the request alone.
ClosedRow(row) == IF row.status = "open" THEN [row EXCEPT !.status = "closed"] ELSE row

SetRow(r, row) ==
    requests' = IF Public(r) THEN [requests EXCEPT ![r] = row] ELSE requests

-----------------------------------------------------------------------------
(* What the ways out of an attempt have in common *)

Release(r) == reserved' = reserved \ {<<r, job[r].attempt>>}

\* mutant: settled by the handler and again by its caller
SettleTwice(r, cost) ==
    upstreams' = [upstreams EXCEPT ![At(r)].admissions = @ - 2]

\* settleUpstreamAttempt, with recordUsage when the attempt was measured: a
\* cap set after the attempt began does not count it.
Settle(r, cost) ==
    LET counted == upstreams[At(r)].cap > 0 /\ job[r].since = upstreams[At(r)].epoch
    IN  upstreams' = [upstreams EXCEPT ![At(r)].admissions = @ - 1,
                                       ![At(r)].spent = @ + IF counted THEN cost ELSE 0]

GiveBack(r, cost) == Present(r) /\ Settle(r, cost) /\ Release(r)

Goto(r, pc) == job' = [job EXCEPT ![r].pc = pc]

\* mutant: the loop looks at the same candidate again
SameCandidate(r) == [job EXCEPT ![r].pc = "choosing", ![r].at = NoAccount]

\* continue
NextCandidate(r) ==
    [job EXCEPT ![r] = [job[r] EXCEPT !.pc = "choosing", !.plan = Tail(@), !.at = NoAccount,
                                      !.since = 0, !.auth = "first", !.resends = 0]]

FailOver(r, cost) ==
    /\ GiveBack(r, cost)
    /\ SetRow(r, RetriedRow(requests[r], cost))
    /\ job' = NextCandidate(r)

\* return, with an answer that names the attempt
Answer(r, cost) ==
    /\ GiveBack(r, cost)
    /\ SetRow(r, ChargedRow(requests[r], cost))
    /\ Goto(r, "answering")

\* The end of the call, and of its local variables.
Return(r) == job' = [job EXCEPT ![r] = [NoJob EXCEPT !.pc = "done"]]
Throw(r) ==
    job' = [job EXCEPT ![r] = [NoJob EXCEPT !.pc = "done", !.threw = TRUE, !.closed = job[r].closed]]

Costs == {0, 1}

-----------------------------------------------------------------------------
(* The head of the loop *)

Plan(r) ==
    /\ job[r].pc = "idle"
    /\ \E candidates \in Plans(r) :
          /\ SetRow(r, [requests[r] EXCEPT !.status =
                            IF candidates = <<>> THEN "closed" ELSE "open"])
          /\ job' = [job EXCEPT ![r].pc = IF candidates = <<>> THEN "done" ELSE "choosing",
                                ![r].plan = CandidateAttempts(r, candidates)]
    /\ UNCHANGED <<upstreams, reserved>>

\* The client has gone: the request is finalized without an attempt.
ClientGone(r) ==
    /\ job[r].closed /\ Pending(r)
    /\ SetRow(r, ClosedRow(requests[r]))
    /\ Throw(r)
    /\ UNCHANGED <<upstreams, reserved>>

OutOfBudget(r) ==
    /\ ~ job[r].closed /\ Pending(r) /\ BudgetSpent(r)
    /\ job' = IF Messages(r) THEN NextCandidate(r) ELSE [job EXCEPT ![r].plan = <<>>]
    /\ UNCHANGED <<upstreams, requests, reserved>>

\* Not selected for the share, gone from the store, behind a blocked host,
\* over its cap, or refused by beginUpstreamAttempt.
Skip(r) ==
    /\ ~ job[r].closed /\ Pending(r) /\ ~ BudgetSpent(r)
    /\ job' = NextCandidate(r)
    /\ UNCHANGED <<upstreams, requests, reserved>>

MayBegin(r) ==
    /\ ~ job[r].closed /\ Pending(r) /\ ~ BudgetSpent(r)
    /\ upstreams[Candidate(r)].present
    /\ ~ (job[r].hostBlocked /\ Type[Candidate(r)] = "codex")
    /\ Messages(r) => Eligible(Candidate(r))

CountTry(j, phase) == [j EXCEPT !.tried[phase] = @ + 1]

Begin(r) ==
    /\ MayBegin(r)
    /\ upstreams' = [upstreams EXCEPT ![Candidate(r)].admissions = @ + 1]
    /\ SetRow(r, BegunRow(requests[r]))
    /\ reserved' = reserved \cup (IF Shared(r) THEN {<<r, job[r].attempt + 1>>} ELSE {})
    /\ job' = [job EXCEPT ![r] =
                  [CountTry(job[r], Phase(r)) EXCEPT !.pc = "credentials", !.at = Candidate(r),
                                                     !.attempt = @ + 1,
                                                     !.since = upstreams[Candidate(r)].epoch]]

\* The admission taken is settled at once: the account is as it was.
ReservationRefused(r) ==
    /\ MayBegin(r) /\ Shared(r)
    /\ job' = [NextCandidate(r) EXCEPT ![r] = CountTry(@, Phase(r))]
    /\ UNCHANGED <<upstreams, requests, reserved>>

\* store.credentials throws: settled, and the exception leaves the request.
Undecryptable(r) ==
    /\ MayBegin(r)
    /\ Throw(r)
    /\ UNCHANGED <<upstreams, requests, reserved>>

Exhausted(r) ==
    /\ ~ Pending(r)
    /\ SetRow(r, ClosedRow(requests[r]))
    /\ Return(r)
    /\ UNCHANGED <<upstreams, reserved>>

Choose(r) ==
    /\ job[r].pc = "choosing"
    /\ \/ ClientGone(r) \/ OutOfBudget(r) \/ Skip(r) \/ Begin(r)
       \/ ReservationRefused(r) \/ Undecryptable(r) \/ Exhausted(r)

-----------------------------------------------------------------------------
(* Credentials *)

CredentialsReady(r) ==
    /\ job[r].pc = "credentials"
    /\ Goto(r, "pacing")
    /\ UNCHANGED <<upstreams, requests, reserved>>

\* mutant: taken again, but not settled before
ReadmittedTwice(r) ==
    /\ Present(r)
    /\ upstreams' = [upstreams EXCEPT ![At(r)].admissions = @ + 1]
    /\ Goto(r, "pacing")
    /\ UNCHANGED <<requests, reserved>>

\* After a refresh the admission is settled and taken again ...
Readmitted(r) ==
    /\ Present(r)
    /\ Goto(r, "pacing")
    /\ UNCHANGED <<upstreams, requests, reserved>>

\* ... or refused, and the request is answered 503.
NotReadmitted(r) == Answer(r, 0)

Refreshed(r) ==
    /\ job[r].pc \in {"credentials", "refreshing"} /\ Type[At(r)] # "compass"
    /\ Readmitted(r) \/ NotReadmitted(r)

\* mutant: the share's reservation is kept
FailedCredentialsUnreleased(r) ==
    /\ Present(r) /\ Settle(r, 0) /\ Goto(r, "answering")
    /\ UNCHANGED <<requests, reserved>>

\* Only the automatic Claude route fails over.
FailedCredentials(r) ==
    IF Messages(r) /\ Type[At(r)] = "claude" THEN FailOver(r, 0) ELSE Answer(r, 0)

CredentialsFailed(r) ==
    /\ job[r].pc = "credentials" /\ Type[At(r)] # "compass"
    /\ FailedCredentials(r)

-----------------------------------------------------------------------------
(* requestUpstream, up to the send *)

\* mutant: the cap is not looked at again after the wait
SendUnchecked(r) ==
    /\ job[r].pc = "pacing"
    /\ ~ job[r].closed /\ Present(r)
    /\ Goto(r, "fetching")
    /\ UNCHANGED <<upstreams, requests, reserved>>

Send(r) ==
    /\ job[r].pc = "pacing"
    /\ ~ job[r].closed /\ Present(r)
    /\ Messages(r) => Eligible(At(r))
    /\ Goto(r, "fetching")
    /\ UNCHANGED <<upstreams, requests, reserved>>

SpendingChanged(r) ==
    /\ job[r].pc = "pacing"
    /\ Messages(r) /\ ~ Eligible(At(r))
    /\ FailOver(r, 0)

CapacityChanged(r) ==
    /\ job[r].pc = "pacing" /\ Type[At(r)] = "codex" /\ ~ Retrying(r)
    /\ FailOver(r, 0)

\* Only here is the settling of a removed account's admission guarded.
PacingRefused(r) ==
    /\ job[r].pc = "pacing" /\ ~ Retrying(r)
    /\ IF Present(r) THEN Settle(r, 0) ELSE UNCHANGED upstreams
    /\ Release(r)
    /\ SetRow(r, RetriedRow(requests[r], 0))
    /\ job' = NextCandidate(r)

PacingAborted(r) ==
    /\ job[r].pc = "pacing" /\ ~ Retrying(r) /\ job[r].closed
    /\ IF Present(r) THEN Settle(r, 0) ELSE UNCHANGED upstreams
    /\ Release(r)
    /\ SetRow(r, RetriedRow(requests[r], 0))
    /\ Throw(r)

\* buildRequest rejects the payload with an HttpError.
Invalid(r) ==
    /\ job[r].pc = "pacing" /\ ~ Retrying(r)
    /\ GiveBack(r, 0)
    /\ Throw(r)
    /\ UNCHANGED requests

HostOpen(r) ==
    /\ job[r].pc = "pacing" /\ Type[At(r)] = "codex" /\ ~ Retrying(r)
    /\ GiveBack(r, 0)
    /\ SetRow(r, RetriedRow(requests[r], 0))
    /\ job' = [NextCandidate(r) EXCEPT ![r].hostBlocked = TRUE]

-----------------------------------------------------------------------------
(* The answer of the upstream, up to its headers or its collected body *)

Preconnect(r) ==
    /\ job[r].pc = "fetching" /\ Type[At(r)] = "codex" /\ ~ Retrying(r)
    /\ FailOver(r, 0)

TransportFailed(r) ==
    /\ job[r].pc = "fetching" /\ ~ Retrying(r) /\ ~ job[r].closed
    /\ \E cost \in Costs : FailOver(r, cost)

\* Cancelled by the client: settled, but neither retried nor finalized.
Cancelled(r) ==
    /\ job[r].pc \in {"pacing", "fetching"} /\ ~ Retrying(r) /\ job[r].closed
    /\ \E cost \in Costs :
          /\ GiveBack(r, cost)
          /\ SetRow(r, ChargedRow(requests[r], cost))
    /\ Throw(r)

Unauthorized(r) ==
    /\ job[r].pc = "fetching" /\ Type[At(r)] # "compass"
    /\ job[r].auth = "first" /\ job[r].resends = 0
    /\ job' = [job EXCEPT ![r].pc = "refreshing", ![r].auth = "retrying"]
    /\ UNCHANGED <<upstreams, requests, reserved>>

\* The refresh reports that nothing changed; the request is sent again.
Unchanged(r) ==
    /\ job[r].pc = "refreshing"
    /\ Goto(r, "pacing")
    /\ UNCHANGED <<upstreams, requests, reserved>>

\* Whatever goes wrong in the retry, the first refusal is the answer.
RetryFailed(r) ==
    /\ job[r].pc \in {"refreshing", "pacing", "fetching"} /\ Retrying(r)
    /\ FailedCredentials(r)

AfterAnswer(r) == IF Retrying(r) THEN "retried" ELSE job[r].auth

\* compatibilityFallback learned something: sent again with another body.
Resend(r) ==
    /\ job[r].pc = "fetching" /\ job[r].resends < MaxResends
    /\ job' = [job EXCEPT ![r] = [job[r] EXCEPT !.pc = "pacing", !.resends = @ + 1,
                                                !.auth = AfterAnswer(r)]]
    /\ UNCHANGED <<upstreams, requests, reserved>>

\* A retryable status, first event or collected body.
RetryableFailure(r) ==
    /\ job[r].pc = "fetching"
    /\ \E cost \in Costs : FailOver(r, cost)

Rejected(r) ==
    /\ job[r].pc = "fetching"
    /\ \E cost \in Costs : Answer(r, cost)

\* Settled, charged and finalized in one turn.
CloseBooks(r, cost) ==
    /\ GiveBack(r, cost)
    /\ SetRow(r, FinalizedRow(requests[r], cost))

Collected(r) ==
    /\ job[r].pc = "fetching" /\ Type[At(r)] = "codex"
    /\ \E cost \in Costs : CloseBooks(r, cost)
    /\ Return(r)

Accepted(r) ==
    /\ job[r].pc = "fetching"
    /\ job' = [job EXCEPT ![r].pc = "delivering", ![r].auth = AfterAnswer(r)]
    /\ UNCHANGED <<upstreams, requests, reserved>>

-----------------------------------------------------------------------------
(* Delivery *)

\* A stream or a body, whether it completes or fails midway.
Delivered(r) ==
    /\ job[r].pc = "delivering"
    /\ \E cost \in Costs : CloseBooks(r, cost)
    /\ Return(r)

BodyBroken(r) ==
    /\ job[r].pc = "delivering"
    /\ CloseBooks(r, 0)
    /\ Throw(r)

\* streamResponse closes the books before it settles, so that the exception
\* of a removed account comes too late to hurt.
StreamOutlivesAccount(r) ==
    /\ job[r].pc = "delivering" /\ ~ Present(r)
    /\ \E cost \in Costs : SetRow(r, FinalizedRow(requests[r], cost))
    /\ Release(r)
    /\ Throw(r)
    /\ UNCHANGED upstreams

\* A Codex stream without a body: the row is closed, and nothing else.
Bodiless(r) ==
    /\ job[r].pc = "delivering" /\ Type[At(r)] = "codex"
    /\ SetRow(r, FinalizedRow(requests[r], 0))
    /\ Goto(r, "leaked")
    /\ UNCHANGED <<upstreams, reserved>>

\* settleUpstreamAttempt throws for an account that is gone, and nothing
\* after it runs; the credentials' handler has released the share before.
Lost(r) ==
    /\ \/ job[r].pc \in {"credentials", "fetching", "refreshing", "delivering"}
       \/ job[r].pc = "pacing" /\ Retrying(r)
    /\ ~ Present(r)
    /\ IF job[r].pc = "credentials" THEN Release(r) ELSE UNCHANGED reserved
    /\ Goto(r, "lost")
    /\ UNCHANGED <<upstreams, requests>>

Answered(r) ==
    /\ job[r].pc = "answering"
    /\ SetRow(r, FinalizedRow(requests[r], 0))
    /\ Return(r)
    /\ UNCHANGED <<upstreams, reserved>>

-----------------------------------------------------------------------------
(* The operator and the client *)

SetCap(a) ==
    /\ upstreams[a].present /\ upstreams[a].epoch < MaxCapChanges
    /\ \E cap \in Caps :
          upstreams' = [upstreams EXCEPT ![a].cap = cap, ![a].spent = 0, ![a].epoch = @ + 1]
    /\ UNCHANGED <<requests, reserved, job>>

RemoveAccount(a) ==
    /\ upstreams[a].present
    /\ upstreams' = [upstreams EXCEPT ![a].present = FALSE, ![a].admissions = 0]
    /\ UNCHANGED <<requests, reserved, job>>

CloseClient(r) ==
    /\ job[r].pc \notin Ended \cup {"idle"} /\ ~ job[r].closed
    /\ job' = [job EXCEPT ![r].closed = TRUE]
    /\ UNCHANGED <<upstreams, requests, reserved>>

-----------------------------------------------------------------------------
(* Specification *)

Init ==
    /\ \E caps \in [Accounts -> Caps] :
          upstreams = [a \in Accounts |->
              [present |-> TRUE, cap |-> caps[a], epoch |-> 0, spent |-> 0, admissions |-> 0]]
    /\ requests = [r \in Requests |-> [status |-> "absent", attempts |-> <<>>]]
    /\ reserved = {}
    /\ job = [r \in Requests |-> NoJob]

\* One turn of the event loop for a suspended request.
Resume(r) ==
    \/ CredentialsReady(r) \/ Refreshed(r) \/ CredentialsFailed(r)
    \/ Send(r) \/ SpendingChanged(r) \/ CapacityChanged(r) \/ PacingRefused(r)
    \/ PacingAborted(r) \/ Invalid(r) \/ HostOpen(r)
    \/ Preconnect(r) \/ TransportFailed(r) \/ Cancelled(r) \/ Unauthorized(r)
    \/ Unchanged(r) \/ RetryFailed(r) \/ Resend(r) \/ RetryableFailure(r)
    \/ Rejected(r) \/ Collected(r) \/ Accepted(r)
    \/ Delivered(r) \/ BodyBroken(r) \/ StreamOutlivesAccount(r) \/ Bodiless(r)
    \/ Lost(r) \/ Answered(r)

\* The loop's head runs to its next await before anything else does.
Yielded == \A r \in Requests : job[r].pc # "choosing"

Progress(r) == Choose(r) \/ (Yielded /\ Resume(r))

Next ==
    \/ \E r \in Requests : Progress(r)
    \/ Yielded /\ \E r \in Requests : Plan(r) \/ CloseClient(r)
    \/ Yielded /\ \E a \in Accounts : SetCap(a) \/ RemoveAccount(a)

\* Every await is bounded: credentials, headers and bodies by deadlines, the
\* pacer's queue by its age limit. Nothing obliges a client to call or leave.
Spec == Init /\ [][Next]_vars /\ \A r \in Requests : WF_vars(Progress(r))

-----------------------------------------------------------------------------
(* Properties *)

TypeOK ==
    /\ upstreams \in [Accounts -> Upstream]
    /\ requests \in [Requests -> Row]
    /\ reserved \subseteq (Requests \X Nat)
    /\ job \in [Requests -> Job]

\* Requests that owe an admission. One that ends without a body to stream
\* keeps its admission for ever: the only leak while the account exists.
Holding(r) == job[r].pc \in Suspended \cup {"leaked"}

Holders(a) == {r \in Requests : Holding(r) /\ At(r) = a}

\* An account has exactly the admissions its running attempts hold: every way
\* out of an attempt settles once, also after a refresh took a second one
\* (settleUpstreamAttempt's callers; what UpstreamHealth assumes of them).
AdmissionsBalance ==
    \A a \in Accounts :
        upstreams[a].present =>
            upstreams[a].admissions = Cardinality(Holders(a))

\* A share pays for a running attempt and for nothing else: a reservation is
\* given back or settled when its attempt ends, unless the account was
\* removed under it (reserveShareRequest, releaseShareRequest).
ReservationsReturned ==
    /\ \A id \in reserved :
          /\ id[2] = job[id[1]].attempt
          /\ Holding(id[1]) \/ job[id[1]].pc = "lost"
    /\ \A r \in Requests :
          Shared(r) /\ Holding(r) /\ job[r].pc # "leaked" => <<r, job[r].attempt>> \in reserved

\* A request that is answered has its row closed, whichever attempt the
\* answer names (proxyRequestWithRecovery and streamResponse).
AnsweredIsClosed ==
    \A r \in Requests :
        Public(r) /\ job[r].pc \in {"done", "leaked"} /\ ~ job[r].threw
            => requests[r].status = "closed"

\* The failure of a request whose client closed the connection is recorded
\* in its row, as the tests expect of a closed client.
DisconnectIsRecorded ==
    \A r \in Requests :
        Public(r) /\ job[r].pc = "done" /\ job[r].closed => requests[r].status = "closed"

\* What concurrent requests may spend beyond a cap: each of them was below it
\* when it was sent, and costs once (spendingEligibility, recordUsage).
OvershootIsBounded ==
    (\A r \in Requests : Messages(r)) =>
        \A a \in Accounts :
            upstreams[a].spent > 0 =>
                upstreams[a].spent < upstreams[a].cap + Cardinality(Requests)

Sent(a) == {r \in Requests : At(r) = a /\ job[r].pc = "fetching" /\ Messages(r)}

\* Once an account's cap is reached, by whichever request, no other request
\* that was admitted before and waited since is sent to it.
SpentCapStopsSending ==
    [][\A a \in Accounts : ~ Eligible(a) => Sent(a)' \subseteq Sent(a)]_vars

\* The ledger's rows obey Ledger: opened once, closed once, their attempts in
\* sequence, each charged at most once.
Entry(row) ==
    [status |-> row.status,
     attempt |-> Len(row.attempts),
     phase |-> IF InProgress(row) THEN "running" ELSE "resting",
     charges |-> IF row.attempts = <<>> THEN 0 ELSE row.attempts[Len(row.attempts)].charges]

Book(r) == Entry(requests[r])

PublicBooks == [r \in {q \in Requests : Public(q)} |-> Book(r)]

Books == INSTANCE Ledger WITH
    Booked <- {r \in Requests : Public(r)},
    book <- PublicBooks

LedgerKept == Books!Spec

\* Every request that is begun comes to an end, however its attempts fail
\* and however often it is sent again.
EveryDispatchEnds ==
    \A r \in Requests : job[r].pc # "idle" ~> job[r].pc \in Ended

-----------------------------------------------------------------------------
(* Proofs: of each turn, what it does to the row, to the account and to the  *)
(* share; then that these keep an invariant, and the properties from it.      *)

LastCharges(row) == row.attempts[Len(row.attempts)].charges

\* A row between attempts, and one whose attempt is running and unpaid.
Between(row) == row \in Row /\ row.status = "open" /\ ~ InProgress(row)
Running(row) == row \in Row /\ row.status = "open" /\ InProgress(row)
Unpaid(row) == Running(row) /\ LastCharges(row) = 0

LEMMA RowIs ==
    ASSUME NEW row \in Row
    PROVE  /\ row.status \in {"absent", "open", "closed"}
           /\ row.attempts \in Seq(Attempt)
           /\ Len(row.attempts) \in Nat
           /\ row = [status |-> row.status, attempts |-> row.attempts]
BY DEF Row

LEMMA InProgressIs ==
    ASSUME NEW row \in Row, InProgress(row)
    PROVE  /\ Len(row.attempts) \in 1 .. Len(row.attempts)
           /\ row.attempts # <<>>
           /\ row.attempts[Len(row.attempts)] \in Attempt
<1>1. row.attempts \in Seq(Attempt) /\ row.attempts # <<>>
  BY RowIs DEF InProgress
<1> QED
  BY <1>1

LEMMA EndAttemptIs ==
    ASSUME NEW row \in Row, InProgress(row), NEW cost \in Nat,
           NEW status \in {"retryable_failed", "final"}
    PROVE  LET ended == EndAttempt(row, status, cost) IN
           /\ ended \in Row /\ ended.status = row.status
           /\ Len(ended.attempts) = Len(row.attempts) /\ ended.attempts # <<>>
           /\ ~ InProgress(ended)
           /\ LastCharges(ended) = LastCharges(row) + cost
<1> DEFINE last == Len(row.attempts)
           attempts == [row.attempts EXCEPT ![last] =
                            [status |-> status, charges |-> @.charges + cost]]
<1>1. /\ row.attempts \in Seq(Attempt) /\ last \in 1 .. last
      /\ row.attempts[last] \in Attempt /\ row.status \in {"absent", "open", "closed"}
  BY RowIs, InProgressIs
<1>2. [status |-> status, charges |-> row.attempts[last].charges + cost] \in Attempt
  BY <1>1 DEF Attempt
<1>3. attempts \in Seq(Attempt) /\ Len(attempts) = last /\ attempts # <<>>
      /\ attempts[last] = [status |-> status, charges |-> row.attempts[last].charges + cost]
  BY <1>1, <1>2
<1>4. EndAttempt(row, status, cost) = [row EXCEPT !.attempts = attempts]
  BY <1>1 DEF EndAttempt, Row
<1>5. EndAttempt(row, status, cost) = [status |-> row.status, attempts |-> attempts]
  BY <1>4, RowIs
<1> HIDE DEF attempts
<1> QED
  BY <1>1, <1>3, <1>5 DEF Row, InProgress, LastCharges

LEMMA BegunRowIs ==
    ASSUME NEW row, Between(row)
    PROVE  /\ Unpaid(BegunRow(row))
           /\ Len(BegunRow(row).attempts) = Len(row.attempts) + 1
<1> DEFINE attempts == Append(row.attempts, [status |-> "in_progress", charges |-> 0])
<1>1. row.attempts \in Seq(Attempt) /\ row = [status |-> "open", attempts |-> row.attempts]
  BY RowIs DEF Between
<1>2. [status |-> "in_progress", charges |-> 0] \in Attempt
  BY DEF Attempt
<1>3. /\ attempts \in Seq(Attempt) /\ Len(attempts) = Len(row.attempts) + 1
      /\ attempts # <<>>
      /\ attempts[Len(attempts)] = [status |-> "in_progress", charges |-> 0]
  BY <1>1, <1>2
<1>4. BegunRow(row) = [row EXCEPT !.attempts = attempts]
  BY DEF BegunRow
<1> HIDE DEF attempts
<1>5. /\ BegunRow(row) \in Row /\ BegunRow(row).status = "open"
      /\ BegunRow(row).attempts = attempts
  BY <1>3, <1>4 DEF Between, Row
<1> QED
  BY <1>3, <1>5 DEF Unpaid, Running, InProgress, LastCharges

LEMMA ChargedRowIs ==
    ASSUME NEW row, Running(row), NEW cost \in Nat
    PROVE  LET charged == ChargedRow(row, cost) IN
           /\ Running(charged)
           /\ Len(charged.attempts) = Len(row.attempts)
           /\ LastCharges(charged) = LastCharges(row) + cost
<1> DEFINE last == Len(row.attempts)
           attempts == [row.attempts EXCEPT ![last].charges = @ + cost]
<1>1. /\ row.attempts \in Seq(Attempt) /\ last \in 1 .. last
      /\ row.attempts[last] \in Attempt /\ row = [status |-> "open", attempts |-> row.attempts]
      /\ row.attempts[last].status = "in_progress"
  BY RowIs, InProgressIs DEF Running, InProgress
<1>2. [row.attempts[last] EXCEPT !.charges = @ + cost] \in Attempt
      /\ [row.attempts[last] EXCEPT !.charges = @ + cost].status = "in_progress"
      /\ [row.attempts[last] EXCEPT !.charges = @ + cost].charges
            = row.attempts[last].charges + cost
  BY <1>1 DEF Attempt
<1>3. attempts \in Seq(Attempt) /\ Len(attempts) = last /\ attempts # <<>>
      /\ attempts[last] = [row.attempts[last] EXCEPT !.charges = @ + cost]
  BY <1>1, <1>2
<1>4. ChargedRow(row, cost) = [row EXCEPT !.attempts = attempts]
  BY <1>1 DEF ChargedRow
<1> HIDE DEF attempts
<1>5. /\ ChargedRow(row, cost) \in Row /\ ChargedRow(row, cost).status = "open"
      /\ ChargedRow(row, cost).attempts = attempts
  BY <1>3, <1>4 DEF Running, Row
<1>6. Running(ChargedRow(row, cost))
  BY <1>2, <1>3, <1>5 DEF Running, InProgress
<1> QED
  BY <1>2, <1>3, <1>5, <1>6 DEF LastCharges

LEMMA RetriedRowIs ==
    ASSUME NEW row, Running(row), NEW cost \in Nat
    PROVE  LET retried == RetriedRow(row, cost) IN
           /\ Between(retried)
           /\ Len(retried.attempts) = Len(row.attempts) /\ retried.attempts # <<>>
           /\ LastCharges(retried) = LastCharges(row) + cost
<1>1. RetriedRow(row, cost) = EndAttempt(row, "retryable_failed", cost)
  BY DEF RetriedRow, Running
<1> QED
  BY <1>1, EndAttemptIs DEF Running, Between

LEMMA FinalizedRowIs ==
    ASSUME NEW row, Running(row), NEW cost \in Nat
    PROVE  LET closed == FinalizedRow(row, cost) IN
           /\ closed \in Row /\ closed.status = "closed" /\ ~ InProgress(closed)
           /\ Len(closed.attempts) = Len(row.attempts) /\ closed.attempts # <<>>
           /\ LastCharges(closed) = LastCharges(row) + cost
<1> DEFINE ended == EndAttempt(row, "final", cost)
<1>1. FinalizedRow(row, cost) = [ended EXCEPT !.status = "closed"]
  BY DEF FinalizedRow, Running
<1>2. /\ ended \in Row /\ Len(ended.attempts) = Len(row.attempts) /\ ended.attempts # <<>>
      /\ ~ InProgress(ended) /\ LastCharges(ended) = LastCharges(row) + cost
  BY EndAttemptIs DEF Running
<1> HIDE DEF ended
<1>3. /\ FinalizedRow(row, cost).attempts = ended.attempts
      /\ FinalizedRow(row, cost).status = "closed"
      /\ FinalizedRow(row, cost) \in Row
  BY <1>1, <1>2 DEF Row
<1> QED
  BY <1>2, <1>3 DEF InProgress, LastCharges

LEMMA ClosedRowIs ==
    ASSUME NEW row, Between(row)
    PROVE  /\ ClosedRow(row) \in Row /\ ClosedRow(row).status = "closed"
           /\ ClosedRow(row).attempts = row.attempts /\ ~ InProgress(ClosedRow(row))
BY DEF Between, ClosedRow, Row, InProgress

-----------------------------------------------------------------------------

Pcs == {"idle", "choosing", "answering"} \cup Suspended \cup Ended

\* Everything of a job but its plan and the guards' data, which nothing below
\* depends on.
IsJob(j) ==
    j \in [pc : Pcs, plan : {j.plan}, tried : {j.tried}, at : {j.at}, attempt : Nat,
           since : {j.since}, auth : {j.auth}, resends : {j.resends},
           hostBlocked : {j.hostBlocked}, closed : BOOLEAN, threw : BOOLEAN]

Account == [present : BOOLEAN, cap : Nat, epoch : Nat, spent : Nat, admissions : Int]

Shape ==
    /\ upstreams \in [Accounts -> Account]
    /\ requests \in [Requests -> Row]
    /\ reserved \subseteq Requests \X Nat
    /\ job = [r \in Requests |-> job[r]]
    /\ \A r \in Requests : IsJob(job[r])

\* The row of a public request follows its job.
RowFollows(r) ==
    /\ job[r].pc = "idle" => requests[r] = [status |-> "absent", attempts |-> <<>>]
    /\ job[r].pc = "choosing" => Between(requests[r])
    /\ job[r].pc \in Suspended => Unpaid(requests[r])
    /\ job[r].pc = "answering" => Running(requests[r])
    /\ job[r].pc \in {"done", "leaked"} /\ ~ job[r].threw => requests[r].status = "closed"

RowsFollow == \A r \in Requests : Public(r) => RowFollows(r)

\* What those who hold an account may still add to its spending.
SpendingIsCapped ==
    (\A r \in Requests : Messages(r)) =>
        \A a \in Accounts :
            upstreams[a].spent > 0 =>
                upstreams[a].spent + Cardinality(Holders(a))
                    < upstreams[a].cap + Cardinality(Requests)

IInv ==
    /\ Shape
    /\ RowsFollow
    /\ AdmissionsBalance
    /\ ReservationsReturned
    /\ SpendingIsCapped

-----------------------------------------------------------------------------
(* What one turn of a request does *)

\* Others are left alone.
Only(r) ==
    /\ job' = [q \in Requests |-> job'[q]]
    /\ IsJob(job'[r])
    /\ \A q \in Requests : q # r => job'[q] = job[q]
    /\ requests' = [q \in Requests |-> requests'[q]]
    /\ \A q \in Requests : q # r \/ ~ Public(q) => requests'[q] = requests[q]

\* It holds what it held, ...
Keeps(r) ==
    /\ UNCHANGED <<upstreams, reserved>>
    /\ \/ /\ job[r].pc \notin Suspended \cup {"leaked", "lost"}
          /\ job'[r].pc \notin Suspended \cup {"leaked", "lost"}
       \/ /\ \/ job[r].pc \in Suspended /\ job'[r].pc \in Suspended \cup {"leaked"}
             \/ job'[r].pc = job[r].pc
          /\ job'[r].at = job[r].at /\ job'[r].attempt = job[r].attempt

\* ... takes an admission and, for a share, a reservation, ...
Takes(r) ==
    /\ job[r].pc = "choosing" /\ job'[r].pc \in Suspended
    /\ job'[r].attempt = job[r].attempt + 1
    /\ upstreams[job'[r].at].present
    /\ Messages(r) => Eligible(job'[r].at)
    /\ upstreams' = [upstreams EXCEPT ![job'[r].at].admissions = @ + 1]
    /\ reserved' = reserved \cup (IF Shared(r) THEN {<<r, job'[r].attempt>>} ELSE {})

\* ... gives both back, an account that is gone excepted, ...
Frees(r) ==
    /\ job[r].pc \in Suspended
    /\ job'[r].pc \in {"choosing", "answering", "done"}
    /\ \/ ~ Present(r) /\ UNCHANGED upstreams
       \/ \E cost \in Costs : Present(r) /\ Settle(r, cost)
    /\ Release(r)

\* ... or loses the account under it.
Loses(r) ==
    /\ job[r].pc \in Suspended /\ job'[r].pc = "lost" /\ ~ Present(r)
    /\ UNCHANGED upstreams
    /\ job'[r].at = job[r].at /\ job'[r].attempt = job[r].attempt
    /\ reserved' \subseteq reserved
    /\ \A id \in reserved : id[1] # r => id \in reserved'

AccountMove(r) == Keeps(r) \/ Takes(r) \/ Frees(r) \/ Loses(r)

RowMove(r, row, next) ==
    LET from == job[r].pc
        to == job'[r].pc
    IN  \/ from = "idle" /\ to = "choosing" /\ next = [row EXCEPT !.status = "open"]
        \/ from = "idle" /\ to = "done" /\ next = [row EXCEPT !.status = "closed"]
        \/ from = "choosing" /\ to \in Suspended /\ next = BegunRow(row)
        \/ from = "choosing" /\ to = "done" /\ next = ClosedRow(row)
        \/ from = "choosing" /\ to = "done" /\ next = row /\ job'[r].threw
        \/ from \in Suspended /\ to = "choosing"
             /\ \E cost \in Costs : next = RetriedRow(row, cost)
        \/ from \in Suspended /\ to = "answering"
             /\ \E cost \in Costs : next = ChargedRow(row, cost)
        \/ from \in Suspended /\ to \in {"done", "leaked"}
             /\ \E cost \in Costs : next = FinalizedRow(row, cost)
        \/ from \in Suspended /\ to = "done" /\ job'[r].threw
             /\ \E cost \in Costs : next \in {row, RetriedRow(row, cost), ChargedRow(row, cost)}
        \/ from \in Suspended /\ to \in Suspended \cup {"lost"} /\ next = row
        \/ from = "answering" /\ to = "done" /\ next = FinalizedRow(row, 0)
        \/ from = to /\ next = row /\ job'[r].threw = job[r].threw

\* Only an account below its cap is sent to.
SendMove(r) ==
    job'[r].pc = "fetching" =>
        /\ job'[r].at = job[r].at
        /\ job[r].pc # "fetching" /\ Messages(r) => Eligible(job[r].at)

Move(r) ==
    /\ Only(r) /\ AccountMove(r) /\ SendMove(r)
    /\ Public(r) => RowMove(r, requests[r], requests'[r])

\* Of job' ...
LEMMA GotoIs ==
    ASSUME Shape, NEW r \in Requests, NEW pc \in Pcs, Goto(r, pc)
    PROVE  /\ job' = [q \in Requests |-> job'[q]]
           /\ \A q \in Requests : q # r => job'[q] = job[q]
           /\ IsJob(job'[r]) /\ job'[r] = [job[r] EXCEPT !.pc = pc]
           /\ job'[r].pc = pc /\ job'[r].at = job[r].at /\ job'[r].attempt = job[r].attempt
           /\ job'[r].threw = job[r].threw
<1>1. job'[r] = [job[r] EXCEPT !.pc = pc]
  BY DEF Goto, Shape
<1>2. IsJob(job[r])
  BY DEF Shape
<1>3. IsJob(job'[r])
  BY <1>1, <1>2 DEF IsJob
<1>4. /\ job'[r].pc = pc /\ job'[r].at = job[r].at /\ job'[r].attempt = job[r].attempt
      /\ job'[r].threw = job[r].threw
  BY <1>1, <1>2 DEF IsJob
<1>5. job' = [q \in Requests |-> job'[q]] /\ \A q \in Requests : q # r => job'[q] = job[q]
  BY DEF Goto, Shape
<1> QED
  BY <1>1, <1>3, <1>4, <1>5

LEMMA NextCandidateIs ==
    ASSUME Shape, NEW r \in Requests, job' = NextCandidate(r)
    PROVE  /\ job' = [q \in Requests |-> job'[q]]
           /\ \A q \in Requests : q # r => job'[q] = job[q]
           /\ IsJob(job'[r])
           /\ job'[r].pc = "choosing" /\ job'[r].threw = job[r].threw
           /\ job'[r].attempt = job[r].attempt
<1> DEFINE j == [job[r] EXCEPT !.pc = "choosing", !.plan = Tail(@), !.at = NoAccount,
                               !.since = 0, !.auth = "first", !.resends = 0]
<1>1. job'[r] = j
  BY DEF NextCandidate, Shape
<1>2. IsJob(job[r]) /\ "choosing" \in Pcs
  BY DEF Shape, Pcs
<1>3. /\ IsJob(j) /\ j.pc = "choosing" /\ j.threw = job[r].threw
      /\ j.attempt = job[r].attempt
  BY <1>2 DEF IsJob
<1>4. job' = [q \in Requests |-> job'[q]] /\ \A q \in Requests : q # r => job'[q] = job[q]
  BY DEF NextCandidate, Shape
<1> QED
  BY <1>1, <1>3, <1>4

LEMMA EndIs ==
    ASSUME Shape, NEW r \in Requests, Return(r) \/ Throw(r)
    PROVE  /\ job' = [q \in Requests |-> job'[q]]
           /\ \A q \in Requests : q # r => job'[q] = job[q]
           /\ IsJob(job'[r]) /\ job'[r].pc = "done"
           /\ Throw(r) => job'[r].threw
<1>1. job[r].closed \in BOOLEAN /\ "done" \in Pcs
  BY DEF Shape, IsJob, Pcs, Ended
<1> DEFINE returned == [NoJob EXCEPT !.pc = "done"]
           thrown == [NoJob EXCEPT !.pc = "done", !.threw = TRUE, !.closed = job[r].closed]
<1>2. job'[r] = returned \/ (Throw(r) /\ job'[r] = thrown)
  BY DEF Return, Throw, Shape
<1>4. /\ IsJob(returned) /\ returned.pc = "done"
      /\ IsJob(thrown) /\ thrown.pc = "done" /\ thrown.threw
  BY <1>1 DEF IsJob, NoJob
<1>5. Throw(r) => job'[r] = thrown
  BY DEF Throw, Shape
<1> HIDE DEF returned, thrown
<1>3. job' = [q \in Requests |-> job'[q]] /\ \A q \in Requests : q # r => job'[q] = job[q]
  BY DEF Return, Throw, Shape
<1> QED
  BY <1>2, <1>3, <1>4, <1>5

\* ... and of requests'.
LEMMA SetRowIs ==
    ASSUME Shape, NEW r \in Requests, NEW row, SetRow(r, row)
    PROVE  /\ requests' = [q \in Requests |-> requests'[q]]
           /\ \A q \in Requests : q # r \/ ~ Public(q) => requests'[q] = requests[q]
           /\ Public(r) => requests'[r] = row
BY DEF Shape, SetRow

LEMMA RowsUnchanged ==
    ASSUME Shape, NEW r \in Requests, UNCHANGED requests
    PROVE  /\ requests' = [q \in Requests |-> requests'[q]]
           /\ \A q \in Requests : q # r \/ ~ Public(q) => requests'[q] = requests[q]
           /\ requests'[r] = requests[r]
BY DEF Shape

\* The ways out of an attempt.
LEMMA FailOverMoves ==
    ASSUME Shape, NEW r \in Requests, job[r].pc \in Suspended,
           job' = [q \in Requests |-> job'[q]],
           \A q \in Requests : q # r => job'[q] = job[q],
           IsJob(job'[r]), job'[r].pc = "choosing",
           NEW cost \in Costs, SetRow(r, RetriedRow(requests[r], cost)),
           \/ ~ Present(r) /\ UNCHANGED upstreams
           \/ \E paid \in Costs : Present(r) /\ Settle(r, paid),
           Release(r)
    PROVE  Move(r)
<1>1. Only(r)
  BY SetRowIs DEF Only
<1>2. Frees(r)
  BY <1>1 DEF Frees
<1>3. SendMove(r)
  BY <1>1 DEF SendMove
<1>4. Public(r) => RowMove(r, requests[r], requests'[r])
  BY <1>1, SetRowIs DEF RowMove
<1> QED
  BY <1>1, <1>2, <1>3, <1>4 DEF Move, AccountMove

LEMMA AnswerMoves ==
    ASSUME Shape, NEW r \in Requests, job[r].pc \in Suspended,
           NEW cost \in Costs, Answer(r, cost)
    PROVE  Move(r)
<1>1. "answering" \in Pcs
  BY DEF Pcs
<1>2. Only(r) /\ job'[r].pc = "answering"
  BY <1>1, GotoIs, SetRowIs DEF Only, Answer
<1>3. Frees(r)
  BY <1>2 DEF Frees, Answer, GiveBack
<1>4. SendMove(r)
  BY <1>2 DEF SendMove
<1>5. Public(r) => RowMove(r, requests[r], requests'[r])
  BY <1>2, SetRowIs DEF RowMove, Answer
<1> QED
  BY <1>2, <1>3, <1>4, <1>5 DEF Move, AccountMove

LEMMA CloseBooksMoves ==
    ASSUME Shape, NEW r \in Requests, job[r].pc \in Suspended,
           NEW cost \in Costs, CloseBooks(r, cost), Return(r) \/ Throw(r)
    PROVE  Move(r)
<1>1. Only(r) /\ job'[r].pc = "done"
  BY EndIs, SetRowIs DEF Only, CloseBooks
<1>2. Frees(r)
  BY <1>1 DEF Frees, CloseBooks, GiveBack
<1>3. SendMove(r)
  BY <1>1 DEF SendMove
<1>4. Public(r) => RowMove(r, requests[r], requests'[r])
  BY <1>1, SetRowIs DEF RowMove, CloseBooks
<1> QED
  BY <1>1, <1>2, <1>3, <1>4 DEF Move, AccountMove

LEMMA ThrowMoves ==
    ASSUME Shape, NEW r \in Requests, job[r].pc \in Suspended, Throw(r),
           NEW cost \in Costs, NEW row,
           row \in {requests[r], RetriedRow(requests[r], cost), ChargedRow(requests[r], cost),
                    FinalizedRow(requests[r], cost)},
           SetRow(r, row),
           \/ ~ Present(r) /\ UNCHANGED upstreams
           \/ \E paid \in Costs : Present(r) /\ Settle(r, paid),
           Release(r)
    PROVE  Move(r)
<1>1. Only(r) /\ job'[r].pc = "done" /\ job'[r].threw
  BY EndIs, SetRowIs DEF Only
<1>2. Frees(r)
  BY <1>1 DEF Frees
<1>3. SendMove(r)
  BY <1>1 DEF SendMove
<1>4. Public(r) => RowMove(r, requests[r], requests'[r])
  BY <1>1, SetRowIs DEF RowMove
<1> QED
  BY <1>1, <1>2, <1>3, <1>4 DEF Move, AccountMove

\* An attempt that goes on.
LEMMA GoesOnMoves ==
    ASSUME Shape, NEW r \in Requests, job[r].pc \in Suspended,
           job' = [q \in Requests |-> job'[q]],
           \A q \in Requests : q # r => job'[q] = job[q],
           IsJob(job'[r]), job'[r].pc \in Suspended,
           job'[r].at = job[r].at, job'[r].attempt = job[r].attempt,
           job'[r].threw = job[r].threw,
           job'[r].pc = "fetching" /\ Messages(r) => Eligible(job[r].at),
           UNCHANGED <<upstreams, requests, reserved>>
    PROVE  Move(r)
<1>1. Only(r)
  BY RowsUnchanged DEF Only
<1>2. Keeps(r) /\ SendMove(r)
  BY DEF Keeps, SendMove
<1>3. RowMove(r, requests[r], requests'[r])
  BY RowsUnchanged DEF RowMove
<1> QED
  BY <1>1, <1>2, <1>3 DEF Move, AccountMove

LEMMA GotoMoves ==
    ASSUME Shape, NEW r \in Requests, job[r].pc \in Suspended, NEW pc \in Suspended,
           Goto(r, pc), pc = "fetching" /\ Messages(r) => Eligible(job[r].at),
           UNCHANGED <<upstreams, requests, reserved>>
    PROVE  Move(r)
<1>1. pc \in Pcs
  BY DEF Pcs
<1> QED
  BY <1>1, GotoIs, GoesOnMoves

-----------------------------------------------------------------------------
(* Every turn moves *)

LEMMA PlanMoves ==
    ASSUME Shape, NEW r \in Requests, Plan(r)
    PROVE  Move(r)
<1>1. PICK candidates \in Plans(r) :
          /\ SetRow(r, [requests[r] EXCEPT !.status =
                            IF candidates = <<>> THEN "closed" ELSE "open"])
          /\ job' = [job EXCEPT ![r].pc = IF candidates = <<>> THEN "done" ELSE "choosing",
                                ![r].plan = CandidateAttempts(r, candidates)]
  BY DEF Plan
<1> DEFINE pc == IF candidates = <<>> THEN "done" ELSE "choosing"
           j == [job[r] EXCEPT !.pc = pc, !.plan = CandidateAttempts(r, candidates)]
<1>2. job' = [q \in Requests |-> job'[q]] /\ \A q \in Requests : q # r => job'[q] = job[q]
  BY <1>1 DEF Shape
<1>3. job'[r] = j
  BY <1>1, Zenon DEF Shape
<1>4. pc \in Pcs /\ IsJob(job[r]) /\ job[r].pc = "idle"
  BY DEF Pcs, Ended, Shape, Plan
<1>5. IsJob(j) /\ j.pc = pc
  <2> HIDE DEF pc
  <2> QED
    BY <1>4 DEF IsJob
<1>6. Only(r) /\ job'[r].pc = pc
  BY <1>1, <1>2, <1>3, <1>5, SetRowIs DEF Only
<1>7. Keeps(r) /\ SendMove(r)
  BY <1>4, <1>6 DEF Keeps, SendMove, Plan, Suspended
<1>8. Public(r) => RowMove(r, requests[r], requests'[r])
  BY <1>1, <1>4, <1>6, SetRowIs DEF RowMove
<1> QED
  BY <1>6, <1>7, <1>8 DEF Move, AccountMove

LEMMA BeginMoves ==
    ASSUME Shape, NEW r \in Requests, job[r].pc = "choosing", Begin(r)
    PROVE  Move(r)
<1> DEFINE j == [CountTry(job[r], Phase(r)) EXCEPT
                    !.pc = "credentials", !.at = Candidate(r), !.attempt = @ + 1,
                    !.since = upstreams[Candidate(r)].epoch]
<1>1. job'[r] = j /\ job' = [q \in Requests |-> job'[q]]
      /\ \A q \in Requests : q # r => job'[q] = job[q]
  BY DEF Shape, Begin
<1>2. IsJob(job[r]) /\ "credentials" \in Pcs /\ "credentials" \in Suspended
  BY DEF Shape, Pcs, Suspended
<1>3. /\ IsJob(j) /\ j.pc = "credentials" /\ j.at = Candidate(r)
      /\ j.attempt = job[r].attempt + 1
  <2> DEFINE tried == [job[r].tried EXCEPT ![Phase(r)] = @ + 1]
  <2>1. CountTry(job[r], Phase(r)) = [job[r] EXCEPT !.tried = tried]
    BY DEF CountTry
  <2> HIDE DEF tried
  <2>2. IsJob(CountTry(job[r], Phase(r)))
        /\ CountTry(job[r], Phase(r)).attempt = job[r].attempt
    BY <1>2, <2>1 DEF IsJob
  <2> DEFINE counted == CountTry(job[r], Phase(r))
             since == upstreams[Candidate(r)].epoch
  <2>3. /\ IsJob(counted) /\ counted.attempt = job[r].attempt
        /\ j = [counted EXCEPT !.pc = "credentials", !.at = Candidate(r),
                               !.attempt = @ + 1, !.since = since]
    BY <2>2
  <2> HIDE DEF counted, since, j
  <2>4. counted.attempt + 1 \in Nat
    BY <2>3 DEF IsJob
  <2> QED
    BY <1>2, <2>3, <2>4 DEF IsJob
<1>4. SetRow(r, BegunRow(requests[r]))
  BY DEF Begin
<1>5. Only(r)
  BY <1>1, <1>3, <1>4, SetRowIs DEF Only
<1>6. Takes(r)
  BY <1>1, <1>2, <1>3 DEF Takes, Begin, MayBegin
<1>7. SendMove(r)
  BY <1>1, <1>3 DEF SendMove
<1>8. Public(r) => RowMove(r, requests[r], requests'[r])
  BY <1>1, <1>2, <1>3, <1>4, SetRowIs DEF RowMove
<1> QED
  BY <1>5, <1>6, <1>7, <1>8 DEF Move, AccountMove

\* The loop's head when it takes nothing.
LEMMA ChoosesOn ==
    ASSUME Shape, NEW r \in Requests, job[r].pc = "choosing",
           job' = [q \in Requests |-> job'[q]],
           \A q \in Requests : q # r => job'[q] = job[q],
           IsJob(job'[r]), job'[r].pc = "choosing", job'[r].threw = job[r].threw,
           UNCHANGED <<upstreams, requests, reserved>>
    PROVE  Move(r)
<1>1. Only(r)
  BY RowsUnchanged DEF Only
<1>2. Keeps(r) /\ SendMove(r)
  BY DEF Keeps, SendMove, Suspended
<1>3. RowMove(r, requests[r], requests'[r])
  BY RowsUnchanged DEF RowMove
<1> QED
  BY <1>1, <1>2, <1>3 DEF Move, AccountMove

LEMMA ChooseMoves ==
    ASSUME Shape, NEW r \in Requests, Choose(r)
    PROVE  Move(r)
<1>1. job[r].pc = "choosing" /\ IsJob(job[r])
  BY DEF Choose, Shape
<1>2. CASE ClientGone(r)
  <2>1. Only(r) /\ job'[r].pc = "done" /\ job'[r].threw
    BY <1>2, EndIs, SetRowIs DEF Only, ClientGone
  <2>2. Keeps(r) /\ SendMove(r)
    BY <1>1, <1>2, <2>1 DEF Keeps, SendMove, Suspended, ClientGone
  <2>3. Public(r) => RowMove(r, requests[r], requests'[r])
    BY <1>1, <1>2, <2>1, SetRowIs DEF RowMove, ClientGone
  <2> QED
    BY <2>1, <2>2, <2>3 DEF Move, AccountMove
<1>3. CASE OutOfBudget(r)
  <2>1. CASE Messages(r)
    BY <1>1, <1>3, <2>1, NextCandidateIs, ChoosesOn DEF OutOfBudget
  <2>2. CASE ~ Messages(r)
    <3>1. job' = [job EXCEPT ![r].plan = <<>>]
      BY <1>3, <2>2 DEF OutOfBudget
    <3>2. /\ job' = [q \in Requests |-> job'[q]]
          /\ \A q \in Requests : q # r => job'[q] = job[q]
          /\ job'[r] = [job[r] EXCEPT !.plan = <<>>]
      BY <3>1 DEF Shape
    <3>3. IsJob(job'[r]) /\ job'[r].pc = "choosing" /\ job'[r].threw = job[r].threw
      BY <1>1, <3>2 DEF IsJob
    <3> QED
      BY <1>1, <1>3, <3>2, <3>3, ChoosesOn DEF OutOfBudget
  <2> QED
    BY <2>1, <2>2
<1>4. CASE Skip(r)
  BY <1>1, <1>4, NextCandidateIs, ChoosesOn DEF Skip
<1>5. CASE Begin(r)
  BY <1>1, <1>5, BeginMoves
<1>6. CASE ReservationRefused(r)
  <2> DEFINE j == [job[r] EXCEPT !.pc = "choosing", !.plan = Tail(@), !.at = NoAccount,
                                 !.since = 0, !.auth = "first", !.resends = 0]
             tried == [j.tried EXCEPT ![Phase(r)] = @ + 1]
  <2>1. NextCandidate(r) = [job EXCEPT ![r] = j]
    BY DEF NextCandidate
  <2>2. /\ job' = [q \in Requests |-> job'[q]]
        /\ \A q \in Requests : q # r => job'[q] = job[q]
        /\ job'[r] = [j EXCEPT !.tried = tried]
    <3> HIDE DEF j
    <3>1. job' = [NextCandidate(r) EXCEPT ![r] = CountTry(@, Phase(r))]
      BY <1>6 DEF ReservationRefused
    <3> QED
      BY <2>1, <3>1 DEF Shape, CountTry
  <2>3. IsJob(j) /\ j.pc = "choosing" /\ j.threw = job[r].threw
    BY <1>1 DEF IsJob
  <2> HIDE DEF j, tried
  <2>4. IsJob(job'[r]) /\ job'[r].pc = "choosing" /\ job'[r].threw = job[r].threw
    BY <2>2, <2>3 DEF IsJob
  <2> QED
    BY <1>1, <1>6, <2>2, <2>4, ChoosesOn DEF ReservationRefused
<1>7. CASE Undecryptable(r)
  <2>1. Only(r) /\ job'[r].pc = "done" /\ job'[r].threw
    BY <1>7, EndIs, RowsUnchanged DEF Only, Undecryptable
  <2>2. Keeps(r) /\ SendMove(r)
    BY <1>1, <1>7, <2>1 DEF Keeps, SendMove, Suspended, Undecryptable
  <2>3. RowMove(r, requests[r], requests'[r])
    BY <1>1, <1>7, <2>1, RowsUnchanged DEF RowMove, Undecryptable
  <2> QED
    BY <2>1, <2>2, <2>3 DEF Move, AccountMove
<1>8. CASE Exhausted(r)
  <2>1. Only(r) /\ job'[r].pc = "done"
    BY <1>8, EndIs, SetRowIs DEF Only, Exhausted
  <2>2. Keeps(r) /\ SendMove(r)
    BY <1>1, <1>8, <2>1 DEF Keeps, SendMove, Suspended, Exhausted
  <2>3. Public(r) => RowMove(r, requests[r], requests'[r])
    BY <1>1, <1>8, <2>1, SetRowIs DEF RowMove, Exhausted
  <2> QED
    BY <2>1, <2>2, <2>3 DEF Move, AccountMove
<1> QED
  BY <1>2, <1>3, <1>4, <1>5, <1>6, <1>7, <1>8 DEF Choose

LEMMA FailOverIsMove ==
    ASSUME Shape, NEW r \in Requests, job[r].pc \in Suspended,
           NEW cost \in Costs, FailOver(r, cost)
    PROVE  Move(r)
BY FailOverMoves, NextCandidateIs DEF FailOver, GiveBack

LEMMA FailedCredentialsMoves ==
    ASSUME Shape, NEW r \in Requests, job[r].pc \in Suspended, FailedCredentials(r)
    PROVE  Move(r)
<1>1. 0 \in Costs
  BY DEF Costs
<1> QED
  BY <1>1, FailOverIsMove, AnswerMoves DEF FailedCredentials

LEMMA RowKept ==
    ASSUME Shape, NEW r \in Requests, UNCHANGED requests
    PROVE  SetRow(r, requests[r])
BY DEF Shape, SetRow

LEMMA ResumeMoves ==
    ASSUME Shape, NEW r \in Requests, Resume(r)
    PROVE  Move(r)
<1>1. 0 \in Costs /\ 1 \in Costs /\ IsJob(job[r])
  BY DEF Costs, Shape
<1>2. {"credentials", "pacing", "fetching", "refreshing", "delivering"} \subseteq Suspended
  BY DEF Suspended
<1>a. CASE CredentialsReady(r)
  BY <1>a, <1>2, GotoMoves DEF CredentialsReady
<1>b. CASE Refreshed(r)
  <2>1. job[r].pc \in Suspended
    BY <1>b, <1>2 DEF Refreshed
  <2>2. CASE Readmitted(r)
    BY <2>1, <2>2, <1>2, GotoMoves DEF Readmitted
  <2>3. CASE NotReadmitted(r)
    BY <2>1, <2>3, <1>1, AnswerMoves DEF NotReadmitted
  <2> QED
    BY <1>b, <2>2, <2>3 DEF Refreshed
<1>c. CASE CredentialsFailed(r)
  BY <1>c, <1>2, FailedCredentialsMoves DEF CredentialsFailed
<1>d. CASE Send(r)
  BY <1>d, <1>2, GotoMoves DEF Send, At
<1>e. CASE SpendingChanged(r)
  BY <1>e, <1>1, <1>2, FailOverIsMove DEF SpendingChanged
<1>f. CASE CapacityChanged(r)
  BY <1>f, <1>1, <1>2, FailOverIsMove DEF CapacityChanged
<1>g. CASE PacingRefused(r)
  <2>1. \/ ~ Present(r) /\ UNCHANGED upstreams
        \/ \E paid \in Costs : Present(r) /\ Settle(r, paid)
    BY <1>g, <1>1 DEF PacingRefused
  <2>2. /\ job[r].pc \in Suspended /\ job' = NextCandidate(r) /\ Release(r)
        /\ SetRow(r, RetriedRow(requests[r], 0))
    BY <1>g, <1>2 DEF PacingRefused
  <2> QED
    BY <1>1, <2>1, <2>2, NextCandidateIs, FailOverMoves
<1>h. CASE PacingAborted(r)
  <2>1. \/ ~ Present(r) /\ UNCHANGED upstreams
        \/ \E paid \in Costs : Present(r) /\ Settle(r, paid)
    BY <1>h, <1>1 DEF PacingAborted
  <2>2. /\ job[r].pc \in Suspended /\ Throw(r) /\ Release(r)
        /\ SetRow(r, RetriedRow(requests[r], 0))
    BY <1>h, <1>2 DEF PacingAborted
  <2> QED
    BY <1>1, <2>1, <2>2, ThrowMoves
<1>i. CASE Invalid(r)
  <2>1. /\ job[r].pc \in Suspended /\ Throw(r) /\ Release(r) /\ Present(r) /\ Settle(r, 0)
        /\ SetRow(r, requests[r])
    BY <1>i, <1>2, RowKept DEF Invalid, GiveBack
  <2> QED
    BY <1>1, <2>1, ThrowMoves
<1>j. CASE HostOpen(r)
  <2> DEFINE j == [job[r] EXCEPT !.pc = "choosing", !.plan = Tail(@), !.at = NoAccount,
                                 !.since = 0, !.auth = "first", !.resends = 0]
  <2>1. NextCandidate(r) = [job EXCEPT ![r] = j]
    BY DEF NextCandidate
  <2>2. /\ job' = [q \in Requests |-> job'[q]]
        /\ \A q \in Requests : q # r => job'[q] = job[q]
        /\ job'[r] = [j EXCEPT !.hostBlocked = TRUE]
    <3> HIDE DEF j
    <3>1. job' = [NextCandidate(r) EXCEPT ![r].hostBlocked = TRUE]
      BY <1>j DEF HostOpen
    <3> QED
      BY <2>1, <3>1 DEF Shape
  <2>3. IsJob(j) /\ j.pc = "choosing" /\ j.threw = job[r].threw
    <3>1. IsJob(job[r]) /\ "choosing" \in Pcs
      BY <1>1 DEF Pcs
    <3> QED
      BY <3>1 DEF IsJob
  <2> HIDE DEF j
  <2>4. IsJob(job'[r]) /\ job'[r].pc = "choosing"
    BY <2>2, <2>3 DEF IsJob
  <2>5. /\ job[r].pc \in Suspended /\ Present(r) /\ Settle(r, 0) /\ Release(r)
        /\ SetRow(r, RetriedRow(requests[r], 0))
    BY <1>j, <1>2 DEF HostOpen, GiveBack
  <2> QED
    BY <1>1, <2>2, <2>4, <2>5, FailOverMoves
<1>k. CASE Preconnect(r)
  BY <1>k, <1>1, <1>2, FailOverIsMove DEF Preconnect
<1>l. CASE TransportFailed(r)
  BY <1>l, <1>2, FailOverIsMove DEF TransportFailed
<1>m. CASE Cancelled(r)
  <2>1. PICK cost \in Costs : GiveBack(r, cost) /\ SetRow(r, ChargedRow(requests[r], cost))
    BY <1>m DEF Cancelled
  <2>2. job[r].pc \in Suspended /\ Throw(r)
    BY <1>m, <1>2 DEF Cancelled
  <2> QED
    BY <2>1, <2>2, ThrowMoves DEF GiveBack
<1>n. CASE Unauthorized(r)
  <2>1. job' = [job EXCEPT ![r] = [job[r] EXCEPT !.pc = "refreshing", !.auth = "retrying"]]
        /\ UNCHANGED <<upstreams, requests, reserved>> /\ job[r].pc \in Suspended
    BY <1>n, <1>2 DEF Unauthorized, Shape
  <2>2. /\ job' = [q \in Requests |-> job'[q]]
        /\ \A q \in Requests : q # r => job'[q] = job[q]
        /\ job'[r] = [job[r] EXCEPT !.pc = "refreshing", !.auth = "retrying"]
    BY <2>1 DEF Shape
  <2>3. /\ IsJob(job'[r]) /\ job'[r].pc = "refreshing" /\ job'[r].at = job[r].at
        /\ job'[r].attempt = job[r].attempt /\ job'[r].threw = job[r].threw
    BY <1>1, <2>2 DEF IsJob, Pcs, Suspended
  <2> QED
    BY <1>2, <2>1, <2>2, <2>3, GoesOnMoves
<1>o. CASE Unchanged(r)
  BY <1>o, <1>2, GotoMoves DEF Unchanged
<1>p. CASE RetryFailed(r)
  BY <1>p, <1>2, FailedCredentialsMoves DEF RetryFailed
<1>q. CASE Resend(r)
  <2> DEFINE auth == AfterAnswer(r)
  <2>1. job' = [job EXCEPT ![r] = [job[r] EXCEPT !.pc = "pacing", !.resends = @ + 1,
                                                 !.auth = auth]]
        /\ UNCHANGED <<upstreams, requests, reserved>> /\ job[r].pc \in Suspended
    BY <1>q, <1>2 DEF Resend
  <2> HIDE DEF auth
  <2>2. /\ job' = [q \in Requests |-> job'[q]]
        /\ \A q \in Requests : q # r => job'[q] = job[q]
        /\ job'[r] = [job[r] EXCEPT !.pc = "pacing", !.resends = @ + 1, !.auth = auth]
    BY <2>1 DEF Shape
  <2>3. /\ IsJob(job'[r]) /\ job'[r].pc = "pacing" /\ job'[r].at = job[r].at
        /\ job'[r].attempt = job[r].attempt /\ job'[r].threw = job[r].threw
    BY <1>1, <2>2 DEF IsJob, Pcs, Suspended
  <2> QED
    BY <1>2, <2>1, <2>2, <2>3, GoesOnMoves
<1>r. CASE RetryableFailure(r)
  BY <1>r, <1>2, FailOverIsMove DEF RetryableFailure
<1>s. CASE Rejected(r)
  BY <1>s, <1>2, AnswerMoves DEF Rejected
<1>t. CASE Collected(r)
  BY <1>t, <1>2, CloseBooksMoves DEF Collected
<1>u. CASE Accepted(r)
  <2> DEFINE auth == AfterAnswer(r)
  <2>1. job' = [job EXCEPT ![r] = [job[r] EXCEPT !.pc = "delivering", !.auth = auth]]
        /\ UNCHANGED <<upstreams, requests, reserved>> /\ job[r].pc \in Suspended
    BY <1>u, <1>2 DEF Accepted, Shape
  <2> HIDE DEF auth
  <2>2. /\ job' = [q \in Requests |-> job'[q]]
        /\ \A q \in Requests : q # r => job'[q] = job[q]
        /\ job'[r] = [job[r] EXCEPT !.pc = "delivering", !.auth = auth]
    BY <2>1 DEF Shape
  <2>3. /\ IsJob(job'[r]) /\ job'[r].pc = "delivering" /\ job'[r].at = job[r].at
        /\ job'[r].attempt = job[r].attempt /\ job'[r].threw = job[r].threw
    BY <1>1, <2>2 DEF IsJob, Pcs, Suspended
  <2> QED
    BY <1>2, <2>1, <2>2, <2>3, GoesOnMoves
<1>v. CASE Delivered(r)
  BY <1>v, <1>2, CloseBooksMoves DEF Delivered
<1>w. CASE BodyBroken(r)
  BY <1>w, <1>1, <1>2, CloseBooksMoves DEF BodyBroken
<1>x. CASE StreamOutlivesAccount(r)
  <2>1. PICK cost \in Costs : SetRow(r, FinalizedRow(requests[r], cost))
    BY <1>x DEF StreamOutlivesAccount
  <2>2. /\ job[r].pc \in Suspended /\ Throw(r) /\ Release(r)
        /\ ~ Present(r) /\ UNCHANGED upstreams
    BY <1>x, <1>2 DEF StreamOutlivesAccount
  <2> QED
    BY <2>1, <2>2, ThrowMoves
<1>y. CASE Bodiless(r)
  <2>1. "leaked" \in Pcs /\ job[r].pc \in Suspended
    BY <1>y, <1>2 DEF Pcs, Ended, Bodiless
  <2>2. Only(r) /\ job'[r].pc = "leaked" /\ job'[r].at = job[r].at
        /\ job'[r].attempt = job[r].attempt
    BY <1>y, <2>1, GotoIs, SetRowIs DEF Only, Bodiless
  <2>3. Keeps(r) /\ SendMove(r)
    BY <1>y, <2>1, <2>2 DEF Keeps, SendMove, Bodiless
  <2>4. Public(r) => RowMove(r, requests[r], requests'[r])
    BY <1>y, <1>1, <2>1, <2>2, SetRowIs DEF RowMove, Bodiless
  <2> QED
    BY <2>2, <2>3, <2>4 DEF Move, AccountMove
<1>z. CASE Lost(r)
  <2>1. /\ "lost" \in Pcs /\ job[r].pc \in Suspended /\ ~ Present(r)
        /\ UNCHANGED <<upstreams, requests>> /\ Goto(r, "lost")
        /\ Release(r) \/ UNCHANGED reserved
    BY <1>z, <1>2 DEF Pcs, Ended, Lost
  <2>2. Only(r) /\ job'[r].pc = "lost" /\ job'[r].at = job[r].at
        /\ job'[r].attempt = job[r].attempt
    BY <2>1, GotoIs, RowsUnchanged DEF Only
  <2>3. Loses(r) /\ SendMove(r)
    BY <2>1, <2>2 DEF Loses, Release, SendMove
  <2>4. RowMove(r, requests[r], requests'[r])
    BY <2>1, <2>2, RowsUnchanged DEF RowMove
  <2> QED
    BY <2>2, <2>3, <2>4 DEF Move, AccountMove
<1>A. CASE Answered(r)
  <2>1. Only(r) /\ job'[r].pc = "done" /\ job[r].pc = "answering"
    BY <1>A, EndIs, SetRowIs DEF Only, Answered
  <2>2. Keeps(r) /\ SendMove(r)
    BY <1>A, <2>1 DEF Keeps, SendMove, Suspended, Answered
  <2>3. Public(r) => RowMove(r, requests[r], requests'[r])
    BY <1>A, <2>1, SetRowIs DEF RowMove, Answered
  <2> QED
    BY <2>1, <2>2, <2>3 DEF Move, AccountMove
<1> QED
  BY <1>a, <1>b, <1>c, <1>d, <1>e, <1>f, <1>g, <1>h, <1>i, <1>j, <1>k, <1>l, <1>m, <1>n,
     <1>o, <1>p, <1>q, <1>r, <1>s, <1>t, <1>u, <1>v, <1>w, <1>x, <1>y, <1>z, <1>A DEF Resume

LEMMA CloseClientMoves ==
    ASSUME Shape, NEW r \in Requests, CloseClient(r)
    PROVE  Move(r)
<1>1. /\ job' = [q \in Requests |-> job'[q]]
      /\ \A q \in Requests : q # r => job'[q] = job[q]
      /\ job'[r] = [job[r] EXCEPT !.closed = TRUE]
      /\ UNCHANGED <<upstreams, requests, reserved>> /\ IsJob(job[r])
  BY DEF CloseClient, Shape
<1>2. /\ IsJob(job'[r]) /\ job'[r].pc = job[r].pc /\ job'[r].at = job[r].at
      /\ job'[r].attempt = job[r].attempt /\ job'[r].threw = job[r].threw
  BY <1>1 DEF IsJob
<1>3. Only(r)
  BY <1>1, <1>2, RowsUnchanged DEF Only
<1>4. Keeps(r) /\ SendMove(r)
  BY <1>1, <1>2 DEF Keeps, SendMove
<1>5. RowMove(r, requests[r], requests'[r])
  BY <1>1, <1>2, RowsUnchanged DEF RowMove
<1> QED
  BY <1>3, <1>4, <1>5 DEF Move, AccountMove

LEMMA NextIs ==
    ASSUME Shape, Next
    PROVE  \/ \E r \in Requests : Move(r)
           \/ \E a \in Accounts : SetCap(a) \/ RemoveAccount(a)
BY PlanMoves, ChooseMoves, ResumeMoves, CloseClientMoves DEF Next, Progress

-----------------------------------------------------------------------------
(* What a move keeps *)

LEMMA RowAfter ==
    ASSUME NEW r \in Requests, Shape, RowFollows(r), RowMove(r, requests[r], requests'[r])
    PROVE  requests'[r] \in Row /\ RowFollows(r)'
<1> DEFINE row == requests[r]
           next == requests'[r]
           from == job[r].pc
           to == job'[r].pc
<1>1. row \in Row /\ Costs \subseteq Nat /\ 0 \in Nat
  BY DEF Shape, Costs
<1>2. {"idle", "choosing", "answering", "done", "leaked", "lost"} \cap Suspended = {}
  BY DEF Suspended
<1>a. CASE from = "idle" /\ to = "choosing" /\ next = [row EXCEPT !.status = "open"]
  <2>1. row = [status |-> "absent", attempts |-> <<>>]
    BY <1>a DEF RowFollows
  <2>2. next = [status |-> "open", attempts |-> <<>>]
    BY <1>a, <2>1
  <2>3. next \in Row /\ next.status = "open" /\ next.attempts = <<>>
    BY <1>1, <2>1, <2>2 DEF Row
  <2>4. Between(next)
    BY <2>3 DEF Between, InProgress
  <2> QED
    BY <1>a, <1>2, <2>4 DEF RowFollows, Between
<1>b. CASE from = "idle" /\ to = "done" /\ next = [row EXCEPT !.status = "closed"]
  <2>1. next \in Row /\ next.status = "closed"
    BY <1>1, <1>b DEF Row
  <2> QED
    BY <1>b, <1>2, <2>1 DEF RowFollows
<1>c. CASE from = "choosing" /\ to \in Suspended /\ next = BegunRow(row)
  <2>1. Unpaid(next)
    BY <1>c, BegunRowIs DEF RowFollows
  <2> QED
    BY <1>c, <1>2, <2>1 DEF RowFollows, Unpaid, Running
<1>d. CASE from = "choosing" /\ to = "done" /\ next = ClosedRow(row)
  BY <1>d, <1>2, ClosedRowIs DEF RowFollows
<1>e. CASE from = "choosing" /\ to = "done" /\ next = row /\ job'[r].threw
  BY <1>e, <1>1, <1>2 DEF RowFollows
<1>f. CASE from \in Suspended /\ to = "choosing" /\ \E cost \in Costs : next = RetriedRow(row, cost)
  <2>1. Between(next)
    BY <1>f, <1>1, RetriedRowIs DEF RowFollows, Unpaid
  <2> QED
    BY <1>f, <1>2, <2>1 DEF RowFollows, Between
<1>g. CASE from \in Suspended /\ to = "answering" /\ \E cost \in Costs : next = ChargedRow(row, cost)
  <2>1. Running(next)
    BY <1>g, <1>1, ChargedRowIs DEF RowFollows, Unpaid
  <2> QED
    BY <1>g, <1>2, <2>1 DEF RowFollows, Running
<1>h. CASE from \in Suspended /\ to \in {"done", "leaked"}
             /\ \E cost \in Costs : next = FinalizedRow(row, cost)
  <2>1. next \in Row /\ next.status = "closed"
    BY <1>h, <1>1, FinalizedRowIs DEF RowFollows, Unpaid
  <2> QED
    BY <1>h, <1>2, <2>1 DEF RowFollows
<1>i. CASE from \in Suspended /\ to = "done" /\ job'[r].threw
             /\ \E cost \in Costs : next \in {row, RetriedRow(row, cost), ChargedRow(row, cost)}
  <2>1. next \in Row
    BY <1>i, <1>1, RetriedRowIs, ChargedRowIs DEF RowFollows, Unpaid, Running, Between
  <2> QED
    BY <1>i, <1>2, <2>1 DEF RowFollows
<1>j. CASE from \in Suspended /\ to \in Suspended \cup {"lost"} /\ next = row
  BY <1>j, <1>1, <1>2 DEF RowFollows
<1>k. CASE from = "answering" /\ to = "done" /\ next = FinalizedRow(row, 0)
  <2>1. next \in Row /\ next.status = "closed"
    BY <1>k, <1>1, FinalizedRowIs DEF RowFollows
  <2> QED
    BY <1>k, <1>2, <2>1 DEF RowFollows
<1>l. CASE from = to /\ next = row /\ job'[r].threw = job[r].threw
  BY <1>l, <1>1 DEF RowFollows
<1> QED
  BY <1>a, <1>b, <1>c, <1>d, <1>e, <1>f, <1>g, <1>h, <1>i, <1>j, <1>k, <1>l DEF RowMove

LEMMA RowsAfter ==
    ASSUME Shape, RowsFollow, NEW r \in Requests, Move(r)
    PROVE  RowsFollow' /\ requests' \in [Requests -> Row]
<1>1. ASSUME NEW q \in Requests
      PROVE  requests'[q] \in Row /\ (Public(q) => RowFollows(q)')
  <2>1. CASE q = r /\ Public(q)
    BY <2>1, RowAfter DEF RowsFollow, Move
  <2>2. CASE q = r /\ ~ Public(q)
    BY <2>2 DEF Shape, Move, Only
  <2>3. CASE q # r
    <3>1. requests'[q] = requests[q] /\ job'[q] = job[q]
      BY <2>3 DEF Move, Only
    <3> QED
      BY <3>1 DEF Shape, RowsFollow, RowFollows
  <2> QED
    BY <2>1, <2>2, <2>3
<1>2. requests' = [q \in Requests |-> requests'[q]]
  BY DEF Move, Only
<1> QED
  BY <1>1, <1>2 DEF RowsFollow, Public

LEMMA SettleIs ==
    ASSUME Shape, NEW r \in Requests, NEW cost \in Costs, Settle(r, cost)
    PROVE  /\ upstreams' \in [Accounts -> Account]
           /\ \A a \in Accounts :
                /\ upstreams'[a].present = upstreams[a].present
                /\ upstreams'[a].cap = upstreams[a].cap
                /\ upstreams'[a].epoch = upstreams[a].epoch
                /\ upstreams'[a].admissions =
                     upstreams[a].admissions - (IF a = At(r) THEN 1 ELSE 0)
                /\ \/ upstreams'[a].spent = upstreams[a].spent
                   \/ /\ a = At(r) /\ upstreams[a].cap > 0
                      /\ upstreams'[a].spent = upstreams[a].spent + 1
<1> DEFINE counted == upstreams[At(r)].cap > 0 /\ job[r].since = upstreams[At(r)].epoch
           paid == IF counted THEN cost ELSE 0
<1>1. upstreams' = [upstreams EXCEPT ![At(r)].admissions = @ - 1, ![At(r)].spent = @ + paid]
  BY DEF Settle
<1>2. paid \in {0, 1} /\ (paid = 1 => upstreams[At(r)].cap > 0)
  BY DEF Costs
<1> HIDE DEF paid
<1>3. upstreams \in [Accounts -> Account]
  BY DEF Shape
<1>4. ASSUME NEW a \in Accounts
      PROVE  /\ upstreams'[a] \in Account
             /\ upstreams'[a].present = upstreams[a].present
             /\ upstreams'[a].cap = upstreams[a].cap
             /\ upstreams'[a].epoch = upstreams[a].epoch
             /\ upstreams'[a].admissions =
                  upstreams[a].admissions - (IF a = At(r) THEN 1 ELSE 0)
             /\ upstreams'[a].spent = upstreams[a].spent + (IF a = At(r) THEN paid ELSE 0)
  <2>1. CASE a # At(r)
    <3>1. upstreams'[a] = upstreams[a]
      BY <1>1, <1>3, <2>1
    <3> QED
      BY <1>3, <2>1, <3>1 DEF Account
  <2>2. CASE a = At(r)
    <3>1. upstreams'[a] = [upstreams[a] EXCEPT !.admissions = @ - 1, !.spent = @ + paid]
      BY <1>1, <1>3, <2>2
    <3>2. upstreams[a] \in Account
      BY <1>3
    <3>3. /\ upstreams[a].admissions - 1 \in Int /\ upstreams[a].spent + paid \in Nat
          /\ upstreams[a].admissions - 1 = upstreams[a].admissions - (IF a = At(r) THEN 1 ELSE 0)
          /\ upstreams[a].spent + paid = upstreams[a].spent + (IF a = At(r) THEN paid ELSE 0)
      BY <1>2, <2>2, <3>2 DEF Account
    <3> DEFINE left == upstreams[a].admissions - 1
               spent == upstreams[a].spent + paid
    <3>4. upstreams'[a] = [upstreams[a] EXCEPT !.admissions = left, !.spent = spent]
      BY <3>1
    <3>5. left \in Int /\ spent \in Nat
      BY <3>3
    <3> HIDE DEF left, spent
    <3>6. /\ upstreams'[a] \in Account /\ upstreams'[a].present = upstreams[a].present
          /\ upstreams'[a].cap = upstreams[a].cap /\ upstreams'[a].admissions = left
          /\ upstreams'[a].epoch = upstreams[a].epoch
          /\ upstreams'[a].spent = spent
      BY <3>2, <3>4, <3>5 DEF Account
    <3> QED
      BY <3>3, <3>6 DEF left, spent
  <2> QED
    BY <2>1, <2>2
<1>5. upstreams' \in [Accounts -> Account]
  BY <1>1, <1>3, <1>4
<1>6. \A a \in Accounts : upstreams[a].spent \in Nat
  BY <1>3 DEF Account
<1> QED
  BY <1>2, <1>4, <1>5, <1>6

LEMMA TakesIs ==
    ASSUME Shape, NEW r \in Requests, Takes(r)
    PROVE  /\ upstreams' \in [Accounts -> Account]
           /\ \A a \in Accounts :
                /\ upstreams'[a].present = upstreams[a].present
                /\ upstreams'[a].cap = upstreams[a].cap
                /\ upstreams'[a].epoch = upstreams[a].epoch
                /\ upstreams'[a].spent = upstreams[a].spent
                /\ upstreams'[a].admissions =
                     upstreams[a].admissions + (IF a = job'[r].at THEN 1 ELSE 0)
<1>1. upstreams' = [upstreams EXCEPT ![job'[r].at].admissions = @ + 1]
  BY DEF Takes
<1>3. upstreams \in [Accounts -> Account]
  BY DEF Shape
<1>4. ASSUME NEW a \in Accounts
      PROVE  /\ upstreams'[a] \in Account
             /\ upstreams'[a].present = upstreams[a].present
             /\ upstreams'[a].cap = upstreams[a].cap
             /\ upstreams'[a].epoch = upstreams[a].epoch
             /\ upstreams'[a].spent = upstreams[a].spent
             /\ upstreams'[a].admissions =
                  upstreams[a].admissions + (IF a = job'[r].at THEN 1 ELSE 0)
  <2>1. CASE a # job'[r].at
    <3>1. upstreams'[a] = upstreams[a]
      BY <1>1, <1>3, <2>1
    <3> QED
      BY <1>3, <2>1, <3>1 DEF Account
  <2>2. CASE a = job'[r].at
    <3>1. upstreams'[a] = [upstreams[a] EXCEPT !.admissions = @ + 1]
      BY <1>1, <1>3, <2>2
    <3>2. upstreams[a] \in Account
      BY <1>3
    <3> QED
      BY <2>2, <3>1, <3>2 DEF Account
  <2> QED
    BY <2>1, <2>2
<1> QED
  BY <1>1, <1>3, <1>4

LEMMA ShapeAfter ==
    ASSUME Shape, RowsFollow, NEW r \in Requests, Move(r)
    PROVE  Shape'
<1>1. requests' \in [Requests -> Row]
  BY RowsAfter
<1>2. job' = [q \in Requests |-> job'[q]] /\ \A q \in Requests : IsJob(job'[q])
  BY DEF Shape, Move, Only
<1>3. upstreams' \in [Accounts -> Account]
  <2>1. CASE UNCHANGED upstreams
    BY <2>1 DEF Shape
  <2>2. CASE Takes(r)
    BY <2>2, TakesIs
  <2>3. CASE \E cost \in Costs : Settle(r, cost)
    BY <2>3, SettleIs
  <2> QED
    BY <2>1, <2>2, <2>3 DEF Move, AccountMove, Keeps, Frees, Loses
<1>4. job'[r].attempt \in Nat
  BY <1>2 DEF IsJob
<1>5. reserved' \subseteq Requests \X Nat
  BY <1>4 DEF Shape, Move, AccountMove, Keeps, Takes, Frees, Loses, Release
<1> QED
  BY <1>1, <1>2, <1>3, <1>5 DEF Shape

LEMMA HoldersAre ==
    ASSUME NEW a
    PROVE  IsFiniteSet(Holders(a)) /\ Cardinality(Holders(a)) \in Nat
           /\ Cardinality(Holders(a)) <= Cardinality(Requests) /\ Cardinality(Requests) \in Nat
<1>1. Holders(a) \in SUBSET Requests
  BY DEF Holders
<1>2. IsFiniteSet(Requests)
  BY ParametersAssumption
<1> QED
  BY <1>1, <1>2, FS_Subset, FS_CardinalityType

\* Who holds an account, after each kind of move.
LEMMA HoldersAfter ==
    ASSUME Shape, NEW r \in Requests, Only(r), AccountMove(r), NEW a \in Accounts
    PROVE  /\ Keeps(r) => Holders(a)' = Holders(a)
           /\ Takes(r) => r \notin Holders(a) /\ Holders(a)' =
                IF a = job'[r].at THEN Holders(a) \cup {r} ELSE Holders(a)
           /\ Frees(r) => Holders(a)' = Holders(a) \ {r}
           /\ Loses(r) => Holders(a)' = Holders(a) \ {r}
<1>1. \A q \in Requests : q # r => job'[q] = job[q]
  BY DEF Only
<1>2. {"choosing", "answering", "done", "lost", "leaked"} \cap Suspended = {}
  BY DEF Suspended
<1>3. ASSUME Keeps(r) PROVE Holders(a)' = Holders(a)
  <2>1. r \in Holders(a)' <=> r \in Holders(a)
    BY <1>2, <1>3 DEF Keeps, Holders, Holding, At
  <2> QED
    BY <1>1, <2>1 DEF Holders, Holding, At
<1>4. ASSUME Takes(r)
      PROVE  r \notin Holders(a) /\ Holders(a)' =
                IF a = job'[r].at THEN Holders(a) \cup {r} ELSE Holders(a)
  <2>1. r \notin Holders(a) /\ (r \in Holders(a)' <=> a = job'[r].at)
    BY <1>2, <1>4 DEF Takes, Holders, Holding, At
  <2> QED
    BY <1>1, <2>1 DEF Holders, Holding, At
<1>5. ASSUME Frees(r) \/ Loses(r) PROVE Holders(a)' = Holders(a) \ {r}
  <2>1. r \notin Holders(a)'
    BY <1>2, <1>5 DEF Frees, Loses, Holders, Holding, At
  <2> QED
    BY <1>1, <2>1 DEF Holders, Holding, At
<1> QED
  BY <1>3, <1>4, <1>5

LEMMA BalanceAfter ==
    ASSUME Shape, AdmissionsBalance, NEW r \in Requests, Move(r)
    PROVE  AdmissionsBalance'
<1> SUFFICES ASSUME NEW a \in Accounts, upstreams'[a].present
             PROVE  upstreams'[a].admissions = Cardinality(Holders(a)')
  BY DEF AdmissionsBalance
<1>0. Only(r) /\ AccountMove(r) /\ IsFiniteSet(Holders(a))
      /\ upstreams[a].admissions \in Int
  BY HoldersAre DEF Move, Shape, Account
<1>1. CASE Keeps(r)
  <2>1. Holders(a)' = Holders(a)
    BY <1>0, <1>1, HoldersAfter
  <2> QED
    BY <1>1, <2>1 DEF Keeps, AdmissionsBalance
<1>2. CASE Takes(r)
  <2>1. /\ r \notin Holders(a)
        /\ Holders(a)' = IF a = job'[r].at THEN Holders(a) \cup {r} ELSE Holders(a)
    BY <1>0, <1>2, HoldersAfter
  <2>2. upstreams[a].present /\ upstreams'[a].admissions =
            upstreams[a].admissions + (IF a = job'[r].at THEN 1 ELSE 0)
    BY <1>2, TakesIs
  <2>3. Cardinality(Holders(a) \cup {r}) = Cardinality(Holders(a)) + 1
    BY <1>0, <2>1, FS_AddElement
  <2>4. upstreams[a].admissions = Cardinality(Holders(a))
    BY <2>2 DEF AdmissionsBalance
  <2>5. CASE a = job'[r].at
    BY <1>0, <2>1, <2>2, <2>3, <2>4, <2>5
  <2>6. CASE a # job'[r].at
    BY <1>0, <2>1, <2>2, <2>4, <2>6
  <2> QED
    BY <2>5, <2>6
<1>3. CASE Frees(r)
  <2>1. Holders(a)' = Holders(a) \ {r}
    BY <1>0, <1>3, HoldersAfter
  <2>2. r \in Holders(a) <=> a = At(r)
    BY <1>3 DEF Frees, Holders, Holding
  <2>3. Cardinality(Holders(a) \ {r}) =
            IF r \in Holders(a) THEN Cardinality(Holders(a)) - 1 ELSE Cardinality(Holders(a))
    BY <1>0, FS_RemoveElement
  <2>4. CASE ~ Present(r) /\ UNCHANGED upstreams
    <3>1. a # At(r) /\ upstreams'[a] = upstreams[a]
      BY <2>4 DEF Present
    <3>2. r \notin Holders(a) /\ upstreams[a].admissions = Cardinality(Holders(a))
      BY <2>2, <3>1 DEF AdmissionsBalance
    <3> QED
      BY <2>1, <2>3, <3>1, <3>2
  <2>5. CASE \E cost \in Costs : Settle(r, cost)
    <3>1. upstreams[a].present /\ upstreams'[a].admissions =
            upstreams[a].admissions - (IF a = At(r) THEN 1 ELSE 0)
      BY <2>5, SettleIs
    <3>2. upstreams[a].admissions = Cardinality(Holders(a))
      BY <3>1 DEF AdmissionsBalance
    <3>3. Cardinality(Holders(a)) \in Nat
      BY HoldersAre
    <3>4. CASE a = At(r)
      BY <2>1, <2>2, <2>3, <3>1, <3>2, <3>3, <3>4
    <3>5. CASE a # At(r)
      BY <2>1, <2>2, <2>3, <3>1, <3>2, <3>3, <3>5
    <3> QED
      BY <3>4, <3>5
  <2> QED
    BY <1>3, <2>4, <2>5 DEF Frees
<1>4. CASE Loses(r)
  <2>1. Holders(a)' = Holders(a) \ {r} /\ upstreams' = upstreams
    BY <1>0, <1>4, HoldersAfter DEF Loses
  <2>2. a # At(r)
    BY <1>4, <2>1 DEF Loses, Present
  <2>3. Holders(a)' = Holders(a)
    BY <2>1, <2>2 DEF Holders
  <2> QED
    BY <2>1, <2>3 DEF AdmissionsBalance
<1> QED
  BY <1>0, <1>1, <1>2, <1>3, <1>4 DEF AccountMove

LEMMA SpendingAfter ==
    ASSUME Shape, SpendingIsCapped, NEW r \in Requests, Move(r)
    PROVE  SpendingIsCapped'
<1> SUFFICES ASSUME \A q \in Requests : Messages(q), NEW a \in Accounts, upstreams'[a].spent > 0
             PROVE  upstreams'[a].spent + Cardinality(Holders(a)')
                        < upstreams'[a].cap + Cardinality(Requests)
  BY DEF SpendingIsCapped, Messages
<1>0. /\ Only(r) /\ AccountMove(r) /\ IsFiniteSet(Holders(a))
      /\ Cardinality(Holders(a)) \in Nat /\ Cardinality(Requests) \in Nat
      /\ Cardinality(Holders(a)) <= Cardinality(Requests)
      /\ upstreams[a].spent \in Nat /\ upstreams[a].cap \in Nat
  BY HoldersAre DEF Move, Shape, Account
<1>9. upstreams[a].spent > 0 => upstreams[a].spent + Cardinality(Holders(a))
                                    < upstreams[a].cap + Cardinality(Requests)
  BY DEF SpendingIsCapped
<1>8. Cardinality(Holders(a) \ {r}) =
            IF r \in Holders(a) THEN Cardinality(Holders(a)) - 1 ELSE Cardinality(Holders(a))
  BY <1>0, FS_RemoveElement
<1>1. CASE Keeps(r)
  <2>1. Holders(a)' = Holders(a) /\ upstreams' = upstreams
    BY <1>0, <1>1, HoldersAfter DEF Keeps
  <2> QED
    BY <1>9, <2>1
<1>2. CASE Takes(r)
  <2>1. /\ r \notin Holders(a)
        /\ Holders(a)' = IF a = job'[r].at THEN Holders(a) \cup {r} ELSE Holders(a)
    BY <1>0, <1>2, HoldersAfter
  <2>2. upstreams'[a].spent = upstreams[a].spent /\ upstreams'[a].cap = upstreams[a].cap
    BY <1>2, TakesIs
  <2>3. CASE a # job'[r].at
    BY <1>9, <2>1, <2>2, <2>3
  <2>4. CASE a = job'[r].at
    <3>1. upstreams[a].spent < upstreams[a].cap
      BY <1>2, <2>4 DEF Takes, Eligible
    <3>2. Holders(a)' \in SUBSET Requests /\ IsFiniteSet(Requests)
      BY <2>1, ParametersAssumption DEF Holders
    <3>3. Cardinality(Holders(a)') <= Cardinality(Requests) /\ Cardinality(Holders(a)') \in Nat
      BY <3>2, FS_Subset, FS_CardinalityType
    <3> QED
      BY <1>0, <2>2, <3>1, <3>3
  <2> QED
    BY <2>3, <2>4
<1>3. CASE Frees(r)
  <2>1. Holders(a)' = Holders(a) \ {r}
    BY <1>0, <1>3, HoldersAfter
  <2>2. r \in Holders(a) <=> a = At(r)
    BY <1>3 DEF Frees, Holders, Holding
  <2>3. CASE UNCHANGED upstreams
    BY <1>0, <1>8, <1>9, <2>1, <2>3
  <2>4. CASE \E cost \in Costs : Settle(r, cost)
    <3>1. /\ upstreams'[a].cap = upstreams[a].cap
          /\ \/ upstreams'[a].spent = upstreams[a].spent
             \/ /\ a = At(r) /\ upstreams[a].cap > 0
                /\ upstreams'[a].spent = upstreams[a].spent + 1
      BY <2>4, SettleIs
    <3>2. CASE upstreams'[a].spent = upstreams[a].spent
      BY <1>0, <1>8, <1>9, <2>1, <3>1, <3>2
    <3>3. CASE a = At(r) /\ upstreams[a].cap > 0 /\ upstreams'[a].spent = upstreams[a].spent + 1
      BY <1>0, <1>8, <1>9, <2>1, <2>2, <3>1, <3>3
    <3> QED
      BY <3>1, <3>2, <3>3
  <2> QED
    BY <1>3, <2>3, <2>4 DEF Frees
<1>4. CASE Loses(r)
  <2>1. Holders(a)' = Holders(a) \ {r} /\ upstreams' = upstreams
    BY <1>0, <1>4, HoldersAfter DEF Loses
  <2> QED
    BY <1>0, <1>8, <1>9, <2>1
<1> QED
  BY <1>0, <1>1, <1>2, <1>3, <1>4 DEF AccountMove

LEMMA ReservationsAfter ==
    ASSUME Shape, ReservationsReturned, NEW r \in Requests, Move(r)
    PROVE  ReservationsReturned'
<1>0. Only(r) /\ AccountMove(r) /\ job[r].attempt \in Nat
  BY DEF Move, Shape, IsJob
<1>1. {"choosing", "answering", "done", "lost", "leaked"} \cap Suspended = {}
  BY DEF Suspended
<1>2. ASSUME NEW id \in reserved'
      PROVE  /\ id[2] = job'[id[1]].attempt
             /\ job'[id[1]].pc \in Suspended \cup {"leaked", "lost"}
  <2>1. CASE id[1] # r
    <3>1. id \in reserved /\ id[1] \in Requests
      BY <1>0, <2>1 DEF AccountMove, Keeps, Takes, Frees, Loses, Release, Shape
    <3>2. job'[id[1]] = job[id[1]]
      BY <1>0, <2>1, <3>1 DEF Only
    <3> QED
      BY <3>1, <3>2 DEF ReservationsReturned, Holding
  <2>2. CASE id[1] = r /\ id \in reserved
    <3>1. job[r].pc \in Suspended \cup {"leaked", "lost"} /\ id[2] = job[r].attempt
          /\ id = <<r, job[r].attempt>>
      BY <2>2 DEF ReservationsReturned, Holding, Shape
    <3>2. ~ Frees(r) /\ ~ Takes(r)
      BY <1>1, <3>1 DEF Frees, Takes, Release
    <3> QED
      BY <1>0, <1>1, <2>2, <3>1, <3>2 DEF AccountMove, Keeps, Loses
  <2>3. CASE id[1] = r /\ id \notin reserved
    <3>1. Takes(r) /\ id = <<r, job'[r].attempt>>
      BY <1>0, <2>3 DEF AccountMove, Keeps, Takes, Frees, Loses, Release
    <3> QED
      BY <3>1 DEF Takes
  <2> QED
    BY <2>1, <2>2, <2>3
<1>3. ASSUME NEW q \in Requests, Shared(q), job'[q].pc \in Suspended
      PROVE  <<q, job'[q].attempt>> \in reserved'
  <2>1. CASE q # r
    <3>1. job'[q] = job[q] /\ <<q, job[q].attempt>> \in reserved
      BY <1>0, <1>1, <1>3, <2>1 DEF Only, ReservationsReturned, Holding
    <3> QED
      BY <1>0, <2>1, <3>1 DEF AccountMove, Keeps, Takes, Frees, Loses, Release
  <2>2. CASE q = r
    <3>1. Takes(r) \/ (Keeps(r) /\ job[r].pc \in Suspended /\ job'[r].attempt = job[r].attempt)
      BY <1>0, <1>1, <1>3, <2>2 DEF AccountMove, Keeps, Frees, Loses
    <3>2. CASE Takes(r)
      BY <1>3, <2>2, <3>2 DEF Takes
    <3>3. CASE Keeps(r) /\ job[r].pc \in Suspended /\ job'[r].attempt = job[r].attempt
      BY <1>1, <1>3, <2>2, <3>3 DEF Keeps, ReservationsReturned, Holding
    <3> QED
      BY <3>1, <3>2, <3>3
  <2> QED
    BY <2>1, <2>2
<1> QED
  BY <1>1, <1>2, <1>3 DEF ReservationsReturned, Holding, Shared

LEMMA InvAtFirst == Init => IInv
<1> SUFFICES ASSUME Init PROVE IInv
  OBVIOUS
<1>1. PICK caps \in [Accounts -> Caps] :
          upstreams = [a \in Accounts |->
              [present |-> TRUE, cap |-> caps[a], epoch |-> 0, spent |-> 0, admissions |-> 0]]
  BY DEF Init
<1>2. upstreams \in [Accounts -> Account]
      /\ \A a \in Accounts : upstreams[a].admissions = 0 /\ upstreams[a].spent = 0
  <2>1. ASSUME NEW a \in Accounts
        PROVE  /\ upstreams[a] = [present |-> TRUE, cap |-> caps[a], epoch |-> 0,
                                  spent |-> 0, admissions |-> 0]
               /\ upstreams[a] \in Account
    <3>1. upstreams[a] = [present |-> TRUE, cap |-> caps[a], epoch |-> 0,
                          spent |-> 0, admissions |-> 0]
      BY <1>1
    <3>2. caps[a] \in Nat /\ TRUE \in BOOLEAN
      BY ParametersAssumption
    <3> QED
      BY <3>1, <3>2 DEF Account
  <2>2. upstreams = [a \in Accounts |-> upstreams[a]]
    BY <1>1
  <2> QED
    BY <2>1, <2>2
<1>3. \A r \in Requests : job[r] = NoJob
  BY DEF Init
<1>4. NoJob.pc = "idle" /\ IsJob(NoJob) /\ "idle" \notin Suspended \cup {"leaked"}
  BY DEF NoJob, IsJob, Pcs, Suspended
<1>5. \A r \in Requests : requests[r] = [status |-> "absent", attempts |-> <<>>]
                          /\ requests[r] \in Row
  BY DEF Init, Row
<1>6. Shape
  BY <1>2, <1>3, <1>4, <1>5 DEF Init, Shape
<1>7. RowsFollow
  BY <1>3, <1>4, <1>5 DEF RowsFollow, RowFollows, Suspended
<1>8. \A a \in Accounts : Holders(a) = {}
  BY <1>3, <1>4 DEF Holders, Holding
<1>9. AdmissionsBalance
  BY <1>2, <1>8, FS_EmptySet DEF AdmissionsBalance
<1>10. ReservationsReturned
  BY <1>3, <1>4 DEF Init, ReservationsReturned, Holding
<1>11. SpendingIsCapped
  BY <1>2 DEF SpendingIsCapped
<1> QED
  BY <1>6, <1>7, <1>9, <1>10, <1>11 DEF IInv

\* The operator: a cap starts spending anew, a removed account owes nothing.
LEMMA OperatorKeeps ==
    ASSUME IInv, NEW a \in Accounts, SetCap(a) \/ RemoveAccount(a)
    PROVE  IInv'
<1>1. UNCHANGED <<requests, reserved, job>>
  BY DEF SetCap, RemoveAccount
<1>2. upstreams \in [Accounts -> Account]
  BY DEF IInv, Shape
<1>3. ASSUME NEW b \in Accounts
      PROVE  /\ upstreams'[b] \in Account
             /\ upstreams'[b].present =>
                  upstreams[b].present /\ upstreams'[b].admissions = upstreams[b].admissions
             /\ \/ upstreams'[b].spent = 0
                \/ upstreams'[b].spent = upstreams[b].spent
                     /\ upstreams'[b].cap = upstreams[b].cap
  <2>1. CASE b # a
    <3>1. upstreams'[b] = upstreams[b]
      BY <1>2, <2>1 DEF SetCap, RemoveAccount
    <3> QED
      BY <1>2, <3>1
  <2>2. CASE b = a /\ SetCap(a)
    <3>1. PICK cap \in Caps : upstreams'[a] =
                 [upstreams[a] EXCEPT !.cap = cap, !.spent = 0, !.epoch = @ + 1]
      BY <1>2, <2>2 DEF SetCap
    <3>2. upstreams[a] \in Account /\ upstreams[a].present
      BY <1>2, <2>2 DEF SetCap
    <3> DEFINE epoch == upstreams[a].epoch + 1
    <3>3. epoch \in Nat
      BY <3>2 DEF Account
    <3>4. upstreams'[a] = [upstreams[a] EXCEPT !.cap = cap, !.spent = 0, !.epoch = epoch]
      BY <3>1
    <3>5. cap \in Nat
      BY ParametersAssumption
    <3> HIDE DEF epoch
    <3>6. upstreams'[a].spent = 0 /\ upstreams'[a].admissions = upstreams[a].admissions
      BY <3>2, <3>4 DEF Account
    <3>7. upstreams'[a] = [present |-> upstreams[a].present, cap |-> cap, epoch |-> epoch,
                           spent |-> 0, admissions |-> upstreams[a].admissions]
      BY <3>2, <3>4 DEF Account
    <3>8. upstreams[a].present \in BOOLEAN /\ upstreams[a].admissions \in Int
      BY <3>2 DEF Account
    <3>9. upstreams'[a] \in Account
      BY <3>3, <3>5, <3>7, <3>8 DEF Account
    <3> QED
      BY <2>2, <3>2, <3>6, <3>9
  <2>3. CASE b = a /\ RemoveAccount(a)
    <3>1. upstreams'[a] = [upstreams[a] EXCEPT !.present = FALSE, !.admissions = 0]
      BY <1>2, <2>3 DEF RemoveAccount
    <3>2. upstreams[a] \in Account
      BY <1>2
    <3>3. /\ upstreams'[a].present = FALSE /\ upstreams'[a].cap = upstreams[a].cap
          /\ upstreams'[a].spent = upstreams[a].spent
      BY <3>1, <3>2 DEF Account
    <3>4. upstreams'[a] = [present |-> FALSE, cap |-> upstreams[a].cap, admissions |-> 0,
                           epoch |-> upstreams[a].epoch, spent |-> upstreams[a].spent]
      BY <3>1, <3>2 DEF Account
    <3>5. /\ upstreams[a].cap \in Nat /\ upstreams[a].epoch \in Nat
          /\ upstreams[a].spent \in Nat /\ FALSE \in BOOLEAN
      BY <3>2 DEF Account
    <3>6. upstreams'[a] \in Account
      BY <3>4, <3>5 DEF Account
    <3> QED
      BY <2>3, <3>3, <3>6
  <2> QED
    BY <2>1, <2>2, <2>3
<1>4. upstreams' \in [Accounts -> Account]
  BY <1>2, <1>3 DEF SetCap, RemoveAccount
<1>5. \A b : Holders(b)' = Holders(b)
  BY <1>1 DEF Holders, Holding, At
<1>6. Shape'
  BY <1>1, <1>4 DEF IInv, Shape
<1>7. RowsFollow'
  BY <1>1 DEF IInv, RowsFollow, RowFollows, Public
<1>8. AdmissionsBalance'
  BY <1>3, <1>5 DEF IInv, AdmissionsBalance
<1>9. ReservationsReturned'
  BY <1>1 DEF IInv, ReservationsReturned, Holding, Shared
<1>10. SpendingIsCapped'
  <2> SUFFICES ASSUME \A q \in Requests : Messages(q), NEW b \in Accounts, upstreams'[b].spent > 0
               PROVE  upstreams'[b].spent + Cardinality(Holders(b)')
                          < upstreams'[b].cap + Cardinality(Requests)
    BY DEF SpendingIsCapped, Messages
  <2> QED
    BY <1>3, <1>5 DEF IInv, SpendingIsCapped
<1> QED
  BY <1>6, <1>7, <1>8, <1>9, <1>10 DEF IInv

LEMMA MoveKeeps ==
    ASSUME IInv, NEW r \in Requests, Move(r)
    PROVE  IInv'
BY RowsAfter, ShapeAfter, BalanceAfter, ReservationsAfter, SpendingAfter DEF IInv

LEMMA StutterKeeps ==
    ASSUME IInv, UNCHANGED vars
    PROVE  IInv'
<1>1. \A a : Holders(a)' = Holders(a)
  BY DEF vars, Holders, Holding, At
<1> QED
  BY <1>1 DEF vars, IInv, Shape, RowsFollow, RowFollows, AdmissionsBalance,
              ReservationsReturned, Holding, SpendingIsCapped, Public, Shared, Messages

\* A request holds exactly what it took (every path of dispatchCandidates).
THEOREM BooksAreKept == Spec => []IInv
<1>1. IInv /\ [Next]_vars => IInv'
  BY NextIs, MoveKeeps, OperatorKeeps, StutterKeeps DEF IInv
<1> QED
  BY InvAtFirst, <1>1, PTL DEF Spec

\* Every admission is settled once (settleUpstreamAttempt's callers).
THEOREM AdmissionsAreSettled == Spec => []AdmissionsBalance
<1>1. IInv => AdmissionsBalance
  BY DEF IInv
<1> QED
  BY <1>1, BooksAreKept, PTL

\* Every reservation of a share is given back (releaseShareRequest's callers).
THEOREM SharesAreReleased == Spec => []ReservationsReturned
<1>1. IInv => ReservationsReturned
  BY DEF IInv
<1> QED
  BY <1>1, BooksAreKept, PTL

\* Whatever is answered has its row closed (finalizeGatewaySuccess, ...Failure).
THEOREM AnswersAreClosed == Spec => []AnsweredIsClosed
<1>1. IInv => AnsweredIsClosed
  BY DEF IInv, RowsFollow, RowFollows, AnsweredIsClosed
<1> QED
  BY <1>1, BooksAreKept, PTL

\* A cap is overshot by less than one cost for each request (recordUsage).
THEOREM CapsAreNearlyKept == Spec => []OvershootIsBounded
<1>1. IInv => OvershootIsBounded
  <2> SUFFICES ASSUME IInv, \A r \in Requests : Messages(r), NEW a \in Accounts,
                      upstreams[a].spent > 0
               PROVE  upstreams[a].spent < upstreams[a].cap + Cardinality(Requests)
    BY DEF OvershootIsBounded
  <2>1. upstreams[a].spent + Cardinality(Holders(a)) < upstreams[a].cap + Cardinality(Requests)
    BY DEF IInv, SpendingIsCapped
  <2>2. Cardinality(Holders(a)) \in Nat /\ Cardinality(Requests) \in Nat
        /\ upstreams[a].spent \in Nat /\ upstreams[a].cap \in Nat
    BY HoldersAre DEF IInv, Shape, Account
  <2> QED
    BY <2>1, <2>2
<1> QED
  BY <1>1, BooksAreKept, PTL

\* Nobody is sent to an account whose cap is reached (spendingEligibility).
THEOREM SpentCapsHold == Spec => SpentCapStopsSending
<1>1. IInv /\ [Next]_vars =>
        [\A a \in Accounts : ~ Eligible(a) => Sent(a)' \subseteq Sent(a)]_vars
  <2> SUFFICES ASSUME IInv, Next, NEW a \in Accounts, ~ Eligible(a), NEW q \in Sent(a)'
               PROVE  q \in Sent(a)
    OBVIOUS
  <2>1. /\ q \in Requests /\ job'[q].at = a /\ job'[q].pc = "fetching" /\ Messages(q)
    BY DEF Sent, At, Messages
  <2>2. CASE \E r \in Requests : Move(r)
    <3>1. PICK r \in Requests : Move(r)
      BY <2>2
    <3>2. CASE q # r
      BY <2>1, <3>1, <3>2 DEF Move, Only, Sent, At
    <3>3. CASE q = r
      BY <2>1, <3>1, <3>3 DEF Move, SendMove, Sent, At
    <3> QED
      BY <3>2, <3>3
  <2>3. CASE \E b \in Accounts : SetCap(b) \/ RemoveAccount(b)
    BY <2>1, <2>3 DEF SetCap, RemoveAccount, Sent, At
  <2> QED
    BY <2>2, <2>3, NextIs DEF IInv
<1> QED
  BY <1>1, BooksAreKept, PTL DEF Spec, SpentCapStopsSending

-----------------------------------------------------------------------------
(* Ledger, implemented: one turn of a request is one turn of its book. *)

LEMMA EntryIs ==
    ASSUME NEW row \in Row
    PROVE  /\ row.attempts # <<>> =>
                Entry(row) = [status |-> row.status, attempt |-> Len(row.attempts),
                              phase |-> IF InProgress(row) THEN "running" ELSE "resting",
                              charges |-> LastCharges(row)]
           /\ row.attempts = <<>> =>
                Entry(row) = [status |-> row.status, attempt |-> 0,
                              phase |-> "resting", charges |-> 0]
           /\ Entry(row).status = row.status
BY DEF Entry, InProgress, LastCharges

LEMMA BooksTurn ==
    ASSUME Shape, NEW r \in Requests, Public(r), Only(r)
    PROVE  /\ PublicBooks[r] = Entry(requests[r])
           /\ r \in {q \in Requests : Public(q)}
           /\ PublicBooks' = [PublicBooks EXCEPT ![r] = Entry(requests'[r])]
<1>1. \A q \in Requests : q # r => Book(q)' = Book(q)
  BY DEF Only, Book, Entry, InProgress
<1>2. Book(r)' = Entry(requests'[r])
  BY DEF Book, Entry, InProgress
<1> QED
  BY <1>1, <1>2 DEF PublicBooks, Book, Public

\* What a turn of the row is to its book, by the state the row is in.
LEMMA UnopenedBook ==
    ASSUME Shape, NEW r \in Requests, Public(r), Only(r),
           requests[r] = [status |-> "absent", attempts |-> <<>>],
           NEW status \in {"open", "closed"},
           requests'[r] = [requests[r] EXCEPT !.status = status]
    PROVE  Books!Next
<1>1. requests'[r].status = status /\ requests'[r].attempts = <<>>
  OBVIOUS
<1>2. Entry(requests[r]) = Books!Blank
  BY DEF Entry, InProgress, Books!Blank, Books!Entry
<1>3. Entry(requests'[r]) = Books!Entry(status, 0, "resting", 0)
  BY <1>1 DEF Entry, InProgress, Books!Entry
<1> QED
  BY <1>2, <1>3, BooksTurn DEF Books!Next, Books!Open, Books!OpenAndClose, Books!Turn

LEMMA RestingBook ==
    ASSUME Shape, NEW r \in Requests, Public(r), Only(r), Between(requests[r]),
           requests'[r] \in {BegunRow(requests[r]), ClosedRow(requests[r])}
    PROVE  Books!Next
<1> DEFINE e == Entry(requests[r])
           f == Entry(requests'[r])
           n == Len(requests[r].attempts)
<1>1. e.status = "open" /\ e.phase = "resting" /\ e.attempt = n
  BY DEF Between, Entry
<1>2. /\ r \in {q \in Requests : Public(q)} /\ PublicBooks[r] = e
      /\ PublicBooks' = [PublicBooks EXCEPT ![r] = f]
  BY BooksTurn
<1>3. CASE requests'[r] = BegunRow(requests[r])
  <2>1. f = Books!Entry("open", n + 1, "running", 0)
    BY <1>3, BegunRowIs, EntryIs DEF Unpaid, Running, InProgress, Books!Entry
  <2> HIDE DEF e, f, n
  <2> QED
    BY <1>1, <1>2, <2>1 DEF Books!Next, Books!Start, Books!Is, Books!Turn
<1>4. CASE requests'[r] = ClosedRow(requests[r])
  <2>1. f = Books!Entry("closed", n, "resting", e.charges)
    BY <1>4, ClosedRowIs DEF Entry, Books!Entry
  <2> HIDE DEF e, f, n
  <2> QED
    BY <1>1, <1>2, <2>1 DEF Books!Next, Books!Close, Books!Is, Books!Turn
<1> QED
  BY <1>3, <1>4

LEMMA RunningBook ==
    ASSUME Shape, NEW r \in Requests, Public(r), Only(r), Running(requests[r]),
           NEW cost \in Costs, cost = 0 \/ Unpaid(requests[r]),
           requests'[r] \in {ChargedRow(requests[r], cost), RetriedRow(requests[r], cost),
                             FinalizedRow(requests[r], cost)}
    PROVE  Books!Next \/ UNCHANGED PublicBooks
<1> DEFINE e == Entry(requests[r])
           f == Entry(requests'[r])
           n == Len(requests[r].attempts)
           c == LastCharges(requests[r])
<1>1. e = Books!Entry("open", n, "running", c)
  BY EntryIs DEF Running, InProgress, Books!Entry
<1>2. c \in Nat /\ cost \in {0, 1} /\ (cost = 1 => c = 0)
  <2>1. c \in Nat
    BY InProgressIs DEF Running, LastCharges, Attempt
  <2> QED
    BY <2>1 DEF Costs, Unpaid
<1>3. c + cost \in {c, 1} /\ (cost = 1 => c = 0 /\ c + cost = 1) /\ (cost = 0 => c + cost = c)
  BY <1>2
<1>4. /\ r \in {q \in Requests : Public(q)} /\ PublicBooks[r] = e
      /\ PublicBooks' = [PublicBooks EXCEPT ![r] = f]
  BY BooksTurn
<1>5. /\ e.status = "open" /\ e.attempt = n /\ e.phase = "running" /\ e.charges = c
  BY <1>1 DEF Books!Entry
<1>6. CASE requests'[r] = ChargedRow(requests[r], cost)
  <2>1. f = Books!Entry("open", n, "running", c + cost)
    BY <1>2, <1>6, ChargedRowIs, EntryIs DEF Running, InProgress, Books!Entry
  <2> HIDE DEF e, f, n, c
  <2>2. CASE cost = 0
    <3>1. f = e
      BY <1>1, <1>3, <2>1, <2>2
    <3> QED
      BY <1>4, <3>1 DEF PublicBooks
  <2>3. CASE cost = 1
    <3>1. f = Books!Entry("open", n, "running", 1) /\ e.charges = 0
      BY <1>3, <1>5, <2>1, <2>3
    <3> QED
      BY <1>4, <1>5, <3>1 DEF Books!Next, Books!Charge, Books!Is, Books!Turn
  <2> QED
    BY <1>2, <2>2, <2>3
<1>7. CASE requests'[r] = RetriedRow(requests[r], cost)
  <2> DEFINE next == requests'[r]
  <2>0. cost \in Nat
    BY <1>2
  <2>1. /\ next \in Row /\ next.status = "open" /\ ~ InProgress(next)
        /\ next.attempts # <<>> /\ Len(next.attempts) = n /\ LastCharges(next) = c + cost
    BY <2>0, <1>7, RetriedRowIs DEF Between
  <2>2. f = Books!Entry("open", n, "resting", c + cost)
    BY <2>1, EntryIs DEF Books!Entry
  <2> HIDE DEF e, f, n, c
  <2> QED
    BY <1>3, <1>4, <1>5, <2>2 DEF Books!Next, Books!GiveUp, Books!Is, Books!Turn
<1>8. CASE requests'[r] = FinalizedRow(requests[r], cost)
  <2> DEFINE next == requests'[r]
  <2>0. cost \in Nat
    BY <1>2
  <2>1. /\ next \in Row /\ next.status = "closed" /\ ~ InProgress(next)
        /\ next.attempts # <<>> /\ Len(next.attempts) = n /\ LastCharges(next) = c + cost
    BY <2>0, <1>8, FinalizedRowIs
  <2>2. f = Books!Entry("closed", n, "resting", c + cost)
    BY <2>1, EntryIs DEF Books!Entry
  <2> HIDE DEF e, f, n, c
  <2> QED
    BY <1>3, <1>4, <1>5, <2>2 DEF Books!Next, Books!Finish, Books!Is, Books!Turn
<1> QED
  BY <1>6, <1>7, <1>8

LEMMA MoveIsATurn ==
    ASSUME IInv, NEW r \in Requests, Move(r)
    PROVE  Books!Next \/ UNCHANGED PublicBooks
<1> DEFINE row == requests[r]
           next == requests'[r]
           from == job[r].pc
<1>1. Shape /\ Only(r)
  BY DEF IInv, Move
<1>2. CASE next = row
  <2>1. requests' = requests
    BY <1>1, <1>2 DEF Shape, Only
  <2> QED
    BY <2>1 DEF PublicBooks, Book, Entry, InProgress
<1>3. CASE next # row
  <2>1. Public(r) /\ RowMove(r, row, next) /\ RowFollows(r)
    BY <1>1, <1>3 DEF Only, Move, IInv, RowsFollow
  <2>2. CASE from = "idle"
    <3>1. row = [status |-> "absent", attempts |-> <<>>]
      BY <2>1, <2>2 DEF RowFollows
    <3>2. \E status \in {"open", "closed"} : next = [row EXCEPT !.status = status]
      BY <1>3, <2>1, <2>2 DEF RowMove, Suspended
    <3> QED
      BY <1>1, <2>1, <3>1, <3>2, UnopenedBook
  <2>3. CASE from = "choosing"
    <3>1. Between(row)
      BY <2>1, <2>3 DEF RowFollows
    <3>2. next \in {BegunRow(row), ClosedRow(row)}
      BY <1>3, <2>1, <2>3 DEF RowMove, Suspended
    <3> QED
      BY <1>1, <2>1, <3>1, <3>2, RestingBook
  <2>4. CASE from \in Suspended
    <3>1. Unpaid(row) /\ Running(row)
      BY <2>1, <2>4 DEF RowFollows, Unpaid
    <3>2. \E cost \in Costs : next \in {ChargedRow(row, cost), RetriedRow(row, cost),
                                        FinalizedRow(row, cost)}
      BY <1>3, <2>1, <2>4 DEF RowMove, Suspended
    <3> QED
      BY <1>1, <2>1, <3>1, <3>2, RunningBook
  <2>5. CASE from = "answering"
    <3>1. Running(row)
      BY <2>1, <2>5 DEF RowFollows
    <3>2. next = FinalizedRow(row, 0) /\ 0 \in Costs
      BY <1>3, <2>1, <2>5 DEF RowMove, Suspended, Costs
    <3> QED
      BY <1>1, <2>1, <3>1, <3>2, RunningBook
  <2> QED
    BY <1>3, <2>1, <2>2, <2>3, <2>4, <2>5 DEF RowMove
<1> QED
  BY <1>2, <1>3

\* Dispatch implements Ledger: whatever the loop does with a public request is
\* what its books promise (store.js, gatewayRequests and gatewayAttempts).
THEOREM LedgerIsKept == Spec => LedgerKept
<1>1. Init => Books!Init
  <2> SUFFICES ASSUME Init
               PROVE  PublicBooks = [r \in {q \in Requests : Public(q)} |-> Books!Blank]
    BY DEF Books!Init
  <2>1. \A r \in Requests : Book(r) = Books!Blank
    BY DEF Init, Book, Entry, InProgress, Books!Blank, Books!Entry
  <2> QED
    BY <2>1 DEF PublicBooks
<1>2. IInv /\ [Next]_vars => [Books!Next]_PublicBooks
  <2> SUFFICES ASSUME IInv, [Next]_vars
               PROVE  Books!Next \/ UNCHANGED PublicBooks
    OBVIOUS
  <2>1. CASE UNCHANGED requests
    BY <2>1 DEF PublicBooks, Book, Entry, InProgress
  <2>2. CASE \E r \in Requests : Move(r)
    BY <2>2, MoveIsATurn
  <2>3. CASE \E a \in Accounts : SetCap(a) \/ RemoveAccount(a)
    BY <2>1, <2>3 DEF SetCap, RemoveAccount
  <2> QED
    BY <2>1, <2>2, <2>3, NextIs DEF IInv, vars
<1> QED
  BY <1>1, <1>2, BooksAreKept, PTL DEF Spec, LedgerKept, Books!Spec

-----------------------------------------------------------------------------
(* Lists of candidates. A list is gone through by a function of the index;   *)
(* that there is one, and only one, is by induction on its length.            *)

\* Induction on the naturals for a set of them.
LEMMA NatsAreReached ==
    ASSUME NEW T, 0 \in T, \A n \in Nat : n \in T => n + 1 \in T
    PROVE  \A n \in Nat : n \in T
<1> DEFINE less == {p \in Nat \X Nat : p[1] < p[2]}
           missed == Nat \ T
<1>1. IsWellFoundedOn(less, Nat)
  BY NatLessThanWellFounded DEF OpToRel
<1> HIDE DEF less
<1>2. SUFFICES ASSUME missed # {} PROVE FALSE
  OBVIOUS
<1>3. PICK x \in missed : \A y \in missed : ~ (<<y, x>> \in less)
  <2>1. missed \subseteq Nat
    OBVIOUS
  <2> HIDE DEF missed
  <2> QED
    BY <1>1, <1>2, <2>1, WFMin
<1>4. x \in Nat /\ x # 0 /\ x \notin T
  OBVIOUS
<1>5. x - 1 \in Nat /\ x = (x - 1) + 1
  BY <1>4
<1>6. x - 1 \in missed
  BY <1>4, <1>5
<1>7. <<x - 1, x>> \in less
  BY <1>4, <1>5 DEF less
<1> QED
  BY <1>3, <1>6, <1>7

\* A function is determined by its first value and by how it goes on, ...
GoesAlike(n, f, g) ==
    f[0] = g[0] /\ \A i \in 1 .. n : f[i - 1] = g[i - 1] => f[i] = g[i]

Alike(n, f, g) == \A i \in 0 .. n : f[i] = g[i]

LEMMA GoOnAlike ==
    ASSUME NEW n \in Nat, NEW f, NEW g, GoesAlike(n, f, g)
    PROVE  Alike(n, f, g)
<1> DEFINE T == {i \in Nat : i <= n => f[i] = g[i]}
<1>1. 0 \in T
  BY DEF GoesAlike
<1>2. ASSUME NEW i \in Nat, i \in T PROVE i + 1 \in T
  <2> SUFFICES ASSUME i + 1 <= n PROVE f[i + 1] = g[i + 1]
    OBVIOUS
  <2>1. i + 1 \in 1 .. n /\ (i + 1) - 1 = i /\ f[i] = g[i]
    BY <1>2
  <2> QED
    BY <2>1 DEF GoesAlike
<1> HIDE DEF T
<1>3. \A i \in Nat : i \in T
  BY <1>1, <1>2, NatsAreReached
<1> QED
  BY <1>3 DEF T, Alike

\* ... and one exists for each way of going on.
Runs(n, S, first, step) ==
    {f \in [0 .. n -> S] : f[0] = first /\ \A i \in 1 .. n : f[i] = step[i][f[i - 1]]}

LEMMA OneGoesOn ==
    ASSUME NEW n \in Nat, NEW S, NEW first \in S, NEW step,
           \A i \in 1 .. n : \A s \in S : step[i][s] \in S
    PROVE  Runs(n, S, first, step) # {}
<1> DEFINE Grows(m, f) == f[0] = first /\ \A i \in 1 .. m : f[i] = step[i][f[i - 1]]
           T == {m \in Nat : m <= n => \E f \in [0 .. m -> S] : Grows(m, f)}
<1>1. 0 \in T
  <2> DEFINE f == [i \in 0 .. 0 |-> first]
  <2>1. f \in [0 .. 0 -> S] /\ Grows(0, f)
    OBVIOUS
  <2> QED
    BY <2>1
<1>2. ASSUME NEW m \in Nat, m \in T PROVE m + 1 \in T
  <2> SUFFICES ASSUME m + 1 <= n PROVE \E f \in [0 .. m + 1 -> S] : Grows(m + 1, f)
    OBVIOUS
  <2>1. PICK f \in [0 .. m -> S] : Grows(m, f)
    BY <1>2
  <2> DEFINE next == step[m + 1][f[m]]
             g == [i \in 0 .. m + 1 |-> IF i <= m THEN f[i] ELSE next]
  <2>2. next \in S
    <3>1. m + 1 \in 1 .. n /\ f[m] \in S
      BY <2>1
    <3> QED
      BY <3>1
  <2> HIDE DEF next
  <2>3. g \in [0 .. m + 1 -> S]
    BY <2>1, <2>2
  <2>4. ASSUME NEW i \in 1 .. m + 1 PROVE g[i] = step[i][g[i - 1]]
    <3>1. CASE i <= m
      <4>1. g[i] = f[i] /\ g[i - 1] = f[i - 1] /\ i \in 1 .. m
        BY <3>1
      <4> QED
        BY <2>1, <4>1
    <3>2. CASE i = m + 1
      <4>1. g[i] = next /\ g[i - 1] = f[m]
        BY <3>2
      <4> QED
        BY <3>2, <4>1 DEF next
    <3> QED
      BY <3>1, <3>2
  <2>5. g[0] = first
    BY <2>1
  <2> QED
    BY <2>3, <2>4, <2>5
<1> HIDE DEF T
<1>3. n \in T
  BY <1>1, <1>2, NatsAreReached
<1> QED
  BY <1>3 DEF T, Runs

\* Choosing among candidates gives candidates.
LEMMA AmongIs ==
    ASSUME NEW candidates \in Seq(Accounts), NEW accounts
    PROVE  Among(candidates, accounts) \in Seq(Accounts)
<1> DEFINE n == Len(candidates)
           lists == Seq(Accounts)
           empty == <<>>
           Going(i, s) == IF candidates[i] \in accounts THEN Append(s, candidates[i]) ELSE s
           step == [i \in 1 .. n |-> [s \in lists |-> Going(i, s)]]
           Def(f) == f = [i \in 0 .. n |-> IF i = 0 THEN empty ELSE Going(i, f[i - 1])]
           kept == CHOOSE f : Def(f)
<1>1. n \in Nat /\ empty \in lists
  OBVIOUS
<1>2. \A i \in 1 .. n : \A s \in lists : Going(i, s) \in lists
  OBVIOUS
<1>3. Among(candidates, accounts) = kept[n]
  BY DEF Among
<1> HIDE DEF n, lists, empty, Going
<1>5. \A i \in 1 .. n : \A s \in lists : step[i][s] = Going(i, s)
  OBVIOUS
<1>4. \A i \in 1 .. n : \A s \in lists : step[i][s] \in lists
  BY <1>2, <1>5
<1> HIDE DEF step, kept
<1>6. PICK f \in [0 .. n -> lists] :
          f[0] = empty /\ \A i \in 1 .. n : f[i] = step[i][f[i - 1]]
  <2>1. Runs(n, lists, empty, step) # {}
    BY <1>1, <1>4, OneGoesOn
  <2> QED
    BY <2>1 DEF Runs
<1>7. \A i \in 1 .. n : f[i] = Going(i, f[i - 1])
  <2> SUFFICES ASSUME NEW i \in 1 .. n PROVE f[i] = Going(i, f[i - 1])
    OBVIOUS
  <2>1. i - 1 \in 0 .. n
    BY <1>1
  <2> QED
    BY <1>5, <1>6, <2>1
<1>8. Def(f)
  BY <1>1, <1>6, <1>7
<1>9. Def(kept)
  BY <1>8 DEF kept
<1>10. kept[0] = empty /\ \A i \in 1 .. n : kept[i] = Going(i, kept[i - 1])
  BY <1>1, <1>9
<1>11. \A i \in 1 .. n : kept[i - 1] = f[i - 1] => kept[i] = f[i]
  BY <1>7, <1>10
<1>12. \A i \in 0 .. n : kept[i] = f[i]
  <2>1. GoesAlike(n, kept, f)
    BY <1>6, <1>10, <1>11 DEF GoesAlike
  <2> QED
    BY <1>1, <2>1, GoOnAlike DEF Alike
<1>13. kept[n] \in lists
  BY <1>1, <1>6, <1>12
<1> QED
  BY <1>3, <1>13 DEF lists

\* Rounds put one after the other.
LEMMA FlattenIs ==
    ASSUME NEW n \in Nat, NEW rounds \in [1 .. n -> Seq(Accounts)]
    PROVE  FlattenSeq(rounds) \in Seq(Accounts)
<1> DEFINE lists == Seq(Accounts)
           empty == <<>>
           Going(i, s) == IF i = 1 THEN rounds[i] ELSE s \o rounds[i]
           step == [i \in 1 .. n |-> [s \in lists |-> Going(i, s)]]
           Def(f) == f = [i \in 1 .. n |-> IF i = 1 THEN rounds[i] ELSE f[i - 1] \o rounds[i]]
           flat == CHOOSE f : Def(f)
<1>1. Len(rounds) = n /\ empty \in lists /\ rounds \in Seq(Seq(Accounts))
  OBVIOUS
<1>2. \A i \in 1 .. n : \A s \in lists : Going(i, s) \in lists
  OBVIOUS
<1>3. CASE n = 0
  BY <1>1, <1>3 DEF FlattenSeq
<1>4. CASE n # 0
  <2>1. FlattenSeq(rounds) = flat[n]
    BY <1>1, <1>4 DEF FlattenSeq
  <2>2. \A f : Def(f) <=> f = [i \in 1 .. n |-> Going(i, f[i - 1])]
    OBVIOUS
  <2> HIDE DEF lists, empty, Going, Def
  <2>3. \A i \in 1 .. n : \A s \in lists : step[i][s] = Going(i, s)
    OBVIOUS
  <2>4. \A i \in 1 .. n : \A s \in lists : step[i][s] \in lists
    BY <1>2, <2>3
  <2> HIDE DEF step, flat
  <2>5. PICK f \in [0 .. n -> lists] : \A i \in 1 .. n : f[i] = step[i][f[i - 1]]
    <3>1. Runs(n, lists, empty, step) # {}
      BY <1>1, <2>4, OneGoesOn
    <3> QED
      BY <3>1 DEF Runs
  <2>6. \A i \in 1 .. n : f[i] = Going(i, f[i - 1])
    <3> SUFFICES ASSUME NEW i \in 1 .. n PROVE f[i] = Going(i, f[i - 1])
      OBVIOUS
    <3>1. i - 1 \in 0 .. n
      OBVIOUS
    <3> QED
      BY <2>3, <2>5, <3>1
  <2> DEFINE g == [i \in 1 .. n |-> f[i]]
  <2>7. \A i \in 1 .. n : g[i] = Going(i, g[i - 1])
    <3>1. \A i \in 1 .. n : i # 1 => g[i - 1] = f[i - 1]
      OBVIOUS
    <3>2. \A s : Going(1, s) = rounds[1]
      BY DEF Going
    <3> QED
      BY <2>6, <3>1, <3>2
  <2>8. g = [i \in 1 .. n |-> Going(i, g[i - 1])]
    BY <2>7
  <2>9. Def(flat)
    <3>1. Def(g)
      BY <2>2, <2>8
    <3> QED
      BY <3>1 DEF flat
  <2>10. \A i \in 1 .. n : flat[i] = Going(i, flat[i - 1])
    <3>1. flat = [i \in 1 .. n |-> Going(i, flat[i - 1])]
      BY <2>2, <2>9
    <3> QED
      BY <3>1
  <2> DEFINE h == [i \in 0 .. n |-> IF i = 0 THEN f[0] ELSE flat[i]]
  <2>11. \A i \in 1 .. n : h[i - 1] = f[i - 1] => h[i] = f[i]
    <3> SUFFICES ASSUME NEW i \in 1 .. n, h[i - 1] = f[i - 1] PROVE h[i] = f[i]
      OBVIOUS
    <3>1. CASE i = 1
      <4>1. \A s : Going(1, s) = rounds[1]
        BY DEF Going
      <4> QED
        BY <2>6, <2>10, <3>1, <4>1
    <3>2. CASE i # 1
      <4>1. h[i - 1] = flat[i - 1] /\ h[i] = flat[i]
        BY <3>2
      <4> QED
        BY <2>6, <2>10, <4>1
    <3> QED
      BY <3>1, <3>2
  <2>14. h[0] = f[0]
    OBVIOUS
  <2> HIDE DEF h
  <2>12. \A i \in 0 .. n : h[i] = f[i]
    <3>1. GoesAlike(n, h, f)
      BY <2>11, <2>14 DEF GoesAlike
    <3> QED
      BY <3>1, GoOnAlike DEF Alike
  <2>13. flat[n] = f[n] /\ f[n] \in lists
    BY <1>4, <2>5, <2>12 DEF h
  <2> QED
    BY <2>1, <2>13 DEF lists
<1> QED
  BY <1>3, <1>4

\* The last round is that of the highest limit.
LEMMA LastRoundIs ==
    ASSUME NEW candidates \in Seq(Accounts)
    PROVE  LastRound(candidates) \in Nat
<1> DEFINE limits(n) == {0} \cup {RetryLimit[candidates[i]] : i \in 1 .. n}
           T == {n \in Nat : n <= Len(candidates) =>
                    \E top \in limits(n) : \A limit \in limits(n) : limit <= top}
<1>1. \A i \in 1 .. Len(candidates) : RetryLimit[candidates[i]] \in Nat
  BY ParametersAssumption
<1>2. \A n \in 0 .. Len(candidates) : limits(n) \subseteq Nat
  BY <1>1
<1>3. 0 \in T
  OBVIOUS
<1>4. ASSUME NEW n \in Nat, n \in T PROVE n + 1 \in T
  <2> SUFFICES ASSUME n + 1 <= Len(candidates)
               PROVE  \E top \in limits(n + 1) : \A limit \in limits(n + 1) : limit <= top
    OBVIOUS
  <2>1. PICK top \in limits(n) : \A limit \in limits(n) : limit <= top
    BY <1>4
  <2> DEFINE more == RetryLimit[candidates[n + 1]]
  <2>2. limits(n + 1) = limits(n) \cup {more}
    <3>1. 1 .. n + 1 = (1 .. n) \cup {n + 1}
      OBVIOUS
    <3> QED
      BY <3>1
  <2>3. more \in Nat /\ limits(n) \subseteq Nat
    BY <1>1, <1>2
  <2> HIDE DEF limits, more
  <2>4. CASE more <= top
    BY <2>1, <2>2, <2>3, <2>4
  <2>5. CASE ~ (more <= top)
    BY <2>1, <2>2, <2>3, <2>5
  <2> QED
    BY <2>4, <2>5
<1>5. Len(candidates) \in Nat
  OBVIOUS
<1>6. Len(candidates) \in T
  <2> HIDE DEF T
  <2> QED
    BY <1>3, <1>4, <1>5, NatsAreReached
<1> DEFINE all == {0} \cup {RetryLimit[a] : a \in Range(candidates)}
<1>7. all = limits(Len(candidates))
  BY DEF Range
<1>8. all \subseteq Nat
  BY SMTT(30), <1>2, <1>7
<1>9. \E top \in all : \A limit \in all : limit <= top
  <2> HIDE DEF limits, all
  <2> QED
    BY <1>5, <1>6, <1>7
<1>10. Max(all) \in all
  <2> HIDE DEF all
  <2>1. \E top \in all : \A limit \in all : top >= limit
    BY <1>8, <1>9
  <2> QED
    BY <2>1 DEF Max
<1> QED
  BY <1>8, <1>10 DEF LastRound

\* What gatewayCandidateAttempts yields ...
LEMMA AttemptsAre ==
    ASSUME NEW r, NEW candidates \in Seq(Accounts)
    PROVE  CandidateAttempts(r, candidates) \in Seq(Accounts)
<1>1. ASSUME NEW list \in Seq(Accounts) PROVE Rounds(list) \in Seq(Accounts)
  <2> DEFINE last == LastRound(list)
             Round(n) == Among(list, {a \in Accounts : RetryLimit[a] >= n})
             rounds == [n \in 1 .. last + 1 |-> Round(n - 1)]
  <2>1. last + 1 \in Nat
    BY LastRoundIs
  <2>2. \A n : Round(n) \in Seq(Accounts)
    BY AmongIs
  <2>3. Rounds(list) = FlattenSeq(rounds)
    BY DEF Rounds
  <2> HIDE DEF last, Round
  <2>4. rounds \in [1 .. last + 1 -> Seq(Accounts)]
    BY <2>2
  <2> HIDE DEF rounds
  <2> QED
    BY <2>1, <2>3, <2>4, FlattenIs
<1>2. \A type : OfType(candidates, type) \in Seq(Accounts)
  BY AmongIs DEF OfType
<1>3. \A type : Rounds(OfType(candidates, type)) \in Seq(Accounts)
  BY <1>1, <1>2
<1>4. Rounds(OfType(candidates, "claude")) \o Rounds(OfType(candidates, "compass"))
         \in Seq(Accounts)
  BY <1>3
<1> QED
  BY <1>1, <1>4 DEF CandidateAttempts

\* ... of what chooseUpstreamPlan may answer.
LEMMA PlansAre ==
    ASSUME NEW r, NEW candidates \in Plans(r)
    PROVE  candidates \in Seq(Accounts)
<1>1. PICK S \in SUBSET {a \in Accounts : Serves(r, a)} : candidates \in SetToSeqs(S)
  BY DEF Plans
<1>2. S \subseteq Accounts /\ candidates \in [1 .. Cardinality(S) -> S]
  BY <1>1 DEF SetToSeqs
<1>3. Cardinality(S) \in Nat
  BY <1>2, ParametersAssumption, FS_Subset, FS_CardinalityType
<1> QED
  BY <1>2, <1>3

-----------------------------------------------------------------------------
(* Types *)

\* What Shape leaves out of TypeOK, and what an account owes when it is gone.
Typed ==
    /\ \A a \in Accounts :
          /\ upstreams[a].cap \in Caps /\ upstreams[a].epoch \in 0 .. MaxCapChanges
          /\ ~ upstreams[a].present => upstreams[a].admissions = 0
    /\ \A r \in Requests : job[r] \in Job /\ (job[r].pc \in Suspended => Pending(r))

\* The parts of a job.
LEMMA JobFieldsAre ==
    ASSUME NEW j \in Job
    PROVE  /\ j.pc \in Pcs /\ j.plan \in Seq(Accounts)
           /\ j.tried \in [{"all", "claude", "compass"} -> Nat]
           /\ j.at \in Accounts \cup {NoAccount} /\ j.attempt \in Nat
           /\ j.since \in 0 .. MaxCapChanges /\ j.auth \in {"first", "retrying", "retried"}
           /\ j.resends \in 0 .. MaxResends /\ j.hostBlocked \in BOOLEAN
           /\ j.closed \in BOOLEAN /\ j.threw \in BOOLEAN
BY DEF Job, Pcs

\* A request at rest.
LEMMA NoJobIs == NoJob \in Job
<1> DEFINE none == [p \in {"all", "claude", "compass"} |-> 0]
<1>1. none \in [{"all", "claude", "compass"} -> Nat]
  OBVIOUS
<1>2. /\ "idle" \in {"idle", "choosing", "answering"} \cup Suspended \cup Ended
      /\ <<>> \in Seq(Accounts) /\ "first" \in {"first", "retrying", "retried"}
      /\ 0 \in 0 .. MaxCapChanges /\ 0 \in 0 .. MaxResends
  BY ParametersAssumption
<1> HIDE DEF none
<1>3. NoJob = [pc |-> "idle", plan |-> <<>>, tried |-> none,
               at |-> NoAccount, attempt |-> 0, since |-> 0, auth |-> "first", resends |-> 0,
               hostBlocked |-> FALSE, closed |-> FALSE, threw |-> FALSE]
  BY DEF NoJob, none
<1> QED
  BY <1>1, <1>2, <1>3 DEF Job

\* Of a request's next job: well typed, and with a candidate if it is suspended.
Sound(j) == j \in Job /\ (j.pc \in Suspended => j.plan # <<>>)

\* A turn that changes where the request is.
LEMMA GotoTypes ==
    ASSUME Shape, Typed, NEW r \in Requests, NEW pc \in Pcs, Goto(r, pc),
           job[r].pc \in Suspended
    PROVE  Sound(job'[r])
<1>1. job[r] \in Job /\ job'[r] = [job[r] EXCEPT !.pc = pc] /\ job[r].plan # <<>>
  BY GotoIs DEF Typed, Pending
<1>2. job'[r] \in Job
  BY <1>1 DEF Job, Pcs
<1>3. job'[r].plan = job[r].plan
  BY <1>1 DEF Job
<1> QED
  BY <1>1, <1>2, <1>3 DEF Sound

\* The job that looks at the next candidate.
NextJob(j) ==
    [j EXCEPT !.pc = "choosing", !.plan = Tail(@), !.at = NoAccount,
              !.since = 0, !.auth = "first", !.resends = 0]

\* The next candidate is taken from a plan that has one.
LEMMA NextJobIs ==
    ASSUME NEW j \in Job, j.plan # <<>>
    PROVE  NextJob(j) \in Job /\ NextJob(j).pc = "choosing"
<1> DEFINE rest == Tail(j.plan)
<1>1. rest \in Seq(Accounts)
  BY JobFieldsAre
<1>2. NextJob(j) = [j EXCEPT !.pc = "choosing", !.plan = rest, !.at = NoAccount,
                             !.since = 0, !.auth = "first", !.resends = 0]
  BY DEF NextJob
<1> HIDE DEF rest
<1>3. 0 \in 0 .. MaxCapChanges /\ 0 \in 0 .. MaxResends
  BY ParametersAssumption
<1>4. NextJob(j) \in Job
  BY <1>1, <1>2, <1>3 DEF Job
<1>5. NextJob(j).pc = "choosing"
  BY <1>2 DEF Job
<1> QED
  BY <1>4, <1>5

\* One that goes on to the next candidate, ends, ...
LEMMA NextCandidateTypes ==
    ASSUME Shape, Typed, NEW r \in Requests, Pending(r), job' = NextCandidate(r)
    PROVE  Sound(job'[r])
<1>1. job[r] \in Job /\ job[r].plan # <<>>
  BY DEF Typed, Pending
<1>2. job'[r] = NextJob(job[r])
  BY DEF NextCandidate, NextJob, Shape
<1> QED
  BY <1>1, <1>2, NextJobIs DEF Sound, Suspended

LEMMA EndTypes ==
    ASSUME Shape, Typed, NEW r \in Requests, Return(r) \/ Throw(r)
    PROVE  Sound(job'[r])
<1> DEFINE closed == job[r].closed
           returned == [NoJob EXCEPT !.pc = "done"]
           thrown == [NoJob EXCEPT !.pc = "done", !.threw = TRUE, !.closed = closed]
<1>1. job'[r] = returned \/ job'[r] = thrown
  BY DEF Return, Throw, Shape
<1>2. closed \in BOOLEAN /\ NoJob \in Job
  BY NoJobIs, JobFieldsAre DEF Typed
<1> HIDE DEF closed
<1>3. returned \in Job /\ returned.pc = "done" /\ thrown \in Job /\ thrown.pc = "done"
  BY <1>2 DEF Job, Ended
<1> HIDE DEF returned, thrown
<1>4. job'[r] \in Job /\ job'[r].pc = "done"
  BY <1>1, <1>3
<1> QED
  BY <1>4 DEF Sound, Suspended

\* ... counts a try, begins an attempt, ...
LEMMA CountTryTypes ==
    ASSUME NEW j \in Job, NEW phase
    PROVE  CountTry(j, phase) \in Job /\ CountTry(j, phase).pc = j.pc
           /\ CountTry(j, phase).plan = j.plan /\ CountTry(j, phase).attempt = j.attempt
<1> DEFINE tried == [j.tried EXCEPT ![phase] = @ + 1]
<1>1. tried \in [{"all", "claude", "compass"} -> Nat]
  <2> DEFINE phases == {"all", "claude", "compass"}
             before == j.tried
  <2>1. before \in [phases -> Nat]
    BY JobFieldsAre
  <2> HIDE DEF phases, before
  <2>2. [before EXCEPT ![phase] = @ + 1] \in [phases -> Nat]
    <3>1. CASE phase \in phases
      BY <2>1, <3>1
    <3>2. CASE phase \notin phases
      <4>1. [before EXCEPT ![phase] = @ + 1] = before
        BY <2>1, <3>2
      <4> QED
        BY <2>1, <4>1
    <3> QED
      BY <3>1, <3>2
  <2> QED
    BY <2>2 DEF phases, before
<1>2. CountTry(j, phase) = [j EXCEPT !.tried = tried]
  BY DEF CountTry
<1> HIDE DEF tried
<1>3. CountTry(j, phase) \in Job
  BY <1>1, <1>2 DEF Job
<1>4. CountTry(j, phase).pc = j.pc /\ CountTry(j, phase).plan = j.plan
      /\ CountTry(j, phase).attempt = j.attempt
  BY <1>2 DEF Job
<1> QED
  BY <1>3, <1>4

LEMMA BeginTypes ==
    ASSUME Shape, Typed, NEW r \in Requests, Begin(r)
    PROVE  Sound(job'[r])
<1> DEFINE counted == CountTry(job[r], Phase(r))
           since == upstreams[Candidate(r)].epoch
           attempt == counted.attempt + 1
           a == Candidate(r)
<1>1. job'[r] = [counted EXCEPT !.pc = "credentials", !.at = a, !.attempt = attempt,
                                !.since = since]
  BY DEF Begin, Shape
<1>2. job[r] \in Job /\ job[r].plan \in Seq(Accounts) /\ job[r].plan # <<>>
      /\ job[r].attempt \in Nat
  BY JobFieldsAre DEF Typed, Begin, MayBegin, Pending
<1>3. a \in Accounts
  BY <1>2 DEF Candidate
<1>4. since \in 0 .. MaxCapChanges
  BY <1>3 DEF Typed
<1>5. counted \in Job /\ counted.plan = job[r].plan /\ attempt \in Nat
  BY <1>2, CountTryTypes
<1> HIDE DEF counted, since, attempt, a
<1>6. job'[r] \in Job /\ job'[r].plan = counted.plan
  BY <1>1, <1>3, <1>4, <1>5 DEF Job, Suspended
<1> QED
  BY <1>2, <1>5, <1>6 DEF Sound

\* ... plans, chooses, ...
LEMMA PlanTypes ==
    ASSUME Shape, Typed, NEW r \in Requests, Plan(r)
    PROVE  Sound(job'[r])
<1>1. PICK candidates \in Plans(r) :
          job' = [job EXCEPT ![r].pc = IF candidates = <<>> THEN "done" ELSE "choosing",
                             ![r].plan = CandidateAttempts(r, candidates)]
  BY DEF Plan
<1> DEFINE pc == IF candidates = <<>> THEN "done" ELSE "choosing"
           plan == CandidateAttempts(r, candidates)
<1>2. pc \in {"done", "choosing"} /\ plan \in Seq(Accounts)
  BY PlansAre, AttemptsAre
<1>3. job[r] \in Job
  BY DEF Typed
<1> HIDE DEF pc, plan
<1>4. job'[r] = [job[r] EXCEPT !.pc = pc, !.plan = plan]
  BY <1>1, Zenon DEF Shape, pc, plan
<1>5. job'[r] \in Job /\ job'[r].pc = pc
  BY <1>2, <1>3, <1>4 DEF Job, Ended
<1> QED
  BY <1>2, <1>5 DEF Sound, Suspended

LEMMA ChooseTypes ==
    ASSUME Shape, Typed, NEW r \in Requests, Choose(r)
    PROVE  Sound(job'[r])
<1>1. job[r] \in Job /\ job[r].pc = "choosing"
  BY DEF Choose, Typed
<1>2. CASE ClientGone(r) \/ Undecryptable(r) \/ Exhausted(r)
  BY <1>2, EndTypes DEF ClientGone, Undecryptable, Exhausted
<1>3. CASE OutOfBudget(r)
  <2>1. CASE Messages(r)
    BY <1>3, <2>1, NextCandidateTypes DEF OutOfBudget
  <2>2. CASE ~ Messages(r)
    <3>1. job'[r] = [job[r] EXCEPT !.plan = <<>>]
      BY <1>3, <2>2 DEF OutOfBudget, Shape
    <3>2. <<>> \in Seq(Accounts)
      OBVIOUS
    <3>3. job'[r] \in Job /\ job'[r].pc = "choosing"
      BY <1>1, <3>1, <3>2 DEF Job
    <3> QED
      BY <3>3 DEF Sound, Suspended
  <2> QED
    BY <2>1, <2>2
<1>4. CASE Skip(r)
  BY <1>4, NextCandidateTypes DEF Skip
<1>5. CASE Begin(r)
  BY <1>5, BeginTypes
<1>6. CASE ReservationRefused(r)
  <2> DEFINE next == NextJob(job[r])
  <2>1. next \in Job /\ next.pc = "choosing"
    BY <1>1, <1>6, NextJobIs DEF ReservationRefused, MayBegin, Pending
  <2>2. NextCandidate(r) = [job EXCEPT ![r] = next]
    BY DEF NextCandidate, NextJob
  <2> HIDE DEF next
  <2>3. job'[r] = CountTry(next, Phase(r))
    BY <1>6, <2>2 DEF ReservationRefused, Shape
  <2> QED
    BY <2>1, <2>3, CountTryTypes DEF Sound, Suspended
<1> QED
  BY <1>2, <1>3, <1>4, <1>5, <1>6 DEF Choose

\* ... fails over or is resumed, ...
LEMMA FailedCredentialsTypes ==
    ASSUME Shape, Typed, NEW r \in Requests, job[r].pc \in Suspended, FailedCredentials(r)
    PROVE  Sound(job'[r])
<1>1. Pending(r) /\ "answering" \in Pcs
  BY DEF Typed, Pcs
<1> QED
  BY <1>1, NextCandidateTypes, GotoTypes DEF FailedCredentials, FailOver, Answer

LEMMA ResumeTypes ==
    ASSUME Shape, Typed, NEW r \in Requests, Resume(r)
    PROVE  Sound(job'[r])
<1>1. job[r] \in Job /\ (job[r].pc \in Suspended => Pending(r))
  BY DEF Typed
<1>2. /\ {"credentials", "pacing", "fetching", "refreshing", "delivering"} \subseteq Suspended
      /\ Suspended \cup {"answering", "leaked", "lost"} \subseteq Pcs
  BY DEF Suspended, Pcs, Ended
<1>3. CASE \/ CredentialsReady(r) \/ Send(r) \/ Unchanged(r) \/ Bodiless(r) \/ Lost(r)
           \/ Rejected(r) \/ Refreshed(r)
  <2>1. PICK pc \in Pcs : job[r].pc \in Suspended /\ Goto(r, pc)
    BY <1>2, <1>3 DEF CredentialsReady, Send, Unchanged, Bodiless, Lost, Rejected, Refreshed,
                      Readmitted, NotReadmitted, Answer
  <2> QED
    BY <2>1, GotoTypes
<1>4. CASE \/ SpendingChanged(r) \/ CapacityChanged(r) \/ PacingRefused(r) \/ Preconnect(r)
           \/ TransportFailed(r) \/ RetryableFailure(r)
  <2>1. job[r].pc \in Suspended /\ job' = NextCandidate(r)
    BY <1>2, <1>4 DEF SpendingChanged, CapacityChanged, PacingRefused, Preconnect,
                      TransportFailed, RetryableFailure, FailOver
  <2> QED
    BY <1>1, <2>1, NextCandidateTypes
<1>5. CASE \/ PacingAborted(r) \/ Invalid(r) \/ Cancelled(r) \/ Collected(r) \/ Delivered(r)
           \/ BodyBroken(r) \/ StreamOutlivesAccount(r) \/ Answered(r)
  BY <1>5, EndTypes DEF PacingAborted, Invalid, Cancelled, Collected, Delivered, BodyBroken,
                        StreamOutlivesAccount, Answered
<1>6. CASE CredentialsFailed(r) \/ RetryFailed(r)
  BY <1>2, <1>6, FailedCredentialsTypes DEF CredentialsFailed, RetryFailed
<1>7. CASE HostOpen(r)
  <2> DEFINE next == NextJob(job[r])
  <2>1. next \in Job /\ next.pc = "choosing"
    BY <1>1, <1>2, <1>7, NextJobIs DEF HostOpen, Pending
  <2>2. NextCandidate(r) = [job EXCEPT ![r] = next]
    BY DEF NextCandidate, NextJob
  <2> HIDE DEF next
  <2>3. job'[r] = [next EXCEPT !.hostBlocked = TRUE]
    BY <1>7, <2>2 DEF HostOpen, Shape
  <2>4. job'[r] \in Job /\ job'[r].pc = "choosing"
    BY <2>1, <2>3 DEF Job
  <2> QED
    BY <2>4 DEF Sound, Suspended
<1>8. CASE Unauthorized(r)
  <2>1. job'[r] = [job[r] EXCEPT !.pc = "refreshing", !.auth = "retrying"]
    BY <1>8 DEF Unauthorized, Shape
  <2>2. job'[r] \in Job /\ job'[r].plan = job[r].plan
    BY <1>1, <2>1 DEF Job, Suspended
  <2>3. job[r].plan # <<>>
    BY <1>1, <1>2, <1>8 DEF Unauthorized, Pending
  <2> QED
    BY <2>2, <2>3 DEF Sound
<1>9. CASE Resend(r)
  <2> DEFINE auth == AfterAnswer(r)
             resends == job[r].resends + 1
  <2>1. job'[r] = [job[r] EXCEPT !.pc = "pacing", !.resends = resends, !.auth = auth]
    BY <1>9 DEF Resend, Shape
  <2>2. job[r].resends \in 0 .. MaxResends /\ job[r].resends < MaxResends
        /\ job[r].auth \in {"first", "retrying", "retried"}
    BY <1>1, <1>9, JobFieldsAre DEF Resend
  <2>3. resends \in 0 .. MaxResends /\ auth \in {"first", "retrying", "retried"}
    BY <2>2, ParametersAssumption DEF AfterAnswer
  <2> HIDE DEF resends, auth
  <2>4. job'[r] \in Job /\ job'[r].plan = job[r].plan
    BY <1>1, <2>1, <2>3 DEF Job, Suspended
  <2>5. job[r].plan # <<>>
    BY <1>1, <1>2, <1>9 DEF Resend, Pending
  <2> QED
    BY <2>4, <2>5 DEF Sound
<1>10. CASE Accepted(r)
  <2> DEFINE auth == AfterAnswer(r)
  <2>1. job'[r] = [job[r] EXCEPT !.pc = "delivering", !.auth = auth]
    BY <1>10 DEF Accepted, Shape
  <2>2. job[r].auth \in {"first", "retrying", "retried"}
    BY <1>1, JobFieldsAre
  <2>3. auth \in {"first", "retrying", "retried"}
    BY <2>2 DEF AfterAnswer
  <2> HIDE DEF auth
  <2>4. job'[r] \in Job /\ job'[r].plan = job[r].plan
    BY <1>1, <2>1, <2>3 DEF Job, Suspended
  <2>5. job[r].plan # <<>>
    BY <1>1, <1>2, <1>10 DEF Accepted, Pending
  <2> QED
    BY <2>4, <2>5 DEF Sound
<1> QED
  BY <1>3, <1>4, <1>5, <1>6, <1>7, <1>8, <1>9, <1>10 DEF Resume

\* ... or loses its client.
LEMMA CloseClientTypes ==
    ASSUME Shape, Typed, NEW r \in Requests, CloseClient(r)
    PROVE  Sound(job'[r])
<1>1. job[r] \in Job /\ (job[r].pc \in Suspended => job[r].plan # <<>>)
      /\ job'[r] = [job[r] EXCEPT !.closed = TRUE]
  BY DEF CloseClient, Typed, Pending, Shape
<1>2. job'[r] \in Job /\ job'[r].pc = job[r].pc /\ job'[r].plan = job[r].plan
  BY <1>1 DEF Job
<1> QED
  BY <1>1, <1>2 DEF Sound

\* The accounts, after each kind of move and after the operator's.
LEMMA AccountsTypedAfter ==
    ASSUME IInv, Typed,
           \/ \E r \in Requests : Move(r)
           \/ \E a \in Accounts : SetCap(a) \/ RemoveAccount(a)
    PROVE  \A a \in Accounts :
              /\ upstreams'[a].cap \in Caps /\ upstreams'[a].epoch \in 0 .. MaxCapChanges
              /\ ~ upstreams'[a].present => upstreams'[a].admissions = 0
<1> SUFFICES ASSUME NEW a \in Accounts
             PROVE  /\ upstreams'[a].cap \in Caps /\ upstreams'[a].epoch \in 0 .. MaxCapChanges
                    /\ ~ upstreams'[a].present => upstreams'[a].admissions = 0
  OBVIOUS
<1>1. Shape /\ upstreams[a] \in Account
  BY DEF IInv, Shape
<1>2. /\ upstreams[a].cap \in Caps /\ upstreams[a].epoch \in 0 .. MaxCapChanges
      /\ ~ upstreams[a].present => upstreams[a].admissions = 0
      /\ upstreams[a].admissions \in Int
  BY <1>1 DEF Typed, Account
<1>3. CASE UNCHANGED upstreams
  BY <1>2, <1>3
<1>4. ASSUME NEW r \in Requests, Takes(r)
      PROVE  /\ upstreams'[a].cap \in Caps /\ upstreams'[a].epoch \in 0 .. MaxCapChanges
             /\ ~ upstreams'[a].present => upstreams'[a].admissions = 0
  <2>1. upstreams[job'[r].at].present
    BY <1>4 DEF Takes
  <2> QED
    BY <1>1, <1>2, <1>4, <2>1, TakesIs
<1>5. ASSUME NEW r \in Requests, NEW cost \in Costs, Present(r), Settle(r, cost)
      PROVE  /\ upstreams'[a].cap \in Caps /\ upstreams'[a].epoch \in 0 .. MaxCapChanges
             /\ ~ upstreams'[a].present => upstreams'[a].admissions = 0
  <2>1. upstreams[At(r)].present
    BY <1>5 DEF Present
  <2> QED
    BY <1>1, <1>2, <1>5, <2>1, SettleIs
<1>6. ASSUME NEW b \in Accounts, SetCap(b)
      PROVE  /\ upstreams'[a].cap \in Caps /\ upstreams'[a].epoch \in 0 .. MaxCapChanges
             /\ ~ upstreams'[a].present => upstreams'[a].admissions = 0
  <2>1. PICK cap \in Caps :
           upstreams' = [upstreams EXCEPT ![b].cap = cap, ![b].spent = 0, ![b].epoch = @ + 1]
    BY <1>6 DEF SetCap
  <2>2. CASE a # b
    <3>1. upstreams'[a] = upstreams[a]
      BY <2>1, <2>2 DEF IInv, Shape
    <3> QED
      BY <1>2, <3>1
  <2>3. CASE a = b
    <3> DEFINE epoch == upstreams[a].epoch + 1
    <3>1. upstreams'[a] = [upstreams[a] EXCEPT !.cap = cap, !.spent = 0, !.epoch = epoch]
      BY <2>1, <2>3 DEF IInv, Shape
    <3>2. epoch \in 0 .. MaxCapChanges
      <4>1. upstreams[a].epoch \in 0 .. MaxCapChanges /\ upstreams[a].epoch < MaxCapChanges
        BY <1>2, <1>6, <2>3 DEF SetCap
      <4>2. MaxCapChanges \in Nat
        BY ParametersAssumption
      <4> QED
        BY <4>1, <4>2
    <3> HIDE DEF epoch
    <3>3. /\ upstreams'[a].cap = cap /\ upstreams'[a].epoch = epoch
          /\ upstreams'[a].present = upstreams[a].present
      BY <1>1, <3>1 DEF Account
    <3> QED
      BY <1>6, <2>3, <3>2, <3>3 DEF SetCap
  <2> QED
    BY <2>2, <2>3
<1>7. ASSUME NEW b \in Accounts, RemoveAccount(b)
      PROVE  /\ upstreams'[a].cap \in Caps /\ upstreams'[a].epoch \in 0 .. MaxCapChanges
             /\ ~ upstreams'[a].present => upstreams'[a].admissions = 0
  <2>1. CASE a # b
    <3>1. upstreams'[a] = upstreams[a]
      BY <1>7, <2>1 DEF IInv, Shape, RemoveAccount
    <3> QED
      BY <1>2, <3>1
  <2>2. CASE a = b
    <3>1. upstreams'[a] = [upstreams[a] EXCEPT !.present = FALSE, !.admissions = 0]
      BY <1>7, <2>2 DEF IInv, Shape, RemoveAccount
    <3>2. /\ upstreams'[a].cap = upstreams[a].cap /\ upstreams'[a].epoch = upstreams[a].epoch
          /\ upstreams'[a].admissions = 0
      BY <1>1, <3>1 DEF Account
    <3> QED
      BY <1>2, <3>2
  <2> QED
    BY <2>1, <2>2
<1> QED
  BY <1>3, <1>4, <1>5, <1>6, <1>7 DEF Move, AccountMove, Keeps, Frees, Loses

\* The invariant holds at first, after every step, and gives the types.
LEMMA TypedAtFirst == ASSUME Init PROVE Typed
<1>1. \A r \in Requests : job[r] = NoJob /\ NoJob.pc = "idle"
  BY DEF Init, NoJob
<1>2. \A a \in Accounts : upstreams[a].cap \in Caps /\ upstreams[a].epoch = 0
                          /\ upstreams[a].present
  BY DEF Init
<1>3. 0 \in 0 .. MaxCapChanges
  BY ParametersAssumption
<1> QED
  BY <1>1, <1>2, <1>3, NoJobIs DEF Typed, Suspended

LEMMA TypedAfter ==
    ASSUME IInv, Typed, [Next]_vars
    PROVE  Typed'
<1>1. CASE UNCHANGED vars
  BY <1>1 DEF vars, Typed, Pending
<1>2. CASE Next
  <2>1. \/ \E r \in Requests : Move(r)
        \/ \E a \in Accounts : SetCap(a) \/ RemoveAccount(a)
    BY <1>2, NextIs DEF IInv
  <2>2. ASSUME NEW q \in Requests PROVE Sound(job'[q])
    <3>1. job[q] \in Job /\ (job[q].pc \in Suspended => job[q].plan # <<>>) /\ Shape
      BY DEF Typed, Pending, IInv
    <3>2. CASE \E a \in Accounts : SetCap(a) \/ RemoveAccount(a)
      BY <3>1, <3>2 DEF SetCap, RemoveAccount, Sound
    <3>3. ASSUME NEW r \in Requests, Plan(r) \/ Choose(r) \/ Resume(r) \/ CloseClient(r)
          PROVE  Sound(job'[q])
      <4>1. CASE q = r
        BY <3>1, <3>3, <4>1, PlanTypes, ChooseTypes, ResumeTypes, CloseClientTypes
      <4>2. CASE q # r
        <5>1. Move(r)
          BY <3>1, <3>3, PlanMoves, ChooseMoves, ResumeMoves, CloseClientMoves
        <5> QED
          BY <3>1, <4>2, <5>1 DEF Move, Only, Sound
      <4> QED
        BY <4>1, <4>2
    <3> QED
      BY <1>2, <3>2, <3>3 DEF Next, Progress
  <2> QED
    BY <2>1, <2>2, AccountsTypedAfter DEF Typed, Sound, Pending
<1> QED
  BY <1>1, <1>2

LEMMA TypesFollow ==
    ASSUME IInv, Typed
    PROVE  TypeOK
<1>1. ASSUME NEW a \in Accounts PROVE upstreams[a] \in Upstream
  <2>1. upstreams[a] \in Account /\ upstreams[a].cap \in Caps
        /\ upstreams[a].epoch \in 0 .. MaxCapChanges
    BY DEF IInv, Shape, Typed
  <2>2. upstreams[a].admissions \in Nat
    BY HoldersAre DEF IInv, AdmissionsBalance, Typed
  <2> QED
    BY <2>1, <2>2 DEF Account, Upstream
<1>2. upstreams \in [Accounts -> Upstream]
  <2>1. upstreams = [a \in Accounts |-> upstreams[a]]
    BY DEF IInv, Shape
  <2> QED
    BY <1>1, <2>1
<1>3. job \in [Requests -> Job]
  <2>1. job = [r \in Requests |-> job[r]]
    BY DEF IInv, Shape
  <2> QED
    BY <2>1 DEF Typed
<1> QED
  BY <1>2, <1>3 DEF IInv, Shape, TypeOK

\* Every variable of the dispatch has its type: plans hold only accounts,
\* admissions are never negative, resends and cap epochs stay in their bounds.
THEOREM DispatchIsTyped == Spec => []TypeOK
<1>1. Init => IInv /\ Typed
  BY InvAtFirst, TypedAtFirst
<1>2. IInv /\ Typed /\ [Next]_vars => IInv' /\ Typed'
  <2>1. IInv /\ [Next]_vars => IInv'
    BY NextIs, MoveKeeps, OperatorKeeps, StutterKeeps DEF IInv
  <2> QED
    BY <2>1, TypedAfter
<1>3. IInv /\ Typed => TypeOK
  BY TypesFollow
<1> QED
  BY <1>1, <1>2, <1>3, PTL DEF Spec

=============================================================================
