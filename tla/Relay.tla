------------------------------- MODULE Relay -------------------------------
(***************************************************************************)
(* One client of the public Responses WebSocket (relayWebSocket, proxy.js):*)
(* turns queued behind the active one, the upstream socket a turn reuses or*)
(* replaces, the waits for credentials, pacer and handshake, and what every*)
(* turn takes and gives back: an admission of the account, a reservation of*)
(* the share, the row of the ledger.                                       *)
(*                                                                         *)
(* The locals of relayWebSocket are the variables. Handlers run without    *)
(* interruption; what waits for a promise is a member of "waits". Only the *)
(* events of the current target socket change anything, so older sockets   *)
(* are not kept. Planner, pacer, host health and upstream answer           *)
(* nondeterministically. Not kept: byte counts other than the queue's,     *)
(* usage, session pins, keepalive.                                         *)
(***************************************************************************)
EXTENDS Naturals, SequencesExt, FiniteSets

CONSTANTS
    Accounts,
    NoAccount,
    Shared,           \* the client holds a share credential, not an API key
    MaxTurns,         \* bound on the messages of the client
    MaxQueued,        \* websocketPendingBytes, in turns
    MaxResends,       \* COMPATIBILITY_RETRY_LIMIT
    MaxConns          \* bound on the upstream sockets

RelayAssumption ==
    /\ NoAccount \notin Accounts
    /\ Shared \in BOOLEAN
    /\ {MaxTurns, MaxQueued, MaxResends, MaxConns} \subseteq Nat

VARIABLES
    client,           \* readyState of the client's socket
    asked,            \* messages the client has sent
    turn,             \* the active turn, or what the last one left
    queue,            \* queuedTurns
    due,              \* turns shifted from the queue, until setImmediate runs
    target,           \* targetSocket, targetUpstreamId, idleTimer
    late,             \* admissions renewed with no turn active: only the properties read it
    pending,          \* frames kept until the target opens
    chain,            \* sendChain
    serving,          \* frames the target was sent and has not answered
    waits,            \* continuations waiting for a promise
    admission,        \* publicAdmission
    leases,           \* admissions begun and not settled, by account
    rows,             \* the ledger's rows
    reserved          \* share reservations, by turn and attempt

locals == <<client, asked, turn, queue, due, target, late, pending, chain, serving, waits>>
books == <<admission, leases, rows, reserved>>
vars == <<locals, books>>

-----------------------------------------------------------------------------
(* State *)

Turns == 1 .. MaxTurns
MaybeAccount == Accounts \cup {NoAccount}

\* "closed" stands for publicState.terminal.
Turn == [active : BOOLEAN, id : 0 .. MaxTurns, compaction : BOOLEAN, at : MaybeAccount,
         rest : Seq(Accounts), attempt : Nat, output : BOOLEAN, closed : BOOLEAN,
         retried : BOOLEAN, resends : 0 .. MaxResends]

NoTurn == [active |-> FALSE, id |-> 0, compaction |-> FALSE, at |-> NoAccount, rest |-> <<>>,
           attempt |-> 0, output |-> FALSE, closed |-> FALSE, retried |-> FALSE, resends |-> 0]

\* "rejected": the handshake was answered, the socket is still CONNECTING.
SocketStates == {"none", "connecting", "rejected", "open", "closing"}
\* "conn" counts the sockets so far, "idle": idleTimer is armed.
Socket == [conn : 0 .. MaxConns, at : MaybeAccount, state : SocketStates, idle : BOOLEAN]
NoSocket == [conn |-> 0, at |-> NoAccount, state |-> "none", idle |-> FALSE]

Wait == [kind : {"credentials", "pacing", "reauthenticating", "preparing", "compacting"},
         at : Accounts, conn : 0 .. MaxConns, again : BOOLEAN]

Open == client = "open"
Usable == target.state \in {"connecting", "rejected", "open"}
Closing(socket) == IF socket.state = "none" THEN socket ELSE [socket EXCEPT !.state = "closing"]

\* The target is forgotten, not its timer.
Retired == [target EXCEPT !.at = NoAccount, !.state = "none"]
Idle(socket, armed) == [socket EXCEPT !.idle = armed]

Plans == UNION {SetToSeqs(S) : S \in SUBSET Accounts \ {{}}}

-----------------------------------------------------------------------------
(* What a turn takes and gives back *)

Held(a) == IF admission = a THEN leases[a] - 1 ELSE leases[a]
AllSettled == [a \in Accounts |-> Held(a)]

\* acquirePublicCandidate, activatePublicCandidate: publicAdmission is
\* overwritten, whatever it holds.
Acquire(a) == admission' = a /\ leases' = [leases EXCEPT ![a] = @ + 1]

\* renewPublicAdmission, retryPublicTurn: settled first, then taken.
Take(a) == admission' = a /\ leases' = [AllSettled EXCEPT ![a] = @ + 1]

\* settlePublicAdmission
Settle == admission' = NoAccount /\ leases' = AllSettled

Keep == UNCHANGED <<admission, leases>>

Reservation == <<turn.id, turn.attempt>>

\* settlePublicFailure or settleUsage: the reservation ends, the row closes.
CloseBooks ==
    /\ reserved' = reserved \ {Reservation}
    /\ rows' = IF turn.id \in Turns /\ rows[turn.id] = "open"
               THEN [rows EXCEPT ![turn.id] = "closed"] ELSE rows

Ended == [turn EXCEPT !.active = FALSE, !.attempt = 0]

StartNext ==
    IF queue # <<>> /\ Open
    THEN queue' = Tail(queue) /\ due' = Append(due, Head(queue))
    ELSE UNCHANGED <<queue, due>>

\* The frame of a turn that failed is not kept.
EndTurn ==
    /\ Settle
    /\ CloseBooks
    /\ turn' = Ended
    /\ StartNext

\* failActiveTurn
FailTurn ==
    IF turn.active
    THEN EndTurn /\ pending' = <<>>
    ELSE UNCHANGED <<admission, leases, rows, reserved, turn, queue, due, pending>>

\* handleFramePacingFailure: unlike failActiveTurn it leaves "pending" alone.
PacingRefused ==
    /\ IF turn.active
       THEN EndTurn /\ UNCHANGED client
       ELSE /\ client' = "closing"
            /\ UNCHANGED <<admission, leases, rows, reserved, turn, queue, due>>
    /\ UNCHANGED pending

-----------------------------------------------------------------------------
(* A message of the client *)

Waiting(kind, a, conn, again) == [kind |-> kind, at |-> a, conn |-> conn, again |-> again]

\* connect, up to its wait for the pacer.
Connecting(ws, a, again) ==
    IF Open /\ turn.active /\ turn.at = a THEN ws \cup {Waiting("pacing", a, 0, again)} ELSE ws

Enqueue(n) ==
    /\ turn.active
    /\ IF Len(queue) < MaxQueued
       THEN queue' = Append(queue, n) /\ UNCHANGED client
       ELSE client' = "closing" /\ UNCHANGED queue
    /\ UNCHANGED <<turn, target, late, pending, chain, serving, waits, books>>

\* The API key is no longer authorized, or the frame is too large.
Denied ==
    /\ client' = "closing"
    /\ UNCHANGED <<turn, queue, target, late, pending, chain, serving, waits, books>>

\* Answered with a failure, and the queue is not looked at: the share denies
\* the client; no account admits the message, and what publicAdmission holds is
\* settled; or it fails with an admission acquired, which is settled in place of
\* the one it overwrote.
Refuse ==
    /\ \/ Keep
       \/ ~ turn.active /\ Settle
       \/ ~ turn.active /\ admission' = NoAccount /\ UNCHANGED leases
    /\ UNCHANGED <<client, turn, queue, target, late, pending, chain, serving, waits, rows,
                   reserved>>

\* No response.create at all: nobody asks whether a turn is active, whose
\* admission and reservation are given back while it goes on.
Malformed ==
    /\ Settle
    /\ reserved' = reserved \ {Reservation}
    /\ UNCHANGED <<client, turn, queue, target, late, pending, chain, serving, waits, rows>>

Begun(n, plan, i, compaction) ==
    [NoTurn EXCEPT !.active = TRUE, !.id = n, !.compaction = compaction, !.at = plan[i],
                   !.rest = SubSeq(plan, i + 1, Len(plan)), !.attempt = 1]

TakeForTurn(n, a) ==
    /\ Acquire(a)
    /\ rows' = IF Shared THEN rows ELSE [rows EXCEPT ![n] = "open"]
    /\ reserved' = IF Shared THEN reserved \cup {<<n, 1>>} ELSE reserved

StartCompaction(n, plan, i) ==
    /\ turn' = Begun(n, plan, i, TRUE)
    /\ TakeForTurn(n, plan[i])
    /\ LET unopened == target.state \in {"none", "connecting", "rejected"} IN
       /\ target' = Idle(IF unopened THEN Retired ELSE target, FALSE)
       /\ serving' = IF unopened THEN <<>> ELSE serving
    /\ waits' = waits \cup {Waiting("preparing", plan[i], 0, FALSE)}
    /\ UNCHANGED <<client, queue, late, pending, chain>>

\* The open socket is of the account, and of the same prompt cache session.
StartOnSocket(n, plan, i) ==
    /\ Usable /\ target.at = plan[i]
    /\ turn' = Begun(n, plan, i, FALSE)
    /\ TakeForTurn(n, plan[i])
    /\ IF target.state = "open"
       THEN chain' = Append(chain, [frame |-> n, conn |-> target.conn]) /\ UNCHANGED pending
       ELSE pending' = Append(pending, n) /\ UNCHANGED chain
    /\ UNCHANGED <<client, queue, target, late, serving, waits>>

StartWithSocket(n, plan, i) ==
    /\ turn' = Begun(n, plan, i, FALSE)
    /\ TakeForTurn(n, plan[i])
    /\ target' = Retired /\ serving' = <<>>
    /\ waits' = waits \cup {Waiting("credentials", plan[i], 0, FALSE)}
    /\ pending' = Append(pending, n)
    /\ UNCHANGED <<client, queue, late, chain>>

\* store.credentials throws: the client is told that the turn failed, but it
\* stays active, with its row open and the old socket closing.
Undecryptable(n, plan, i) ==
    /\ turn' = Begun(n, plan, i, FALSE)
    /\ admission' = NoAccount /\ UNCHANGED leases
    /\ rows' = IF Shared THEN rows ELSE [rows EXCEPT ![n] = "open"]
    /\ target' = IF Usable THEN Closing(target) ELSE target
    /\ UNCHANGED <<client, queue, late, pending, chain, serving, waits, reserved>>

Arrive(n) ==
    \/ Denied
    \/ Enqueue(n)
    \/ Refuse
    \/ /\ ~ turn.active
       /\ \E plan \in Plans : \E i \in DOMAIN plan :
              \/ StartCompaction(n, plan, i)
              \/ StartOnSocket(n, plan, i)
              \/ StartWithSocket(n, plan, i)
              \/ Undecryptable(n, plan, i)

Message ==
    /\ Open /\ asked < MaxTurns
    /\ asked' = asked + 1
    /\ Arrive(asked + 1) \/ Malformed
    /\ UNCHANGED due

\* setImmediate of startNextPublicTurn
NextTurn ==
    /\ due # <<>>
    /\ due' = Tail(due)
    /\ IF Open
       THEN Arrive(Head(due))
       ELSE UNCHANGED <<client, turn, queue, target, late, pending, chain, serving, waits, books>>
    /\ UNCHANGED asked

-----------------------------------------------------------------------------
(* Credentials, pacer, new socket *)

Done(w) == waits' = waits \ {w}

\* After a refresh the admission is taken anew; nobody asks whether the turn
\* is still active, or the client still there.
Renew(a) == Take(a) /\ late' = IF turn.active THEN late ELSE [late EXCEPT ![a] = @ + 1]

\* The account does not admit it: settled all the same.
RenewalRefused ==
    IF turn.active THEN FailTurn
                   ELSE Settle /\ UNCHANGED <<rows, reserved, turn, queue, due, pending>>

ReplaceFrame == pending' = IF turn.active THEN <<turn.id>> ELSE pending

CredentialsReady(w) ==
    /\ w.kind = "credentials"
    /\ waits' = Connecting(waits \ {w}, turn.at, FALSE)
    /\ \/ Keep /\ UNCHANGED <<late, pending>>
       \/ Renew(turn.at) /\ ReplaceFrame
    /\ UNCHANGED <<client, asked, turn, queue, due, target, chain, serving, rows, reserved>>

CredentialsFailed(w) ==
    /\ w.kind = "credentials"
    /\ Done(w)
    /\ FailTurn \/ RenewalRefused
    /\ UNCHANGED <<client, asked, target, late, chain, serving>>

PacerRefused(w) ==
    /\ w.kind = "pacing"
    /\ Done(w)
    /\ PacingRefused
    /\ UNCHANGED <<asked, target, late, chain, serving>>

PacerAborted(w) ==
    /\ w.kind = "pacing" /\ client = "closed"
    /\ Done(w)
    /\ UNCHANGED <<client, asked, turn, queue, due, target, late, pending, chain, serving, books>>

Connect(w) ==
    /\ w.kind = "pacing" /\ client # "closed"
    /\ Done(w)
    /\ IF Open /\ turn.active /\ turn.at = w.at
       THEN \/ /\ target.conn < MaxConns
               /\ target' = [target EXCEPT !.conn = @ + 1, !.at = w.at, !.state = "connecting"]
               /\ serving' = <<>>
               /\ UNCHANGED <<turn, queue, due, pending, books>>
            \/ FailTurn /\ UNCHANGED <<target, serving>>  \* host open, or it threw
       ELSE UNCHANGED <<turn, queue, due, target, pending, serving, books>>
    /\ UNCHANGED <<client, asked, late, chain>>

-----------------------------------------------------------------------------
(* A turn that has shown nothing is tried once more, at the next account *)

MayRetry == turn.active /\ ~ turn.output /\ ~ turn.retried /\ turn.rest # <<>>

RetryTurn(idle) ==
    /\ MayRetry
    /\ \E i \in DOMAIN turn.rest :
          /\ Take(turn.rest[i])
          /\ turn' = [turn EXCEPT !.at = turn.rest[i], !.retried = TRUE,
                                  !.rest = SubSeq(@, i + 1, Len(@)), !.attempt = @ + 1]
          /\ waits' = waits \cup {Waiting("credentials", turn.rest[i], 0, FALSE)}
    /\ reserved' = IF Shared THEN (reserved \ {Reservation}) \cup {<<turn.id, turn.attempt + 1>>}
                             ELSE reserved
    /\ pending' = <<turn.id>>
    /\ target' = Idle(Retired, idle) /\ serving' = <<>>
    /\ UNCHANGED <<client, asked, queue, due, late, chain, rows>>

-----------------------------------------------------------------------------
(* Events of the target socket *)

SocketOpened ==
    /\ target.state = "connecting"
    /\ IF Open
       THEN /\ target' = [target EXCEPT !.state = "open", !.idle = ~ turn.compaction]
            /\ chain' = chain \o [i \in DOMAIN pending |->
                                      [frame |-> pending[i], conn |-> target.conn]]
            /\ pending' = <<>>
       ELSE target' = Closing(target) /\ UNCHANGED <<chain, pending>>
    /\ UNCHANGED <<client, asked, turn, queue, due, late, serving, waits, books>>

\* Answered with a misalignment policy: the turn fails, the socket stays.
PolicyRejected ==
    /\ target.state = "connecting" /\ Open /\ turn.active
    /\ FailTurn
    /\ target' = [target EXCEPT !.state = "rejected"]
    /\ UNCHANGED <<client, asked, late, chain, serving, waits>>

\* 401 or 403: refreshingConnection keeps the other handlers away.
Unauthorized ==
    /\ target.state = "connecting" /\ Open
    /\ target' = [target EXCEPT !.state = "rejected"]
    /\ waits' = waits \cup {Waiting("reauthenticating", target.at, target.conn, TRUE)}
    /\ UNCHANGED <<client, asked, turn, queue, due, late, pending, chain, serving, books>>

Reauthenticating == \E w \in waits : w.kind = "reauthenticating" /\ w.conn = target.conn

Reauthenticated(w) ==
    /\ w.kind = "reauthenticating"
    /\ waits' = Connecting(waits \ {w}, w.at, TRUE)
    /\ IF w.conn = target.conn THEN target' = Retired /\ serving' = <<>>
                               ELSE UNCHANGED <<target, serving>>
    /\ \/ Keep /\ UNCHANGED <<late, pending>>
       \/ Renew(w.at) /\ ReplaceFrame
    /\ UNCHANGED <<client, asked, turn, queue, due, chain, rows, reserved>>

CloseBoth == client' = (IF Open THEN "closing" ELSE client) /\ target' = Closing(target)

ReauthenticationFailed(w) ==
    /\ w.kind = "reauthenticating"
    /\ Done(w)
    /\ IF turn.active /\ Open
       THEN FailTurn
       ELSE /\ Keep \/ Settle                 \* settled when the renewal was refused
            /\ UNCHANGED <<turn, queue, due, pending, rows, reserved>>
    /\ IF turn.active \/ ~ Open THEN UNCHANGED <<client, target>> ELSE CloseBoth
    /\ UNCHANGED <<asked, late, chain, serving>>

\* Any other answer to the handshake, an error before the connection, or the
\* close of the socket: the turn is retried, or it fails.
SocketLost ==
    /\ target.state # "none" /\ Open /\ ~ Reauthenticating
    /\ ~ turn.compaction \/ ~ turn.active
    /\ \/ RetryTurn(target.idle)
       \/ /\ \E idle \in {FALSE, target.idle /\ target.state = "connecting"} :
                 target' = Idle(Retired, idle)
          /\ serving' = <<>>
          /\ FailTurn
          /\ UNCHANGED <<client, asked, late, chain, waits>>

\* A compaction does not use the socket.
SocketLostInCompaction ==
    /\ target.state # "none" /\ Open /\ turn.compaction /\ turn.active
    /\ target' = Idle(Retired, FALSE) /\ serving' = <<>>
    /\ UNCHANGED <<client, asked, turn, queue, due, late, pending, chain, waits, books>>

HandshakeFailedIdle ==
    /\ target.state = "connecting" /\ Open /\ ~ turn.active
    /\ CloseBoth
    /\ UNCHANGED <<asked, turn, queue, due, late, pending, chain, serving, waits, books>>

\* The timer outlives the socket it was armed for: it ends whatever turn is
\* active, one that waits for credentials or a new socket included.
IdleTimeout ==
    /\ target.idle
    /\ FailTurn
    /\ target' = Idle(IF Usable THEN Closing(target) ELSE target, FALSE)
    /\ UNCHANGED <<client, asked, late, chain, serving, waits>>

-----------------------------------------------------------------------------
(* Frames to the upstream, one after the other *)

\* mutant: sent to whatever socket is the target by now
SendAnyway ==
    /\ chain # <<>> /\ target.state = "open"
    /\ chain' = Tail(chain)
    /\ serving' = Append(serving, Head(chain).frame)
    /\ UNCHANGED <<client, asked, turn, queue, due, target, late, pending, waits, books>>

Current(f) == f.conn = target.conn /\ target.state = "open" /\ Open

Send ==
    /\ chain # <<>> /\ Current(Head(chain))
    /\ chain' = Tail(chain)
    /\ serving' = Append(serving, Head(chain).frame)
    /\ UNCHANGED <<client, asked, turn, queue, due, target, late, pending, waits, books>>

DropFrame ==
    /\ chain # <<>> /\ ~ Current(Head(chain))
    /\ chain' = Tail(chain)
    /\ UNCHANGED <<client, asked, turn, queue, due, target, late, pending, serving, waits, books>>

\* The socket was current when the wait for the pacer began.
FramePacingRefused ==
    /\ chain # <<>> /\ client # "closed"
    /\ chain' = Tail(chain)
    /\ PacingRefused
    /\ UNCHANGED <<asked, target, late, serving, waits>>

CapacityExhausted ==
    /\ chain # <<>> /\ Current(Head(chain))
    /\ chain' = Tail(chain)
    /\ FailTurn
    /\ UNCHANGED <<client, asked, target, late, serving, waits>>

Backpressure ==
    /\ chain # <<>> /\ Current(Head(chain))
    /\ chain' = Tail(chain)
    /\ CloseBoth
    /\ UNCHANGED <<asked, turn, queue, due, late, pending, serving, waits, books>>

-----------------------------------------------------------------------------
(* Frames of the upstream *)

Receiving ==
    /\ serving # <<>> /\ target.state \in {"open", "closing"} /\ Open
    /\ ~ turn.compaction

Heard == target' = Idle(target, TRUE)

\* Any frame arms the timer, one that says nothing too.
Unheeded ==
    /\ target.state \in {"open", "closing"} /\ Open /\ ~ turn.compaction
    /\ Heard
    /\ UNCHANGED <<client, asked, turn, queue, due, late, pending, chain, serving, waits, books>>

\* A compatibility error: the same turn is sent again without the field.
Resend ==
    /\ Receiving /\ turn.active /\ ~ turn.output /\ turn.resends < MaxResends
    /\ serving' = Tail(serving)
    /\ turn' = [turn EXCEPT !.resends = @ + 1, !.attempt = IF Shared THEN @ ELSE @ + 1]
    /\ IF target.state = "open"
       THEN /\ chain' = Append(chain, [frame |-> turn.id, conn |-> target.conn])
            /\ UNCHANGED pending
       ELSE pending' = <<turn.id>> /\ UNCHANGED chain
    /\ Heard
    /\ UNCHANGED <<client, asked, queue, due, late, waits, books>>

RetryableFailure == Receiving /\ RetryTurn(TRUE)

Output ==
    /\ Receiving /\ ~ turn.closed
    /\ turn' = [turn EXCEPT !.output = TRUE]
    /\ Heard
    /\ UNCHANGED <<client, asked, queue, due, late, pending, chain, serving, waits, books>>

\* response.completed, .incomplete, .failed or error, of success or not; a
\* connection limit retires the socket as well.
Terminal ==
    /\ Receiving
    /\ IF turn.closed
       THEN UNCHANGED <<turn, queue, due, books>>
       ELSE /\ Settle
            /\ CloseBooks
            /\ turn' = [Ended EXCEPT !.closed = TRUE, !.output = TRUE]
            /\ StartNext
    /\ \/ serving' = Tail(serving) /\ target' = Idle(target, turn.closed)
       \/ serving' = <<>> /\ target' = Idle(Retired, turn.closed)
    /\ UNCHANGED <<client, asked, late, pending, chain, waits>>

-----------------------------------------------------------------------------
(* Compaction: one HTTP request in place of a turn *)

CompactionPrepared(w) ==
    /\ w.kind = "preparing"
    /\ (Keep /\ UNCHANGED late) \/ Renew(w.at)
    /\ waits' = (waits \ {w}) \cup (IF turn.active /\ Open
                                    THEN {Waiting("compacting", w.at, 0, FALSE)} ELSE {})
    /\ UNCHANGED <<client, asked, turn, queue, due, target, pending, chain, serving, rows,
                   reserved>>

\* 401 or 403: refreshed, here or by another process, and sent again, once.
CompactionReauthenticated(w) ==
    /\ w.kind = "compacting" /\ ~ w.again
    /\ (Keep /\ UNCHANGED late) \/ Renew(w.at)
    /\ waits' = (waits \ {w}) \cup {[w EXCEPT !.again = TRUE]}
    /\ UNCHANGED <<client, asked, turn, queue, due, target, pending, chain, serving, rows,
                   reserved>>

Compacted(w) ==
    /\ w.kind = "compacting"
    /\ Done(w)
    /\ EndTurn
    /\ UNCHANGED <<client, asked, target, late, pending, chain, serving>>

\* An answer of failure settles the admission as a refused renewal does.
CompactionFailed(w) ==
    /\ w.kind \in {"preparing", "compacting"}
    /\ Done(w)
    /\ FailTurn \/ RenewalRefused
    /\ UNCHANGED <<client, asked, target, late, chain, serving>>

\* Refused by the pacer: everything ends but the row.
CompactionPacingRefused(w) ==
    /\ w.kind = "compacting"
    /\ Done(w)
    /\ Settle
    /\ reserved' = reserved \ {Reservation}
    /\ turn' = Ended
    /\ StartNext
    /\ UNCHANGED <<client, asked, target, late, pending, chain, serving, rows>>

-----------------------------------------------------------------------------
(* The client goes *)

\* mutant: the active turn keeps its reservation
CloseQuietly ==
    /\ client # "closed"
    /\ client' = "closed"
    /\ IF turn.active THEN Settle ELSE Keep
    /\ turn' = Ended
    /\ pending' = <<>> /\ queue' = <<>>
    /\ target' = Idle(Retired, FALSE) /\ serving' = <<>>
    /\ UNCHANGED <<asked, due, late, chain, waits, rows, reserved>>

CloseClient ==
    /\ client # "closed"
    /\ client' = "closed"
    /\ IF turn.active THEN Settle /\ CloseBooks ELSE UNCHANGED books
    /\ turn' = Ended
    /\ pending' = <<>> /\ queue' = <<>>
    /\ target' = Idle(Retired, FALSE) /\ serving' = <<>>
    /\ UNCHANGED <<asked, due, late, chain, waits>>

-----------------------------------------------------------------------------
(* Specification *)

Init ==
    /\ client = "open" /\ asked = 0
    /\ turn = NoTurn
    /\ queue = <<>> /\ due = <<>>
    /\ target = NoSocket
    /\ pending = <<>> /\ chain = <<>> /\ serving = <<>>
    /\ waits = {}
    /\ admission = NoAccount
    /\ leases = [a \in Accounts |-> 0] /\ late = [a \in Accounts |-> 0]
    /\ rows = [n \in Turns |-> "absent"]
    /\ reserved = {}

Resume(w) ==
    \/ CredentialsReady(w) \/ CredentialsFailed(w)
    \/ PacerRefused(w) \/ PacerAborted(w) \/ Connect(w)
    \/ Reauthenticated(w) \/ ReauthenticationFailed(w)
    \/ CompactionPrepared(w) \/ CompactionReauthenticated(w) \/ Compacted(w)
    \/ CompactionFailed(w) \/ CompactionPacingRefused(w)

Next ==
    \/ Message \/ NextTurn
    \/ \E w \in waits : Resume(w)
    \/ SocketOpened \/ PolicyRejected \/ Unauthorized \/ SocketLost
    \/ SocketLostInCompaction \/ HandshakeFailedIdle \/ IdleTimeout
    \/ Send \/ DropFrame \/ FramePacingRefused \/ CapacityExhausted \/ Backpressure
    \/ Unheeded \/ Resend \/ RetryableFailure \/ Output \/ Terminal
    \/ CloseClient

Spec == Init /\ [][Next]_vars

-----------------------------------------------------------------------------
(* Properties *)

TypeOK ==
    /\ client \in {"open", "closing", "closed"}
    /\ asked \in 0 .. MaxTurns
    /\ turn \in Turn
    /\ {queue, due, pending, serving} \subseteq Seq(Turns)
    /\ target \in Socket
    /\ chain \in Seq([frame : Turns, conn : 1 .. MaxConns])
    /\ waits \subseteq Wait
    /\ admission \in MaybeAccount
    /\ {leases, late} \subseteq [Accounts -> Nat]
    /\ rows \in [Turns -> {"absent", "open", "closed"}]
    /\ reserved \subseteq (Turns \X Nat)

\* An account's admissions are the active turn's, one, and those a refresh
\* renewed when its turn had already ended: no retry, renewal, resend, queued
\* turn or overwritten publicAdmission loses another one
\* (settlePublicAdmission, renewPublicAdmission, activatePublicCandidate).
AdmissionsAccounted ==
    \A a \in Accounts :
        /\ leases[a] <= late[a] + (IF turn.active /\ admission = a THEN 1 ELSE 0)
        /\ admission = a => leases[a] >= 1

AdmissionsInv ==
    leases \in [Accounts -> Nat] /\ late \in [Accounts -> Nat] /\ AdmissionsAccounted

\* A share pays for the active turn's latest attempt and for nothing else,
\* whichever way the turn, its retry, its compaction or its client ends
\* (reserveShareRequest and releaseShareRequest in relayWebSocket).
ShareFollowsTurn ==
    reserved \subseteq (IF turn.active THEN {Reservation} ELSE {})

\* Inductive, with the fields of a turn, and without a share nothing reserved.
RelayInv ==
    /\ DOMAIN turn = DOMAIN NoTurn
    /\ AdmissionsInv /\ ShareFollowsTurn
    /\ ~ Shared => reserved = {}

\* A turn refused by the pacer is answered locally: only the active turn is
\* sent to an upstream (handleFramePacingFailure, replacePendingPublicFrame).
OnlyTheActiveTurnIsSent ==
    [][Len(serving') > Len(serving) => turn.active /\ Last(serving') = turn.id]_vars

=============================================================================
