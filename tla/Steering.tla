------------------------------- MODULE Steering -------------------------------
(***************************************************************************)
(* The native lane of a WebSocket connection (proxy.js, relayWebSocket,    *)
(* and native-response-steering.js): one socket to a codex account, turns  *)
(* that the client begins and successors that the provider begins because  *)
(* it accepted a steering control, and the admissions of the connection,   *)
(* of raw frames and of turns.                                             *)
(*                                                                         *)
(* Deliveries and receipts are NativeTurns.tla; frames are paced and sent  *)
(* in their order, so a frame is dispatched when it is sent.               *)
(***************************************************************************)
EXTENDS Integers, FiniteSets, Functions

CONSTANTS
    ResponseIds,
    None,
    MaxPendingSteers,           \* 128
    MaxTurns, MaxSockets, MaxSteers, MaxReplacements      \* bounds

SteeringAssumption == None \notin ResponseIds /\ MaxTurns \in Nat

VARIABLES
    client,         \* "open" or "closed"
    socket,         \* the socket to the account
    connection,     \* nativeConnectionAdmission
    raw,            \* nativeAdmission
    lane,           \* the fields of NativeResponseSteering
    turns,          \* what every turn of the lane has opened and closed
    epoch,          \* nativeRecoveryEpoch of the account in the store
    steers          \* history: the steering controls sent, by the response they name

vars == <<client, socket, connection, raw, lane, turns, epoch, steers>>

Turn == [response : ResponseIds \cup {None}, admission : {"open", "settled"},
         share : {"reserved", "settled", "released"}, success : BOOLEAN, epoch : Nat,
         after : 0..MaxTurns]

\* current and predecessor are positions in turns, 0 is null; accepted says that
\* a successor is expected.
Lane == [current : 0..MaxTurns, predecessor : 0..MaxTurns, accepted : BOOLEAN, closed : BOOLEAN,
         pending : [ResponseIds -> 0..MaxPendingSteers]]

SocketStates == {"none", "connecting", "refreshing", "open", "lost"}

Turns == DOMAIN turns
Nobody == 0
NoPending == [r \in ResponseIds |-> 0]

TypeOK ==
    /\ client \in {"open", "closed"}
    /\ socket \in [state : SocketStates, nth : 0..MaxSockets, epoch : Nat, retried : BOOLEAN]
    /\ connection \in BOOLEAN /\ raw \in BOOLEAN
    /\ lane \in Lane
    /\ Turns = 1..Cardinality(Turns) /\ \A t \in Turns : turns[t] \in Turn
    /\ epoch \in 0..MaxReplacements /\ steers \in [ResponseIds -> 0..MaxSteers]

Init ==
    /\ client = "open"
    /\ socket = [state |-> "none", nth |-> 0, epoch |-> 0, retried |-> FALSE]
    /\ connection = FALSE /\ raw = FALSE
    /\ lane = [current |-> Nobody, predecessor |-> Nobody, accepted |-> FALSE, closed |-> FALSE,
               pending |-> NoPending]
    /\ turns = <<>> /\ epoch = 0 /\ steers = NoPending

-----------------------------------------------------------------------------
(* The lane's books *)

Closings(t) == {"settled", "released"}

\* mutant: the reservation of a turn that failed stays
FailedKeepsShare(ts, t) == {[ts EXCEPT ![t].admission = "settled"]}

\* fail: what was measured is settled as a failure, or the reservation released.
Failed(ts, t) ==
    {[ts EXCEPT ![t].admission = "settled",
                ![t].share = IF @ = "reserved" THEN how ELSE @] : how \in Closings(t)}

\* close
LaneClosed ==
    /\ lane' = [current |-> Nobody, predecessor |-> Nobody, accepted |-> FALSE, closed |-> TRUE,
                pending |-> NoPending]
    /\ turns' \in (IF lane.current = Nobody THEN {turns} ELSE Failed(turns, lane.current))

\* closeBoth, and the client's close handler that follows it: whatever is held
\* is given back.
CloseAll ==
    /\ client' = "closed"
    /\ socket' = [socket EXCEPT !.state = "none"]
    /\ connection' = FALSE /\ raw' = FALSE
    /\ LaneClosed

Kept == UNCHANGED <<epoch, steers>>

\* open: a turn of the lane on the account and the credentials of its socket.
\* Whatever is refused on the way gives back what it took.
MayOpen(e) == e = epoch

Opened(after) ==
    [t \in Turns \cup {Cardinality(Turns) + 1} |->
        IF t \in Turns THEN turns[t]
        ELSE [response |-> None, admission |-> "open", share |-> "reserved", success |-> FALSE,
              epoch |-> socket.epoch, after |-> after]]

RoomForATurn == Cardinality(Turns) < MaxTurns

-----------------------------------------------------------------------------
(* The connection *)

\* connect, up to the socket; the account of a new socket is read again.
Connect ==
    /\ client = "open" /\ socket.state = "none" /\ socket.nth < MaxSockets
    /\ connection' = (connection \/ ~raw)
    /\ socket' = [state |-> "connecting", nth |-> socket.nth + 1, epoch |-> epoch, retried |-> FALSE]
    /\ UNCHANGED <<client, raw, lane, turns>> /\ Kept

\* No admission, no pacing slot, no host.
ConnectRefused ==
    /\ client = "open" /\ socket.state = "none"
    /\ CloseAll
    /\ Kept

SocketOpened ==
    /\ client = "open" /\ socket.state = "connecting"
    /\ socket' = [socket EXCEPT !.state = "open"]
    /\ connection' = FALSE
    /\ UNCHANGED <<client, raw, lane, turns>> /\ Kept

\* 401 in the handshake: refreshed once, with admissions renewed and the same
\* credentials epoch as the connection has it.
Unauthorized ==
    /\ client = "open" /\ socket.state = "connecting" /\ ~socket.retried
    /\ socket' = [socket EXCEPT !.state = "refreshing"]
    /\ UNCHANGED <<client, connection, raw, lane, turns>> /\ Kept

\* renewNativeAdmissions and connect(true); a client that has left holds nothing
\* to renew.
Reauthenticated ==
    /\ client = "open" /\ socket.state = "refreshing" /\ socket.nth < MaxSockets
    /\ connection' = ~raw
    /\ socket' = [socket EXCEPT !.state = "connecting", !.nth = @ + 1, !.retried = TRUE]
    /\ UNCHANGED <<client, raw, lane, turns>> /\ Kept

HandshakeFailed ==
    /\ client = "open" /\ socket.state \in {"connecting", "refreshing"}
    /\ CloseAll
    /\ Kept

\* The socket closes: what it received before is processed first.
SocketLost ==
    /\ client = "open" /\ socket.state \in {"connecting", "open"}
    /\ socket' = [socket EXCEPT !.state = "lost"]
    /\ connection' = FALSE /\ raw' = FALSE
    /\ UNCHANGED <<client, lane, turns>> /\ Kept

Drained ==
    /\ client = "open" /\ socket.state = "lost"
    /\ CloseAll
    /\ Kept

\* An error of the socket does not wait for them.
SocketError ==
    /\ client = "open" /\ socket.state \in {"connecting", "open"}
    /\ CloseAll
    /\ Kept

ClientCloses ==
    /\ client = "open"
    /\ CloseAll
    /\ Kept

\* A portable history may go to another account while nothing of the lane is
\* under way: the socket is retired and another one connected.
Relocate ==
    /\ client = "open" /\ socket.state = "open" /\ socket.nth < MaxSockets
    /\ lane.current = Nobody /\ ~lane.accepted /\ lane.pending = NoPending
    /\ raw' = FALSE /\ connection' = TRUE
    /\ socket' = [state |-> "connecting", nth |-> socket.nth + 1, epoch |-> epoch, retried |-> FALSE]
    /\ UNCHANGED <<client, lane, turns>> /\ Kept

-----------------------------------------------------------------------------
(* Frames of the client *)

\* Frames that are no turn have an admission of their own, one at a time.
RawFrame ==
    /\ client = "open" /\ lane.current = Nobody /\ ~raw
    /\ connection' = FALSE /\ raw' = TRUE
    /\ UNCHANGED <<client, socket, lane, turns>> /\ Kept

\* dispatch of response.create
Create ==
    /\ client = "open" /\ socket.state = "open" /\ ~lane.closed
    /\ lane.current = Nobody /\ ~lane.accepted /\ RoomForATurn
    /\ LET fresh == [lane EXCEPT !.accepted = FALSE, !.pending = NoPending]
       IN \/ /\ MayOpen(socket.epoch)
             /\ turns' = Opened(0)
             /\ lane' = [fresh EXCEPT !.current = Cardinality(Turns) + 1, !.predecessor = Nobody]
          \/ /\ UNCHANGED turns         \* refused: the client is told
             /\ lane' = fresh
    /\ UNCHANGED <<client, socket, connection, raw>> /\ Kept

\* dispatch of response.steer: counted, not admitted.
Total(count) == FoldFunction(+, 0, count)

Steer(r) ==
    /\ client = "open" /\ socket.state = "open" /\ ~lane.closed
    /\ lane.current # Nobody \/ lane.predecessor # Nobody
    /\ Total(lane.pending) < MaxPendingSteers /\ Total(steers) < MaxSteers
    /\ lane' = [lane EXCEPT !.pending[r] = @ + 1]
    /\ steers' = [steers EXCEPT ![r] = @ + 1]
    /\ UNCHANGED <<client, socket, connection, raw, turns, epoch>>

-----------------------------------------------------------------------------
(* Events of the provider, in the order of receiveChain *)

Listening == client = "open" /\ socket.state \in {"open", "lost"} /\ ~lane.closed
Producer == IF lane.current # Nobody THEN lane.current ELSE lane.predecessor

\* mutant: any acknowledgement allows a successor
AcceptedUnasked(r) == TRUE

Accepted(r) == lane.pending[r] > 0 /\ Producer # Nobody /\ turns[Producer].response = r

\* The answer to a steering control, which counts when it was asked for and
\* names the response that is produced or was produced last.
SteerAnswered(r, accepts) ==
    /\ Listening
    /\ lane' = [lane EXCEPT !.pending[r] = IF @ > 0 THEN @ - 1 ELSE 0,
                            !.accepted = @ \/ (accepts /\ Accepted(r))]
    /\ UNCHANGED <<client, socket, connection, raw, turns>> /\ Kept

\* response.created of the turn the client began.
Created(r) ==
    /\ Listening /\ lane.current # Nobody
    /\ turns[lane.current].response \in {None, r}
    /\ turns' = [turns EXCEPT ![lane.current].response = r]
    /\ UNCHANGED <<client, socket, connection, raw, lane>> /\ Kept

\* response.created of a successor: admitted as a turn, or the connection ends.
Expected(r) ==
    /\ lane.accepted /\ lane.predecessor # Nobody
    /\ turns[lane.predecessor].success /\ turns[lane.predecessor].response # r

Succeeded(r) ==
    /\ Listening /\ lane.current = Nobody /\ RoomForATurn
    /\ Expected(r) /\ MayOpen(turns[lane.predecessor].epoch)
    /\ turns' = [Opened(lane.predecessor) EXCEPT ![Cardinality(Turns) + 1].response = r]
    /\ lane' = [lane EXCEPT !.current = Cardinality(Turns) + 1, !.accepted = FALSE]
    /\ UNCHANGED <<client, socket, connection, raw>> /\ Kept

\* Anything else that names a response: an error of the lane closes both sides.
Unexpected(r) ==
    /\ Listening
    /\ \/ lane.current # Nobody /\ turns[lane.current].response \notin {None, r}
       \/ lane.current = Nobody       \* unadmitted, or its admission is refused
    /\ CloseAll
    /\ Kept

\* A terminal event settles the turn.
Terminal ==
    /\ Listening /\ lane.current # Nobody
    /\ raw' = FALSE
    /\ \/ /\ turns' = [turns EXCEPT ![lane.current].admission = "settled",
                                    ![lane.current].share = "settled",
                                    ![lane.current].success = TRUE]
          /\ lane' = [lane EXCEPT !.current = Nobody, !.predecessor = lane.current]
       \/ /\ turns' \in Failed(turns, lane.current)
          /\ lane' = [lane EXCEPT !.current = Nobody, !.predecessor = lane.current,
                                  !.accepted = FALSE]
    /\ UNCHANGED <<client, socket, connection>> /\ Kept

\* A terminal event that answers a raw frame.
RawAnswered ==
    /\ Listening /\ lane.current = Nobody /\ raw
    /\ raw' = FALSE
    /\ UNCHANGED <<client, socket, connection, lane, turns>> /\ Kept

Replace ==
    /\ epoch < MaxReplacements
    /\ epoch' = epoch + 1
    /\ UNCHANGED <<client, socket, connection, raw, lane, turns, steers>>

Next ==
    \/ Connect \/ ConnectRefused \/ SocketOpened \/ Unauthorized \/ Reauthenticated
    \/ HandshakeFailed \/ SocketLost \/ Drained \/ SocketError \/ ClientCloses \/ Relocate
    \/ RawFrame \/ Create \/ Terminal \/ RawAnswered \/ Replace
    \/ \E r \in ResponseIds :
        \/ Steer(r) \/ Created(r) \/ Succeeded(r) \/ Unexpected(r)
        \/ \E accepts \in BOOLEAN : SteerAnswered(r, accepts)

Spec == Init /\ [][Next]_vars

-----------------------------------------------------------------------------
\* The lane pays for one turn at a time: every other turn has settled its
\* admission and closed its reservation, and a connection that ended holds no
\* admission of any kind (native-response-steering.js, close and event;
\* proxy.js, settleNativeAdmission, settleNativeConnectionAdmission).
LaneGivesBack ==
    /\ \A t \in Turns : t # lane.current =>
            turns[t].admission = "settled" /\ turns[t].share # "reserved"
    /\ ~(connection /\ raw)
    /\ client = "closed" => ~connection /\ ~raw /\ lane.current = Nobody

\* A response that the client did not ask for is produced only after one that
\* succeeded on the same credentials, and never twice for one predecessor.
SuccessorsAreSteered ==
    \A t \in Turns : turns[t].after # 0 =>
        /\ turns[turns[t].after].success
        /\ turns[turns[t].after].response # turns[t].response
        /\ turns[turns[t].after].epoch = turns[t].epoch
        /\ \A u \in Turns \ {t} : turns[u].after # turns[t].after

\* The turns that the provider began after the response.
Successors(r) == {t \in Turns : turns[t].after # 0 /\ turns[turns[t].after].response = r}

\* At most one successor for every steering control that named the response
\* before it.
SuccessorsAreAsked == \A r \in ResponseIds : Cardinality(Successors(r)) <= steers[r]

-----------------------------------------------------------------------------
(* The inductive invariant of the three.                                   *)

Last == Cardinality(Turns)

Sockets == [state : SocketStates, nth : Nat, epoch : Nat, retried : BOOLEAN]
LaneStates == [current : 0..MaxTurns, predecessor : 0..MaxTurns, accepted : BOOLEAN,
               closed : BOOLEAN, pending : [ResponseIds -> Nat]]

LaneTyped ==
    /\ connection \in BOOLEAN /\ raw \in BOOLEAN
    /\ socket \in Sockets /\ lane \in LaneStates
    /\ Last \in Nat /\ Turns = 1..Last /\ \A t \in Turns : turns[t] \in Turn
    /\ epoch \in Nat /\ steers \in [ResponseIds -> Nat]

\* The current turn is the last, and so is the predecessor of the next one.
LastIsCurrent ==
    /\ lane.current \in {Nobody, Last}
    /\ lane.current = Nobody => lane.predecessor \in {Nobody, Last}
    /\ lane.accepted => Producer # Nobody /\ turns[Producer].response # None

\* Successors come later and are named; no turn is of later credentials than
\* the socket, whose credentials are of no later epoch than the account's.
TurnsFollow ==
    /\ \A t \in Turns : /\ turns[t].after < t
                        /\ turns[t].after # 0 => turns[t].response # None
                        /\ turns[t].epoch <= socket.epoch
    /\ socket.epoch <= epoch

\* Every control asks once: it is unanswered, or allows a successor, or has had it.
Allowed(r) == IF lane.accepted /\ turns[Producer].response = r THEN 1 ELSE 0

ControlsAreSpent ==
    \A r \in ResponseIds :
        Cardinality(Successors(r)) + lane.pending[r] + Allowed(r) <= steers[r]

LaneInv ==
    /\ LaneTyped /\ LastIsCurrent /\ TurnsFollow /\ LaneGivesBack /\ SuccessorsAreSteered
    /\ ControlsAreSpent

=============================================================================
