-------------------------------- MODULE Ingress --------------------------------
(***************************************************************************)
(* A request enters: who is let in through the HTTP door (server.js,       *)
(* createApp; gateway-dispatch.js) and the WebSocket door (proxy.js,       *)
(* attachWebSocketProxy), and how the body of one that was let in is read, *)
(* bounded and decompressed within one deadline (http-ingress.js).         *)
(*                                                                         *)
(* Hosts, origins and addresses are judged by admission.js; here they are  *)
(* in order or not.  Sizes are in units, time in ticks.                    *)
(***************************************************************************)
EXTENDS Integers

CONSTANTS
    MaxCompressed, MaxDecompressed, MaxRatio, Deadline,
    MaxSize             \* bound of what a client sends and of what it inflates to

LimitsArePositive ==
    /\ {MaxCompressed, MaxDecompressed, MaxRatio, Deadline} \subseteq Nat \ {0}
    /\ MaxSize \in Nat

VARIABLES
    req,        \* the request line and headers
    entity,     \* the body that the client sends
    phase,      \* "arrived", "reading", "inflating", "handled" or "refused"
    outcome,    \* what the client is told when it is refused
    size,       \* bytes read, then bytes inflated
    clock,      \* ticks since the body was first read
    drained     \* the rest of the request is read and thrown away

vars == <<req, entity, phase, outcome, size, clock, drained>>

\* The surfaces that server.js tells apart; the kinds of gatewayRequestKind.
Kinds == {"usage", "models", "proxy", "websocket", "compatibility", "raw", "unsupported"}
Surfaces == Kinds \cup {"healthz", "readyz", "api", "page", "elsewhere"}
Readers == {"proxy", "compatibility", "raw"}

Requests ==
    [surface : Surfaces, upgrade : BOOLEAN, duplicateHost : BOOLEAN, hostAllowed : BOOLEAN,
     local : BOOLEAN, reads : BOOLEAN, originAllowed : BOOLEAN, firewallAllowed : BOOLEAN,
     key : {"bearer", "x-api-key", "wrong"}, anthropic : BOOLEAN]

Encodings == {"none", "gzip", "zstd", "other"}
NoLength == -1
Entities ==
    [encoding : Encodings, jsonType : BOOLEAN, length : {NoLength, MaxSize}, wire : 0 .. MaxSize,
     inflated : 0 .. MaxSize, window : {0, MaxSize}, valid : BOOLEAN]
NoEntity == [encoding |-> "none", jsonType |-> TRUE, length |-> NoLength, wire |-> 0,
             inflated |-> 0, window |-> 0, valid |-> TRUE]

TypeOK ==
    /\ req \in Requests /\ entity \in Entities
    /\ phase \in {"arrived", "reading", "inflating", "handled", "refused"}
    /\ outcome \in {0, 400, 401, 403, 404, 408, 413, 415}
    /\ size \in 0 .. MaxSize /\ clock \in 0 .. Deadline /\ drained \in BOOLEAN

-----------------------------------------------------------------------------
(* The doors *)

\* authenticateProxyRequest: an x-api-key counts on Anthropic's routes only.
Authenticated(r, allowsXApiKey) ==
    r.key = "bearer" \/ (r.key = "x-api-key" /\ allowsXApiKey)

\* proxyAcceptsXApiKey
AcceptsXApiKey(r) == r.anthropic /\ r.surface \in {"proxy", "models"}

\* What the HTTP door answers, 0 when a handler runs.
HttpRefusal(r) ==
    CASE r.duplicateHost -> 400
      [] ~r.duplicateHost /\ ~r.hostAllowed -> 403
      [] OTHER ->
          CASE r.surface = "api" ->
                 IF ~r.reads /\ ~r.originAllowed THEN 403
                 ELSE IF ~r.local /\ ~Authenticated(r, FALSE) THEN 401 ELSE 0
            [] r.surface \in Kinds ->
                 IF ~r.firewallAllowed THEN 403
                 ELSE IF ~Authenticated(r, AcceptsXApiKey(r)) THEN 401
                 ELSE IF r.surface = "unsupported" THEN 404
                 ELSE IF r.surface = "websocket" THEN 400 ELSE 0
            [] r.surface = "elsewhere" -> IF r.firewallAllowed THEN 404 ELSE 403
            [] OTHER -> 0

\* What the WebSocket door answers; a socket that is destroyed is a refusal
\* without a status, 403 here.
UpgradeRefusal(r) ==
    CASE r.duplicateHost -> 400
      [] ~r.duplicateHost /\ (~r.hostAllowed \/ r.surface # "websocket" \/ ~r.firewallAllowed) -> 403
      [] OTHER -> IF Authenticated(r, FALSE) THEN 0 ELSE 401

Refusal(r) == IF r.upgrade THEN UpgradeRefusal(r) ELSE HttpRefusal(r)

-----------------------------------------------------------------------------
Compressed == entity.encoding # "none"
MaxInput == IF Compressed THEN MaxCompressed ELSE MaxDecompressed

Init ==
    /\ req \in Requests
    /\ req.upgrade => req.surface = "websocket" /\ req.reads
    /\ entity \in (IF Refusal(req) = 0 /\ ~req.upgrade /\ req.surface \in Readers /\ ~req.local
                      /\ req.originAllowed /\ ~req.reads
                   THEN Entities ELSE {NoEntity})
    /\ phase = "arrived" /\ outcome = 0 /\ size = 0 /\ clock = 0 /\ drained = FALSE

Refused(status) == phase' = "refused" /\ outcome' = status
Rest == UNCHANGED <<req, entity>>

TurnedAway ==
    /\ phase = "arrived" /\ Refusal(req) # 0
    /\ Refused(Refusal(req))
    /\ UNCHANGED <<size, clock, drained>> /\ Rest

\* A handler that reads no body.
HandledAtOnce ==
    /\ phase = "arrived" /\ Refusal(req) = 0
    /\ req.upgrade \/ req.surface \notin Readers
    /\ phase' = "handled"
    /\ UNCHANGED <<outcome, size, clock, drained>> /\ Rest

\* readRequestBody, up to the first byte
Unacceptable ==
    IF entity.encoding = "other" \/ (Compressed /\ ~entity.jsonType) THEN 415
    ELSE IF entity.length > MaxInput THEN 413 ELSE 0

ReadBody ==
    /\ phase = "arrived" /\ Refusal(req) = 0 /\ ~req.upgrade /\ req.surface \in Readers
    /\ IF Unacceptable = 0
       THEN phase' = "reading" /\ UNCHANGED <<outcome, drained>>
       ELSE Refused(Unacceptable) /\ drained' = TRUE
    /\ UNCHANGED <<size, clock>> /\ Rest

\* readBounded: the client's bytes, their end, an error, and the timer.
Data ==
    /\ phase = "reading" /\ size < entity.wire
    /\ size' = size + 1
    /\ IF size' > MaxInput
       THEN Refused(413) /\ drained' = TRUE
       ELSE UNCHANGED <<phase, outcome, drained>>
    /\ UNCHANGED clock /\ Rest

Broken ==
    /\ phase = "reading"
    /\ Refused(400) /\ drained' = TRUE
    /\ UNCHANGED <<size, clock>> /\ Rest

\* The end of the bytes; what is left of the deadline is for inflating.
EndOfBody ==
    /\ phase = "reading" /\ size = entity.wire
    /\ \/ /\ ~Compressed
          /\ phase' = "handled" /\ UNCHANGED <<outcome, size>>
       \/ /\ Compressed /\ clock >= Deadline
          /\ Refused(408) /\ UNCHANGED size
       \/ /\ Compressed /\ clock < Deadline
          /\ IF entity.encoding = "zstd" /\ ~entity.valid THEN Refused(400) /\ UNCHANGED size
             ELSE IF entity.encoding = "zstd" /\ entity.window > MaxDecompressed
             THEN Refused(413) /\ UNCHANGED size
             ELSE phase' = "inflating" /\ size' = 0 /\ UNCHANGED outcome
    /\ UNCHANGED <<clock, drained>> /\ Rest

\* validateOutput
TooLarge(n) ==
    n > MaxDecompressed \/ n > (IF entity.wire > 1 THEN entity.wire ELSE 1) * MaxRatio

\* A chunk of the decoder. A zstd decoder looks at the clock when it has one.
Inflate ==
    /\ phase = "inflating" /\ size < entity.inflated
    /\ size' = size + 1
    /\ IF entity.encoding = "zstd" /\ clock >= Deadline THEN Refused(408)
       ELSE IF TooLarge(size') THEN Refused(413)
       ELSE UNCHANGED <<phase, outcome>>
    /\ UNCHANGED <<clock, drained>> /\ Rest

Inflated ==
    /\ phase = "inflating" /\ size = entity.inflated
    /\ IF entity.valid THEN phase' = "handled" /\ UNCHANGED outcome ELSE Refused(400)
    /\ UNCHANGED <<size, clock, drained>> /\ Rest

\* The timer of readBounded or of decompressZlib.
TimesOut ==
    /\ clock = Deadline
    /\ phase = "reading" \/ (phase = "inflating" /\ entity.encoding = "gzip")
    /\ Refused(408)
    /\ drained' = (phase = "reading")
    /\ UNCHANGED <<size, clock>> /\ Rest

Tick ==
    /\ phase \in {"reading", "inflating"} /\ clock < Deadline
    /\ clock' = clock + 1
    /\ UNCHANGED <<phase, outcome, size, drained>> /\ Rest

Next ==
    \/ TurnedAway \/ HandledAtOnce \/ ReadBody \/ Data \/ Broken \/ EndOfBody
    \/ Inflate \/ Inflated \/ TimesOut \/ Tick

Spec == Init /\ [][Next]_vars

-----------------------------------------------------------------------------
\* A handler gets a body only whole, and of a size and a ratio within the limits
\* (http-ingress.js, readRequestBody).
BodiesAreWithinLimits ==
    phase = "handled" /\ req.surface \in Readers =>
        LET output == IF Compressed THEN entity.inflated ELSE entity.wire
        IN /\ size = output /\ output <= MaxDecompressed
           /\ Compressed =>
                /\ entity.valid /\ entity.wire <= MaxCompressed
                /\ output <= MaxRatio * (IF entity.wire = 0 THEN 1 ELSE entity.wire)

\* A client that is refused while its body is on the way is read to its end, so
\* that it sees the answer (http-ingress.js, rejectRequest and fail).
RefusedIsDrained ==
    phase = "refused" /\ Refusal(req) = 0 /\ outcome \in {408, 413, 415} =>
        drained \/ (Compressed /\ entity.wire <= MaxCompressed)

\* Both doors let the same clients in: an upgrade is refused exactly when a
\* request of the same client for the same surface is refused, or else told that
\* an upgrade is required (proxy.js:3223, server.js:55).
DoorsAgree ==
    LET r == [req EXCEPT !.surface = "websocket"]
    IN UpgradeRefusal(r) = (IF HttpRefusal(r) = 400 /\ ~r.duplicateHost THEN 0 ELSE HttpRefusal(r))

(* The inductive invariant: a body under way is acceptable and within the  *)
(* limits so far.                                                          *)
IngressInv ==
    /\ TypeOK
    /\ req.upgrade => req.surface = "websocket"
    /\ phase = "arrived" => size = 0
    /\ phase = "reading" => Unacceptable = 0 /\ size <= MaxInput /\ size <= entity.wire
    /\ phase = "inflating" =>
         /\ Compressed /\ entity.wire <= MaxCompressed
         /\ size <= entity.inflated /\ ~ TooLarge(size)
    /\ BodiesAreWithinLimits /\ RefusedIsDrained
=============================================================================
