----------------------------- MODULE ClientAccess -----------------------------
(***************************************************************************)
(* Who may use the gateway: scopes and client keys as an operator changes  *)
(* them (store.js), the requests and WebSockets that are let in with them  *)
(* or with a share (proxy.js), the native frames that are sent back to     *)
(* HTTP because they are too large, and the import that replaces all of it *)
(* (data-portability.js).                                                  *)
(*                                                                         *)
(* A save may fail, and the process may stop between any two steps.  The   *)
(* product's store of shares is not in this repository: it may pause a     *)
(* share, and lose the account behind it, at any time.                     *)
(***************************************************************************)
EXTENDS Integers, FiniteSets

CONSTANTS
    Raws, Hash,         \* keys as they are presented; keys that differ in blanks have one hash
    Expected,           \* values of CODEX_POOLER_API_KEY: keys, and None for an open gateway
    Scopes, Default,
    Clients, Window,    \* clients, and which of them name a window
    Vias,               \* what they use: "http", "public" or "native" sockets
    Shares,             \* kinds of shares they may hold, "share" and "personal"
    Sizes,              \* of their frames
    Ttl, MaxTime,
    MaxWrites,          \* bound on what the operator does, and on the ids of keys
    None

VARIABLES
    live,       \* the database in memory; None if what was imported cannot be loaded
    disk,       \* the database that a restart finds
    backup,     \* an export
    expected, client, share, now,
    owed,       \* history: what an operator or a client was told is done
    last,       \* history: what the latest step told
    writes      \* what the operator did so far; a key's id is never used again

vars == <<live, disk, backup, expected, client, share, now, owed, last, writes>>

Statuses == {"active", "disabled"}
Ids == 0 .. MaxWrites + 1       \* 0 is not a key's id
Hashes == {Hash[r] : r \in Raws}
Keys == [id : Ids \ {0}, hash : Hashes, scope : Scopes, status : Statuses]

\* `limited` scopes have a list of models without the one that is asked for;
\* a marker is the time until which native sockets are sent to HTTP.
Databases ==
    [scopes : [Scopes -> Statuses \cup {"none"}], limited : SUBSET Scopes,
     keys : SUBSET Keys, marker : [Ids -> 0 .. MaxTime + Ttl]]

Nobody == [kind |-> "none", id |-> 0, scope |-> Default]
Holders == [kind : {"none", "open", "key", "share", "personal"}, id : Ids, scope : Scopes]
Phases == {"out", "awaiting", "open", "stopping", "leaving"}
Offline == [phase |-> "out", via |-> "http", who |-> Nobody]
NothingOwed == [scopes |-> {}, keys |-> {}, marker |-> {}]
Told(what) == [what |-> what, via |-> "none", who |-> Nobody]

TypeOK ==
    /\ live \in Databases \cup {None}
    /\ disk \in [db : Databases, readable : BOOLEAN, product : {"own", "file"}]
    /\ backup \in Databases \cup {None}
    /\ expected \in Expected
    /\ client \in [Clients -> [phase : Phases, via : Vias \cup {"http"}, who : Holders]]
    /\ share \in [session : {"active", "paused", "exhausted"}, provider : {"ok", "reauth"}]
    /\ now \in 0 .. MaxTime
    /\ owed.scopes \subseteq Scopes \X Statuses /\ owed.keys \subseteq Ids \X Statuses
    /\ owed.marker \subseteq Ids \X (0 .. MaxTime + Ttl)
    /\ last.what \in {"start", "ok", "failed", "refused", "turn", "denied", "fallback", "unavailable"}
    /\ last.who \in Holders
    /\ writes \in 0 .. MaxWrites

ClockIsWide == Ttl \in Nat \ {0} /\ MaxTime \in Nat /\ MaxWrites \in Nat /\ Default \in Scopes

-----------------------------------------------------------------------------
(* Keys and scopes *)

Exists(db, s) == db.scopes[s] # "none"

\* activeApiKey
Active(db, key) == key.status = "active" /\ db.scopes[key.scope] = "active"

ModelAllowed(db, s) == Exists(db, s) /\ s \notin db.limited

\* configureApiKey, which each authentication repeats: an import may have
\* taken the configured key away.
Configured(db, id) ==
    IF expected = None \/ (\E key \in db.keys : key.hash = Hash[expected]) THEN db
    ELSE [db EXCEPT !.keys = @ \cup {[id |-> id, hash |-> Hash[expected],
                                      scope |-> Default, status |-> "active"]}]

\* authenticateProxyRequest for a client with this credential.
Holder(db, credential) ==
    IF expected = None THEN [kind |-> "open", id |-> 0, scope |-> Default]
    ELSE IF credential \in Shares THEN [kind |-> credential, id |-> 0, scope |-> Default]
    ELSE LET held == {key \in db.keys : key.hash = Hash[credential] /\ Active(db, key)}
         IN IF held = {} THEN Nobody
            ELSE LET key == CHOOSE k \in held : TRUE
                 IN [kind |-> "key", id |-> key.id, scope |-> key.scope]

Authorized(db, who) ==
    who.kind = "key" => \E key \in db.keys : key.id = who.id /\ Active(db, key)

\* shareSessionDenial; a personal key passes while its provider must sign in.
Denied(kind) ==
    CASE kind = "share" -> share.session # "active" \/ share.provider # "ok"
      [] kind = "personal" -> share.session # "active" /\ share.provider # "reauth"
      [] OTHER -> FALSE

\* refreshShareSessionAuthorization: a personal key needs a session that is
\* active now.
DeniedNow(kind) ==
    kind \in {"share", "personal"} /\ (share.session # "active" \/ share.provider # "ok")

Normalized(db) ==
    [db EXCEPT !.scopes[Default] = IF @ = "none" THEN "active" ELSE @,
               !.marker = [i \in Ids |-> IF @[i] > now THEN @[i] ELSE 0]]

Empty ==
    [scopes |-> [s \in Scopes |-> IF s = Default THEN "active" ELSE "none"], limited |-> {},
     keys |-> {}, marker |-> [i \in Ids |-> 0]]

Init ==
    /\ expected \in Expected
    /\ writes = 0
    /\ live = Configured(Empty, 1)
    /\ disk = [db |-> live, readable |-> TRUE, product |-> "own"]
    /\ backup = None
    /\ client = [c \in Clients |-> Offline]
    /\ share \in [session : {"active"}, provider : {"ok"}]
    /\ now = 0 /\ owed = NothingOwed /\ last = Told("start")

Up == live # None
More == writes < MaxWrites /\ writes' = writes + 1

-----------------------------------------------------------------------------
(* The operator.  A refused or failed save leaves memory changed. *)

Refuse == last' = Told("refused") /\ UNCHANGED <<live, disk, owed>>

\* save; `kept` is what stays certain if it fails.
Save(db, kept, promised) ==
    /\ live' = db
    /\ \/ disk' = [disk EXCEPT !.db = db] /\ owed' = promised /\ last' = Told("ok")
       \/ db # disk.db /\ disk' = disk /\ owed' = kept /\ last' = Told("failed")

Others == <<backup, expected, client, share, now>>
Without(facts, x) == {f \in facts : f[1] # x}

CreateScope(s, status, limited) ==
    /\ Up /\ More
    /\ IF Exists(live, s) THEN Refuse
       ELSE Save([live EXCEPT !.scopes[s] = status,
                              !.limited = IF limited THEN @ \cup {s} ELSE @ \ {s}],
                 owed, [owed EXCEPT !.scopes = @ \cup {<<s, status>>}])
    /\ UNCHANGED Others

\* The status is changed before the models are looked at: bad models refuse
\* the update, and leave the status changed in memory.
UpdateScope(s, status, models) ==
    /\ Up /\ More
    /\ LET renamed == IF status = "same" THEN live ELSE [live EXCEPT !.scopes[s] = status]
           changed == CASE models = "all" -> [renamed EXCEPT !.limited = @ \ {s}]
                        [] models = "some" -> [renamed EXCEPT !.limited = @ \cup {s}]
                        [] OTHER -> renamed
           kept == [owed EXCEPT !.scopes = Without(@, s)]
       IN IF ~Exists(live, s) THEN Refuse
          ELSE IF models = "bad"
            THEN /\ live' = renamed /\ disk' = disk /\ last' = Told("refused")
                 /\ owed' = IF renamed = live THEN owed ELSE kept
            ELSE Save(changed, kept, [kept EXCEPT !.scopes = @ \cup {<<s, changed.scopes[s]>>}])
    /\ UNCHANGED Others

CreateKey(raw, s, status) ==
    /\ Up /\ More
    /\ IF ~Exists(live, s) \/ (\E key \in live.keys : key.hash = Hash[raw]) THEN Refuse
       ELSE LET key == [id |-> writes + 2, hash |-> Hash[raw], scope |-> s, status |-> status]
            IN Save([live EXCEPT !.keys = @ \cup {key}], owed,
                    [owed EXCEPT !.keys = @ \cup {<<key.id, status>>}])
    /\ UNCHANGED Others

UpdateKey(key, status) ==
    /\ Up /\ More /\ key \in live.keys
    /\ LET kept == [owed EXCEPT !.keys = Without(@, key.id)]
       IN Save([live EXCEPT !.keys = (@ \ {key}) \cup {[key EXCEPT !.status = status]}],
               kept, [kept EXCEPT !.keys = @ \cup {<<key.id, status>>}])
    /\ UNCHANGED Others

Export ==
    /\ More /\ disk.readable
    /\ backup' = disk.db /\ last' = Told("ok")
    /\ UNCHANGED <<live, disk, expected, client, share, now, owed>>

\* The gateway's records are replaced in one transaction and loaded; then the
\* product's tables are, in another.  Records that are not JSON change nothing;
\* records that cannot be normalised stay on the disk.
Import ==
    /\ More /\ backup # None
    /\ \/ last' = Told("failed") /\ UNCHANGED <<live, disk, owed>>
       \/ /\ live' = None /\ last' = Told("failed") /\ owed' = NothingOwed
          /\ disk' = [disk EXCEPT !.db = backup, !.readable = FALSE]
       \/ /\ live' = Normalized(backup) /\ owed' = NothingOwed
          /\ \/ /\ disk' = [db |-> live', readable |-> TRUE, product |-> "file"]
                /\ last' = Told("ok")
             \/ /\ disk' = [disk EXCEPT !.db = live', !.readable = TRUE]
                /\ last' = Told("failed")
    /\ UNCHANGED Others

\* The process stops and starts again; with records that cannot be loaded it
\* does not start.
Restart ==
    /\ disk.readable
    /\ LET db == Configured(Normalized(disk.db), writes + 2)
       IN /\ db.keys # disk.db.keys => writes < MaxWrites
          /\ writes' = IF db.keys = disk.db.keys THEN writes ELSE writes + 1
          /\ live' = db /\ disk' = [disk EXCEPT !.db = db]
    /\ client' = [c \in Clients |-> Offline]
    /\ last' = Told("start")
    /\ UNCHANGED <<backup, expected, share, now, owed>>

-----------------------------------------------------------------------------
(* Clients *)

Rest == <<backup, expected, share, now>>
About(what, c) == [what |-> what, via |-> client[c].via, who |-> client[c].who]
Is(c, phase) == client' = [client EXCEPT ![c].phase = phase]
Gone(c) == client' = [client EXCEPT ![c] = Offline]

\* The marker that sends a native handshake to HTTP; it is read from memory.
Marked(who) == live.marker[who.id] > now

\* A request, or the handshake of a socket: authenticateProxyRequest, the
\* share's denial, and the marker.  A public socket is open at once; a request's
\* body and a native socket's models are awaited.
Admit(c, via, db, credential) ==
    LET who == Holder(db, credential)
        to(phase) == client' = [client EXCEPT ![c] = [phase |-> phase, via |-> via, who |-> who]]
        told(what) == last' = [what |-> what, via |-> via, who |-> who]
    IN \/ (who.kind = "none" \/ Denied(who.kind)) /\ told("denied") /\ UNCHANGED client
       \/ /\ who.kind # "none" /\ ~Denied(who.kind)
          /\ IF via = "native" /\ Window[c] /\ Marked(who) THEN told("fallback") /\ UNCHANGED client
             ELSE to(IF via = "public" THEN "open" ELSE "awaiting") /\ told("ok")

Arrive(c, via, credential) ==
    /\ Up /\ client[c].phase = "out"
    /\ via = "http" => credential \notin Shares
    /\ LET db == Configured(live, writes + 2)
       IN /\ db # live => writes < MaxWrites
          /\ writes' = IF db = live THEN writes ELSE writes + 1
          /\ live' = db
          /\ \/ disk' = (IF db = live THEN disk ELSE [disk EXCEPT !.db = db]) /\ Admit(c, via, db, credential)
             \/ db # live /\ disk' = disk /\ last' = Told("unavailable") /\ UNCHANGED client
    /\ UNCHANGED <<Rest, owed>>

\* The request is read: the scope may be limited by now, or the key gone.
Handle(c) ==
    /\ Up /\ client[c].phase = "awaiting" /\ client[c].via = "http"
    /\ LET who == client[c].who
           booked == who.kind = "key" =>
                        Exists(live, who.scope) /\ \E key \in live.keys : key.id = who.id /\ key.scope = who.scope
       IN last' = About(CASE ~ModelAllowed(live, who.scope) -> "refused"
                          [] ModelAllowed(live, who.scope) /\ ~booked -> "failed"
                          [] OTHER -> "turn", c)
    /\ Gone(c) /\ UNCHANGED <<live, disk, Rest, owed, writes>>

\* The models are known, and the socket is upgraded; without an account for a
\* native socket it is closed again.
Upgrade(c) ==
    /\ Up /\ client[c].phase = "awaiting" /\ client[c].via # "http"
    /\ Is(c, "open") \/ Gone(c)
    /\ last' = About("ok", c)
    /\ UNCHANGED <<live, disk, Rest, owed, writes>>

\* saveChanges of the markers alone.
SaveMarkers(db) == disk' = [disk EXCEPT !.db.marker = db.marker]

\* refuseOversizedNativeFrame until it waits; without a window the frame alone
\* is refused.
Oversized(c) ==
    LET id == client[c].who.id
        kept == [i \in Ids |-> IF live.marker[i] > now THEN live.marker[i] ELSE 0]
        marked == [live EXCEPT !.marker = [kept EXCEPT ![id] = now + Ttl]]
    IN IF ~Window[c] THEN last' = About("refused", c) /\ UNCHANGED <<live, disk, owed, client>>
       ELSE \/ live' = marked /\ SaveMarkers(marked) /\ Is(c, "stopping") /\ UNCHANGED <<owed, last>>
            \/ /\ live' = [live EXCEPT !.marker = [kept EXCEPT ![id] = 0]]
               /\ owed' = [owed EXCEPT !.marker = Without(@, id)]
               /\ last' = About("unavailable", c) /\ UNCHANGED <<disk, client>>

\* A frame of an open socket: the key and the share are looked at again, the
\* scope's models are not.
Frame(c, size) ==
    /\ Up /\ client[c].phase = "open"
    /\ LET who == client[c].who
           public == client[c].via = "public"
           close(what) == Gone(c) /\ last' = About(what, c) /\ UNCHANGED <<live, disk, owed>>
       IN CASE public /\ size = "large" -> close("refused")
            [] ~(public /\ size = "large") /\ ~Authorized(live, who) -> close("denied")
            [] ~(public /\ size = "large") /\ Authorized(live, who) /\ DeniedNow(who.kind) ->
                 IF public THEN last' = About("denied", c) /\ UNCHANGED <<client, live, disk, owed>>
                 ELSE close("denied")
            [] ~public /\ size = "large" /\ Authorized(live, who) /\ ~DeniedNow(who.kind) -> Oversized(c)
            [] OTHER -> last' = About("turn", c) /\ UNCHANGED <<client, live, disk, owed>>
    /\ UNCHANGED <<Rest, writes>>

\* The wait for the marker to be durable ends.  If it is not, the marker is
\* discarded, whoever else it was written for; the save of that may fail, too.
Flushed(c) ==
    /\ Up /\ client[c].phase \in {"stopping", "leaving"}
    /\ LET id == client[c].who.id
           heard == client[c].phase = "stopping"
           without == [live EXCEPT !.marker[id] = 0]
       IN \/ /\ Gone(c) /\ last' = About("refused", c) /\ UNCHANGED <<live, disk>>
             /\ owed' = IF heard /\ live.marker[id] > now
                        THEN [owed EXCEPT !.marker = @ \cup {<<id, live.marker[id]>>}] ELSE owed
          \/ /\ live' = without
             /\ (without # live /\ SaveMarkers(without)) \/ disk' = disk
             /\ IF heard THEN Is(c, "open") ELSE Gone(c)
             /\ owed' = [owed EXCEPT !.marker = Without(@, id)]
             /\ last' = About("unavailable", c)
    /\ UNCHANGED <<Rest, writes>>

Leave(c) ==
    /\ client[c].phase \in {"awaiting", "open", "stopping"}
    /\ IF client[c].phase = "stopping" THEN Is(c, "leaving") ELSE Gone(c)
    /\ last' = About("ok", c)
    /\ UNCHANGED <<live, disk, Rest, owed, writes>>

\* The product pauses the share, its budget is spent, its account is lost.
ShareChanges ==
    /\ Shares # {}
    /\ share' \in [session : {"active", "paused", "exhausted"}, provider : {"ok", "reauth"}]
    /\ last' = Told("ok")
    /\ UNCHANGED <<live, disk, backup, expected, client, now, owed, writes>>

Tick ==
    /\ now < MaxTime /\ now' = now + 1 /\ last' = Told("ok")
    /\ UNCHANGED <<live, disk, backup, expected, client, share, owed, writes>>

Next ==
    \/ \E s \in Scopes, status \in Statuses, limited \in BOOLEAN : CreateScope(s, status, limited)
    \/ \E s \in Scopes, status \in Statuses \cup {"same"}, models \in {"same", "all", "some", "bad"} :
          UpdateScope(s, status, models)
    \/ \E raw \in Raws, s \in Scopes, status \in Statuses : CreateKey(raw, s, status)
    \/ Up /\ \E key \in live.keys, status \in Statuses : UpdateKey(key, status)
    \/ Export \/ Import \/ Restart \/ ShareChanges \/ Tick
    \/ \E c \in Clients, via \in Vias, credential \in Raws \cup Shares : Arrive(c, via, credential)
    \/ \E c \in Clients : Handle(c) \/ Upgrade(c) \/ Flushed(c) \/ Leave(c)
    \/ \E c \in Clients, size \in Sizes : Frame(c, size)

Spec == Init /\ [][Next]_vars

-----------------------------------------------------------------------------
(* Properties *)

\* A socket's turn has a key and a scope that are active when it is sent, and a
\* share that can pay for it, however long ago the socket was let in; a
\* request's has a key that exists, in a scope that allows the model.
TurnsAreAuthorized ==
    last.what = "turn" =>
        IF last.via = "http"
        THEN /\ ModelAllowed(live, last.who.scope)
             /\ last.who.kind = "key" => \E key \in live.keys : key.id = last.who.id
        ELSE /\ last.who.kind = "key" =>
                   \E key \in live.keys : /\ key.id = last.who.id /\ key.status = "active"
                                          /\ live.scopes[key.scope] = "active"
             /\ last.who.kind \in {"share", "personal"} =>
                   share.session = "active" /\ share.provider = "ok"

\* What the operator or a client was told is done is in memory, and on the disk
\* for a restart, until it is done otherwise, an import replaces it, or a write
\* about the same thing is refused or fails.
PromisesAreKept ==
    \A db \in {disk.db} \cup (IF Up THEN {live} ELSE {}) :
        /\ \A f \in owed.scopes : db.scopes[f[1]] = f[2]
        /\ \A f \in owed.keys : \E key \in db.keys : key.id = f[1] /\ key.status = f[2]
        /\ \A f \in owed.marker : f[2] > now => db.marker[f[1]] >= f[2]

\* A key has one record, so that disabling it disables it.
KeysAreUnique ==
    Up => \A k, l \in live.keys : k.hash = l.hash => k = l

AccessIsSound == TurnsAreAuthorized /\ PromisesAreKept /\ KeysAreUnique

\* A marker whose write was not confirmed durable must not grant the HTTP
\* fallback (store.js, discardNativeWebsocketSizeRecovery).  Observed not to
\* hold: another handshake reads the marker from memory while it is awaited.
FallbackIsConfirmed ==
    last.what = "fallback" => \E f \in owed.marker : f[1] = last.who.id /\ f[2] > now

=============================================================================
