-------------------------------- MODULE Accounts --------------------------------
(***************************************************************************)
(* The accounts an operator manages (server.js, apiRequest; store.js,      *)
(* create, update, remove; domain.js, createUpstream, updateUpstream): the *)
(* records in memory, the ones on disk, and the lookups of a Claude        *)
(* account's identity (claude-protocol.js), which wait for the provider    *)
(* while the account changes.  Every record shows the credentials it       *)
(* holds: sealed by the store's key, or plain while an update works on     *)
(* them.                                                                   *)
(***************************************************************************)
EXTENDS Naturals, FiniteSets

CONSTANTS
    Ids,
    MayBe,          \* by id: the types of account the operator makes of it
    Tokens,         \* credentials an operator may enter
    Person, Owner,  \* by token: the e-mail and the provider's account it is of
    LocalId,        \* by token: the account id derived when none is known
    None,
    MaxEpoch,       \* bound on the generations of one account
    MaxTorn         \* bound on the accounts with an update refused halfway

TokensHaveOwners ==
    Tokens \subseteq DOMAIN Owner /\ Tokens \subseteq DOMAIN Person /\ Tokens \subseteq DOMAIN LocalId

VARIABLES
    live,       \* by id: the record in memory, or None
    disk,       \* by id: the record in the database, or None
    lookup,     \* by id: the identity lookup under way, or None
    gone,       \* the ids that were removed; an id is never given twice
    torn,       \* history: the ids whose update was refused halfway
    mixed       \* history: by id, the account id may be of older credentials

vars == <<live, disk, lookup, gone, torn, mixed>>

Types == {"codex", "claude", "compass"}
Accounts == {Owner[t] : t \in Tokens} \cup {LocalId[t] : t \in Tokens}
People == {Person[t] : t \in Tokens} \cup {None}

Records ==
    [type : Types, account : Accounts, email : People, token : Tokens, epoch : 1 .. MaxEpoch,
     credits : BOOLEAN, sealed : BOOLEAN]
Lookups == [token : Tokens, epoch : 1 .. MaxEpoch, email : People]

AccountsAssumption ==
    TokensHaveOwners /\ MaxEpoch \in Nat \ {0} /\ None \notin Records /\ None \notin Lookups

TypeOK ==
    /\ \A i \in Ids :
        /\ live[i] # None => live[i] \in Records
        /\ disk[i] # None => disk[i] \in Records
        /\ lookup[i] # None => lookup[i] \in Lookups
    /\ gone \subseteq Ids /\ torn \subseteq Ids /\ mixed \in [Ids -> BOOLEAN]

Init ==
    /\ live = [i \in Ids |-> None] /\ disk = live /\ lookup = live
    /\ gone = {} /\ torn = {} /\ mixed = [i \in Ids |-> FALSE]

Present == {i \in Ids : live[i] # None}

-----------------------------------------------------------------------------
(* Creating an account.                                                    *)

\* What the credentials say of their account.  A Claude token may be entered
\* with its identity or without: its account id is then derived from it.
CodexAuth(t) == [account |-> Owner[t], email |-> Person[t]]
ClaudeAuth(t, named) ==
    IF named THEN [account |-> Owner[t], email |-> Person[t]]
    ELSE [account |-> LocalId[t], email |-> None]
CompassAuth(t, named) == [account |-> Owner[t], email |-> IF named THEN Person[t] ELSE None]

Auth(type, t, named) ==
    CASE type = "codex"   -> CodexAuth(t)
      [] type = "claude"  -> ClaudeAuth(t, named)
      [] type = "compass" -> CompassAuth(t, named)

Entered(type, t, named) ==
    [type |-> type, token |-> t, epoch |-> 1, credits |-> FALSE, sealed |-> TRUE,
     account |-> Auth(type, t, named).account, email |-> Auth(type, t, named).email]

SameEmail(r, s) == r.email # None /\ r.email = s.email
SameAccount(r, s) == r.account = s.account

IsDuplicate(r, s) ==
    /\ r.type = s.type
    /\ \/ r.type = "codex" /\ IF r.email # None THEN SameEmail(r, s) ELSE SameAccount(r, s)
       \/ r.type = "compass" /\ SameAccount(r, s)
       \/ r.type = "claude" /\ (SameEmail(r, s) \/ SameAccount(r, s))

Siblings(records, account) ==
    {i \in Ids : records[i] # None /\ records[i].type = "codex" /\ records[i].account = account}

\* One lookup runs per account; a later caller joins it, whatever it reads for.
Looking(i, r) ==
    IF r.type = "claude" /\ lookup[i] = None
    THEN [token |-> r.token, epoch |-> r.epoch, email |-> r.email]
    ELSE lookup[i]

\* A full save writes every record as it is in memory.
Save(records) == live' = records /\ disk' = records

Create(i, type, t, named, credits) ==
    LET r == Entered(type, t, named)
        siblings == IF type = "codex" THEN Siblings(live, r.account) ELSE {}
    IN  /\ live[i] = None /\ i \notin gone /\ type \in MayBe[i]
        /\ type = "codex" => named
        /\ credits => type = "codex"
        /\ \A j \in Present : ~IsDuplicate(r, live[j])
        /\ \/ /\ siblings = {}
              /\ Save([live EXCEPT ![i] = [r EXCEPT !.credits = credits]])
           \/ \E j \in siblings :
                Save([live EXCEPT ![i] = [r EXCEPT !.credits = live[j].credits]])
        /\ lookup' = [lookup EXCEPT ![i] = Looking(i, r)]
        /\ UNCHANGED <<gone, torn, mixed>>

-----------------------------------------------------------------------------
(* Updating one.                                                           *)

\* What an update enters: new credentials ("bad" ones cannot be read), a new
\* provider-credit policy, and settings that are refused when they are bad.
\* None leaves the record's value.
Inputs ==
    [token : Tokens \cup {None, "bad"}, named : BOOLEAN, credits : {TRUE, FALSE, None},
     settings : {"fine", "bad"}]

\* The record with its credentials decrypted and the policy applied.
Opened(r, in) ==
    [r EXCEPT !.sealed = FALSE, !.credits = IF in.credits = None THEN @ ELSE in.credits]

\* The record after updateUpstream and the rest of update; a Claude account
\* and a token without a name keep the identity they had.
Changed(r, in) ==
    IF in.token = None THEN Opened(r, in)
    ELSE LET auth == Auth(r.type, in.token, in.named)
             keeps == r.type = "claude" /\ ~in.named
         IN  [Opened(r, in) EXCEPT
                !.token = in.token, !.epoch = @ + 1,
                !.account = IF keeps THEN @ ELSE auth.account,
                !.email = IF keeps \/ r.type = "compass" THEN @ ELSE auth.email]

\* The credits of an account that moved: those of its new siblings.
Inherited(i, r, in) ==
    IF r.type # "codex" \/ r.account = live[i].account \/ in.credits # None THEN {r.credits}
    ELSE LET siblings == Siblings(live, r.account) \ {i}
         IN  IF siblings = {} THEN {FALSE} ELSE {live[j].credits : j \in siblings}

\* Refused before the record is touched: the policy of another type of
\* account, a Claude token that the server checks first, credentials that do
\* not decrypt.
ClaudeInputError(type, token) == type = "claude" /\ token = "bad"

RefusedEarly(i, in) ==
    \/ in.credits # None /\ live[i].type # "codex"
    \/ ClaudeInputError(live[i].type, in.token)
    \/ ~live[i].sealed

RefusedHalfway(in) == in.token = "bad" \/ in.settings = "bad"

MayUpdate(i, in) ==
    /\ i \in Present /\ ~RefusedEarly(i, in)
    /\ in.token \in Tokens => live[i].epoch < MaxEpoch

\* The record is changed in place, so what was done before the error stays.
RefuseHalfway(i, in) ==
    /\ MayUpdate(i, in) /\ RefusedHalfway(in) /\ Cardinality(torn) < MaxTorn
    /\ live' = [live EXCEPT ![i] =
                    IF in.token = "bad" THEN Opened(live[i], in) ELSE Changed(live[i], in)]
    /\ torn' = torn \cup {i}
    /\ UNCHANGED <<disk, lookup, gone, mixed>>

Saved(r, credits) == [r EXCEPT !.credits = credits, !.sealed = TRUE]

Update(i, in) ==
    /\ MayUpdate(i, in) /\ ~RefusedHalfway(in)
    /\ LET r == Changed(live[i], in)
       IN  \E c \in Inherited(i, r, in) :
            LET saved == Saved(r, c)
                siblings == IF in.credits = None THEN {} ELSE Siblings(live, r.account) \ {i}
            IN  /\ Save([j \in Ids |->
                            IF j = i THEN saved
                            ELSE IF j \in siblings THEN [live[j] EXCEPT !.credits = c]
                            ELSE live[j]])
                /\ lookup' = IF in.token = None THEN lookup
                             ELSE [lookup EXCEPT ![i] = Looking(i, saved)]
    /\ mixed' = IF in.token = None \/ live[i].type = "codex" THEN mixed
                ELSE [mixed EXCEPT ![i] = ~in.named]
    /\ UNCHANGED <<gone, torn>>

\* A refresh saves new tokens of the same owner (persistCredentials).
Rotated(r, t) == [r EXCEPT !.token = t, !.epoch = @ + 1]

Rotate(i, t) ==
    /\ i \in Present /\ live[i].sealed /\ live[i].type # "compass" /\ live[i].epoch < MaxEpoch
    /\ t # live[i].token /\ Owner[t] = Owner[live[i].token] /\ Person[t] = Person[live[i].token]
    /\ Save([live EXCEPT ![i] = Rotated(@, t)])
    /\ UNCHANGED <<lookup, gone, torn, mixed>>

-----------------------------------------------------------------------------
(* The identity of a Claude account.                                       *)

\* A request has the provider asked when the identity it finds is a derived
\* one, the operator whenever he likes.
Prepare(i, operator) ==
    /\ i \in Present /\ live[i].type = "claude" /\ live[i].sealed /\ lookup[i] = None
    /\ operator \/ live[i].account = LocalId[live[i].token]
    /\ lookup' = [lookup EXCEPT ![i] = Looking(i, live[i])]
    /\ UNCHANGED <<live, disk, gone, torn, mixed>>

\* Nothing is saved unless the record still holds the token that was read with.
Fenced(r, l) == r.epoch = l.epoch /\ r.token = l.token

\* The record with the identity that was found.
Identified(r, l) ==
    [r EXCEPT !.account = Owner[l.token], !.email = IF l.email # None THEN @ ELSE Person[l.token]]

\* The provider answers with the identity, or with nothing of use.
Looked(i, answered) ==
    /\ lookup[i] # None
    /\ LET l == lookup[i]
       IN  IF answered /\ i \in Present /\ live[i].sealed /\ Fenced(live[i], l)
           THEN /\ Save([live EXCEPT ![i] = Identified(@, l)])
                /\ mixed' = [mixed EXCEPT ![i] = FALSE]
           ELSE UNCHANGED <<live, disk, mixed>>
    /\ lookup' = [lookup EXCEPT ![i] = None]
    /\ UNCHANGED <<gone, torn>>

-----------------------------------------------------------------------------
(* The rest of the store.                                                  *)

Remove(i) ==
    /\ i \in Present
    /\ Save([live EXCEPT ![i] = None])
    /\ gone' = gone \cup {i}
    /\ UNCHANGED <<lookup, torn, mixed>>

\* Any other operation that saves everything, the routing policy for one.
SaveAll == Save(live) /\ UNCHANGED <<lookup, gone, torn, mixed>>

\* One that names the record it changed, the health of an account for one.
SaveOne(i) ==
    /\ i \in Present
    /\ disk' = [disk EXCEPT ![i] = live[i]]
    /\ UNCHANGED <<live, lookup, gone, torn, mixed>>

\* The process stops and starts again.
Restart ==
    /\ live' = disk
    /\ lookup' = [i \in Ids |-> None]
    /\ torn' = {i \in torn : disk[i] # live[i] => ~disk[i].sealed}
    /\ UNCHANGED <<disk, gone, mixed>>

Next ==
    \/ \E i \in Ids :
        \/ \E type \in Types, t \in Tokens, named, credits \in BOOLEAN :
            Create(i, type, t, named, credits)
        \/ \E in \in Inputs : Update(i, in) \/ RefuseHalfway(i, in)
        \/ \E t \in Tokens : Rotate(i, t)
        \/ \E b \in BOOLEAN : Prepare(i, b) \/ Looked(i, b)
        \/ Remove(i) \/ SaveOne(i)
    \/ SaveAll \/ Restart

Spec == Init /\ [][Next]_vars

-----------------------------------------------------------------------------
\* As long as no update was refused halfway, every operation leaves memory and
\* disk equal and every record sealed (store.js, update, save).
SavedAndSealed ==
    torn = {} => live = disk /\ \A i \in Present : live[i].sealed

\* As long as no update was refused halfway, the seats of one Codex workspace
\* have one provider-credit policy, whoever joins or leaves it.
SiblingsAgree ==
    torn = {} =>
        \A i \in Present : \A j \in Siblings(live, live[i].account) :
            live[i].type = "codex" => live[i].credits = live[j].credits

\* The account a record names is the one of its credentials, or derived from
\* credentials of the same.
IdentityFits(r) ==
    \/ r.account = Owner[r.token]
    \/ \E t \in Tokens : r.account = LocalId[t] /\ Owner[t] = Owner[r.token]

\* The identity of a Claude account is the one of the credentials it holds,
\* unless the operator entered new ones and left the identity: no lookup made
\* with replaced credentials names it.
IdentityIsCurrent ==
    \A i \in Present :
        live[i].type = "claude" /\ ~mixed[i] /\ i \notin torn => IdentityFits(live[i])

AccountsAreWhole == SavedAndSealed /\ SiblingsAgree /\ IdentityIsCurrent

\* The inductive invariant.  The tables have their types.
TablesFit ==
    /\ live \in [Ids -> Records \cup {None}] /\ disk \in [Ids -> Records \cup {None}]
    /\ lookup \in [Ids -> Lookups \cup {None}]
    /\ gone \subseteq Ids /\ torn \subseteq Ids /\ mixed \in [Ids -> BOOLEAN]

\* Memory and disk differ in nothing but the accounts whose update was refused
\* halfway, and no other record is open.
OnlyTornDiffer ==
    \A i \in Ids :
        /\ live[i] = None <=> disk[i] = None
        /\ i \notin torn => live[i] = disk[i] /\ (live[i] # None => live[i].sealed)

\* Such an account stays open until it is removed, or read from disk again.
TornAreOpen == \A i \in torn : IF live[i] = None THEN i \in gone ELSE ~live[i].sealed

\* Lookups are of Claude accounts, also when the account was removed since.
LookupsAreClaude ==
    \A i \in Ids :
        lookup[i] # None => IF live[i] = None THEN i \in gone ELSE live[i].type = "claude"

\* The seats of one workspace in a table have one policy.
AgreeOn(table) ==
    \A i, j \in Ids :
        /\ table[i] # None /\ table[i].type = "codex"
        /\ table[j] # None /\ table[j].type = "codex" /\ table[i].account = table[j].account
        => table[i].credits = table[j].credits

\* What a restart would find has one policy per workspace, if nothing of an
\* update that was refused has reached the disk.
PoliciesAgree ==
    (\A i \in torn : disk[i] # live[i] /\ disk[i].sealed) => AgreeOn(disk)

\* Every sealed record of a table has an identity that fits.
FitOn(table, exempt) ==
    \A i \in Ids :
        table[i] # None /\ table[i].type = "claude" /\ table[i].sealed /\ ~exempt[i]
            => IdentityFits(table[i])

AccountsInv ==
    /\ TablesFit /\ OnlyTornDiffer /\ TornAreOpen /\ LookupsAreClaude /\ PoliciesAgree
    /\ FitOn(live, mixed) /\ FitOn(disk, mixed)

\* "Credential fields are encrypted with a local .data/.key" (node/README.md:334):
\* what is on disk can be decrypted again.
CredentialsAreEncrypted == \A i \in Ids : disk[i] # None => disk[i].sealed
================================================================================
