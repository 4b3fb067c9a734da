---------------------------- MODULE QuotaRefresh ----------------------------
(***************************************************************************)
(* The quota of one account: the coalesced refresh of                      *)
(* upstream-quota-refresh.js with the readers of providers.js, the window  *)
(* that Anthropic answers carry in their headers (proxy.js), and how       *)
(* store.js fences both by the epoch of the credentials.                   *)
(*                                                                         *)
(* An owner is an account at the provider: replacing the credentials makes *)
(* the record another owner's.  Refreshing a token (TokenRefresh.tla) only *)
(* makes the next token of the same owner.                                 *)
(***************************************************************************)
EXTENDS Integers

CONSTANTS
    Kinds,                              \* the types of accounts
    None,                               \* no quota
    Interval,                           \* CLAUDE_HEADER_QUOTA_PERSIST_INTERVAL_MS
    MaxOwners, MaxTokens, MaxTime       \* bounds

VARIABLES
    kind,           \* upstream.type
    account,        \* the record in the store
    entry,          \* the account's entry of inFlightRefreshes and its reader
    polling,        \* the pass of refreshAllUpstreamQuotas waits for the account
    blockedUntil,   \* claudeQuotaBlocks of the account
    request,        \* a Claude request on its way
    now

vars == <<kind, account, entry, polling, blockedUntil, request, now>>

Token(o, n) == [owner |-> o, nth |-> n]
Tokens == [owner : 1..MaxOwners, nth : 1..MaxTokens]
Quota == [of : 1..MaxOwners, by : {"read", "headers"}, at : 0..MaxTime]

QuotaAssumption ==
    /\ {MaxOwners, MaxTokens} \subseteq Nat \ {0} /\ MaxTime \in Nat
    /\ None \notin Quota

Account == [present : BOOLEAN, owner : 1..MaxOwners, token : Tokens, epoch : Nat,
            quota : Quota \cup {None}]

\* credentials and upstream as the reader holds them; expected is the
\* credentialEpoch of refreshUpstreamQuotaOnce.
Reader == [phase : {"idle", "tokens", "usage", "probe"}, owner : 1..MaxOwners, token : Tokens,
           read : Nat, expected : Nat, retried : BOOLEAN]

Idle == [phase |-> "idle", owner |-> 1, token |-> Token(1, 1), read |-> 0, expected |-> 0,
         retried |-> FALSE]

Request == [phase : {"none", "built", "sent", "done"}, owner : 1..MaxOwners, issued : Nat]

TypeOK ==
    /\ kind \in Kinds /\ account \in Account /\ entry \in Reader /\ request \in Request
    /\ polling \in BOOLEAN /\ blockedUntil \in 0..(MaxTime + 1) /\ now \in 0..MaxTime

Init ==
    /\ kind \in Kinds
    /\ account = [present |-> TRUE, owner |-> 1, token |-> Token(1, 1), epoch |-> 0, quota |-> None]
    /\ entry = Idle /\ polling = FALSE /\ blockedUntil = 0 /\ now = 0
    /\ request = [phase |-> "none", owner |-> 1, issued |-> 0]

-----------------------------------------------------------------------------
(* The store *)

\* persistCredentials: whether the tokens a reader has got become the
\* account's, when they are those of the epoch it read.
Persists(reader) == account.epoch = reader.read
SameAuthentication(token) == account.token = token

\* mutant: whoever finishes last is stored
FencedByNothing(expected) == TRUE

Fenced(expected) == account.epoch = expected

\* setQuota: what was read with replaced credentials is dropped.
SetQuota(quota, expected) ==
    account' = IF Fenced(expected) THEN [account EXCEPT !.quota = quota] ELSE account

-----------------------------------------------------------------------------
(* The coalesced refresh *)

Blocked == blockedUntil > now

\* The reader's first step: an Anthropic account in its cooldown is not read,
\* Compass has no token to refresh.
FirstPhase == IF kind = "compass" THEN "usage" ELSE "tokens"

\* refreshUpstreamQuota by the poll or by a manager (server.js); a caller who
\* finds an entry waits for it, whatever credentials it reads.
Begin ==
    /\ account.present
    /\ IF entry.phase # "idle" \/ (kind = "claude" /\ Blocked)
       THEN UNCHANGED <<entry, blockedUntil>>
       ELSE /\ entry' = [phase |-> FirstPhase, owner |-> account.owner, token |-> account.token,
                         read |-> account.epoch, expected |-> account.epoch, retried |-> FALSE]
            /\ blockedUntil' = 0
    /\ UNCHANGED <<kind, account, request, now>>

Poll == ~polling /\ Begin /\ polling' = (entry'.phase # "idle")
Manual == Begin /\ UNCHANGED polling

\* The pass of the poll ends with the entry it waits for.
Finish ==
    /\ entry' = Idle
    /\ polling' = FALSE

\* refreshCodexCredentials, refreshClaudeCredentials: not due, or refreshed and
\* stored, or refreshed and found replaced meanwhile, which the reader ignores.
TokenNotDue ==
    /\ entry.phase = "tokens"
    /\ entry' = [entry EXCEPT !.phase = "usage"]
    /\ UNCHANGED <<kind, account, polling, blockedUntil, request, now>>

TokenRefreshed ==
    /\ entry.phase = "tokens" /\ account.present
    /\ entry.token.nth < MaxTokens
    /\ LET token == Token(entry.token.owner, entry.token.nth + 1)
           stored == Persists(entry)
           known == ~stored /\ SameAuthentication(token)
       IN /\ account' = IF stored THEN [account EXCEPT !.token = token, !.epoch = @ + 1] ELSE account
          /\ entry' = IF stored \/ known
                      THEN [entry EXCEPT !.phase = "usage", !.token = token,
                                         !.expected = account'.epoch]
                      ELSE [entry EXCEPT !.phase = "usage"]
    /\ UNCHANGED <<kind, polling, blockedUntil, request, now>>

\* Cookies of an answer are stored without a new epoch.
CookiesSaved ==
    /\ kind = "codex" /\ entry.phase = "usage" /\ account.present
    /\ Persists(entry) \/ SameAuthentication(entry.token)
    /\ entry' = [entry EXCEPT !.expected = account.epoch]
    /\ UNCHANGED <<kind, account, polling, blockedUntil, request, now>>

\* An answer: parsed and stored.  The record may be gone, which rejects.
Read ==
    /\ entry.phase \in {"usage", "probe"}
    /\ IF account.present
       THEN SetQuota([of |-> entry.token.owner, by |-> "read", at |-> now], entry.expected)
       ELSE UNCHANGED account
    /\ Finish
    /\ UNCHANGED <<kind, blockedUntil, request, now>>

\* The scope is missing: one message is sent for its headers.
NoScope ==
    /\ kind = "claude" /\ entry.phase = "usage"
    /\ entry' = [entry EXCEPT !.phase = "probe"]
    /\ UNCHANGED <<kind, account, polling, blockedUntil, request, now>>

\* 429: the account is left alone for a while and keeps the quota it has.
RateLimited ==
    /\ kind = "claude" /\ entry.phase \in {"usage", "probe"}
    /\ blockedUntil' = now + 1
    /\ Finish
    /\ UNCHANGED <<kind, account, request, now>>

\* 401: once, the token is refreshed whatever its age and the reader begins
\* again, unless the account has been blocked.
Unauthorized ==
    /\ kind # "compass" /\ entry.phase = "usage" /\ ~entry.retried
    /\ entry' = [entry EXCEPT !.phase = "tokens", !.retried = TRUE]
    /\ UNCHANGED <<kind, account, polling, blockedUntil, request, now>>

\* Any other failure rejects the callers; nothing known is forgotten.
Fail ==
    /\ entry.phase # "idle"
    /\ Finish
    /\ UNCHANGED <<kind, account, blockedUntil, request, now>>

-----------------------------------------------------------------------------
(* Requests, whose answers carry windows *)

\* buildRequest puts the token in, then the request may wait for the pacer.
Build ==
    /\ kind = "claude" /\ account.present /\ request.phase = "none"
    /\ request' = [request EXCEPT !.phase = "built", !.owner = account.owner]
    /\ UNCHANGED <<kind, account, entry, polling, blockedUntil, now>>

\* requestUpstream reads the epoch when it sends.
Send ==
    /\ request.phase = "built" /\ account.present
    /\ request' = [request EXCEPT !.phase = "sent", !.issued = account.epoch]
    /\ UNCHANGED <<kind, account, entry, polling, blockedUntil, now>>

Recent == account.quota # None /\ account.quota.at + Interval > now

\* persistClaudeResponseQuota
Answered ==
    /\ request.phase = "sent"
    /\ request' = [request EXCEPT !.phase = "done"]
    /\ IF account.present /\ ~Recent
       THEN SetQuota([of |-> request.owner, by |-> "headers", at |-> now], request.issued)
       ELSE UNCHANGED account
    /\ UNCHANGED <<kind, entry, polling, blockedUntil, now>>

-----------------------------------------------------------------------------
(* The manager, and token refreshes by others *)

\* update: other credentials, another owner.
Replace ==
    /\ account.present /\ account.owner < MaxOwners
    /\ kind # "compass"
    /\ account' = [account EXCEPT !.owner = @ + 1, !.token = Token(account.owner + 1, 1),
                                  !.epoch = @ + 1, !.quota = None]
    /\ UNCHANGED <<kind, entry, polling, blockedUntil, request, now>>

\* A Compass account's quota is that of its project, not of its key: another
\* project leaves the epoch as it is, another key leaves the owner.
ReplaceProject ==
    /\ kind = "compass" /\ account.present /\ account.owner < MaxOwners
    /\ account' = [account EXCEPT !.owner = @ + 1, !.token = Token(account.owner + 1, 1),
                                  !.quota = None]
    /\ UNCHANGED <<kind, entry, polling, blockedUntil, request, now>>

ReplaceKey ==
    /\ kind = "compass" /\ account.present /\ account.epoch = 0
    /\ account' = [account EXCEPT !.epoch = @ + 1, !.quota = None]
    /\ UNCHANGED <<kind, entry, polling, blockedUntil, request, now>>

OtherRefreshed ==
    /\ kind # "compass" /\ account.present /\ account.token.nth < MaxTokens
    /\ account' = [account EXCEPT !.token.nth = @ + 1, !.epoch = @ + 1]
    /\ UNCHANGED <<kind, entry, polling, blockedUntil, request, now>>

Remove ==
    /\ account.present
    /\ account' = [account EXCEPT !.present = FALSE]
    /\ UNCHANGED <<kind, entry, polling, blockedUntil, request, now>>

Tick ==
    /\ now < MaxTime
    /\ now' = now + 1
    /\ UNCHANGED <<kind, account, entry, polling, blockedUntil, request>>

Next ==
    \/ Poll \/ Manual
    \/ TokenNotDue \/ TokenRefreshed \/ CookiesSaved
    \/ Read \/ NoScope \/ RateLimited \/ Unauthorized \/ Fail
    \/ Build \/ Send \/ Answered
    \/ Replace \/ ReplaceProject \/ ReplaceKey \/ OtherRefreshed \/ Remove
    \/ Tick

Spec == Init /\ [][Next]_vars

-----------------------------------------------------------------------------
\* A quota that a refresh stored was read with the credentials the record has
\* now, whoever replaced or refreshed them while it was read and whoever joined
\* it (expectedCredentialEpoch of refreshUpstreamQuotaOnce).  For Compass the
\* code promises it of the key only: a read of the previous project is stored.
ReadsAreTheOwners ==
    kind # "compass" /\ account.quota # None /\ account.quota.by = "read"
        => account.quota.of = account.owner

\* Tokens are their owner's, a reader expects no epoch that is yet to come, and
\* what it holds at the epoch it read at or expects belongs to the present owner.
Held ==
    /\ account.token.owner = account.owner
    /\ entry.phase # "idle" =>
        /\ entry.read <= account.epoch /\ entry.expected <= account.epoch
        /\ account.epoch \in {entry.read, entry.expected} => entry.token.owner = account.owner

ReadsAreFenced == kind # "compass" => Held /\ ReadsAreTheOwners

\* Inductive: what holds of the quota at each step.
QuotaInv == TypeOK /\ ReadsAreFenced

\* "headers from a request whose credentials were replaced while it was in
\* flight are discarded" (node/README.md:325), "Quota headers describe the
\* credentials this request was sent with" (proxy.js:1728).
HeadersAreTheOwners ==
    account.quota # None /\ account.quota.by = "headers" => account.quota.of = account.owner
=============================================================================
