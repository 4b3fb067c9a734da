---------------------------- MODULE TokenRefresh ----------------------------
(***************************************************************************)
(* OAuth token refresh of ONE upstream account: the refresh that            *)
(* node/src/providers.js coalesces over its callers, the scheduler and     *)
(* manual refresh of codex-token-refresh.js, and the token state that      *)
(* store.js keeps.                                                         *)
(*                                                                         *)
(* An action is one uninterrupted run of the event loop.  When the shared  *)
(* fetch settles, its waiters resume one after the other in microtasks,    *)
(* before anything else happens (`Quiet`).  Delays are abstracted: a timer *)
(* fires at any time after it was armed.                                   *)
(***************************************************************************)
EXTENDS Integers, FiniteSets, TLAPS

CONSTANTS
    Callers,            \* concurrent callers that can wait for a refresh
    Kinds,              \* who may ask: subset of {"request", "manual", "scheduled"}
    MaxAttempts,        \* TOKEN_REFRESH_MAX_ATTEMPTS
    NoToken, Nothing,   \* no refresh token; no fetch, timer or waiting caller
    MaxReplacements, MaxFetches, MaxCrashes     \* bounds

TokenRefreshAssumption ==
    /\ Kinds \subseteq {"request", "manual", "scheduled"}
    /\ MaxAttempts \in Nat \ {0, 1}      \* 8 in the code
    /\ {MaxReplacements, MaxFetches, MaxCrashes} \subseteq Nat

VARIABLES
    credentials,        \* the stored access and refresh token
    credentialEpoch,
    refresh,            \* upstream.tokenRefresh
    fetch,              \* the refresh in flight: tokenRefreshes.get(key)
    caller,             \* what each caller waits for
    timer,              \* the scheduler's retry timer
    running,            \* the scheduler's run() is under way
    recovered,          \* run() was called since the process started
    replacements, fetches, crashes,
    valid,              \* ghost: the refresh token the provider accepts, per account
    attempts            \* ghost: refreshes since the scheduler, not a retry, began one

tokens == <<credentials, credentialEpoch, refresh>>
ghosts == <<valid, attempts>>
vars == <<tokens, fetch, caller, timer, running, recovered, replacements, fetches, crashes, ghosts>>

Accounts == 0..MaxReplacements
Token == Accounts \X Nat            \* account, and the fetch that issued it
Credentials == [access : Token, refresh : Token \cup {NoToken}]

Refresh == [status : {"none", "refreshing", "failed", "succeeded", "reauth_required"},
            trigger : {"runtime", "manual", "scheduled"}, attempt : Nat, retryAt : BOOLEAN]

NoRefresh == [status |-> "none", trigger |-> "runtime", attempt |-> 0, retryAt |-> FALSE]

\* mutant: the record lacks a field
StateWithoutRetry(status, trigger, attempt) ==
    [status |-> status, trigger |-> trigger, attempt |-> attempt]

State(status, trigger, attempt) ==
    [status |-> status, trigger |-> trigger, attempt |-> attempt, retryAt |-> FALSE]

Results == {"ok", "failed", "reauth_required"}

Caller == [pc : {"waiting", "resolved", "finishing", "reporting"},
           kind : {"request", "manual", "scheduled", "retry"},
           trigger : {"runtime", "manual", "scheduled"}, attempt : Nat,
           held : Credentials, epoch : Nat, result : Results, got : Credentials]

Timer == [trigger : {"runtime", "manual", "scheduled"}, attempt : Nat]
Fetch == [using : Token, id : Nat]

\* null is no token and no object.
NullAssumption == NoToken \notin Token /\ Nothing \notin Caller \cup Timer \cup Fetch

Idle(c) == caller[c] = Nothing
At(c, pc) == caller[c] # Nothing /\ caller[c].pc = pc

\* No microtask is pending.
Quiet == \A c \in Callers : ~ At(c, "resolved") /\ ~ At(c, "finishing")

-----------------------------------------------------------------------------
(* schedule() and the store's failure record *)

\* schedule(id, trigger, attempt), reading the record r
Schedule(r, trigger, attempt) ==
    IF attempt >= MaxAttempts \/ r.status # "failed"
    THEN refresh' = r /\ UNCHANGED timer
    ELSE /\ refresh' = [r EXCEPT !.trigger = trigger, !.attempt = attempt, !.retryAt = TRUE]
         /\ timer' = [trigger |-> trigger, attempt |-> attempt]

\* mutant: the scheduler is not told
RecordFailureQuietly(status) == refresh' = State(status, "runtime", 0) /\ UNCHANGED timer

\* recordTokenRefreshFailure(): the epoch it expects is read from the live
\* record when the callback runs, so it always matches.
RecordFailure(status) == Schedule(State(status, "runtime", 0), "runtime", 1)

-----------------------------------------------------------------------------
(* Asking for a refresh *)

\* refreshCodexCredentials() and refreshClaudeCredentials() up to the await: a
\* caller joins the refresh in flight for this upstream or starts one.
Await(c, kind, trigger, attempt) ==
    /\ fetch = Nothing => fetches < MaxFetches
    /\ fetch' = IF fetch = Nothing THEN [using |-> credentials.refresh, id |-> fetches + 1]
                                   ELSE fetch
    /\ fetches' = IF fetch = Nothing THEN fetches + 1 ELSE fetches
    /\ caller' = [caller EXCEPT ![c] =
                     [pc |-> "waiting", kind |-> kind, trigger |-> trigger, attempt |-> attempt,
                      held |-> credentials, epoch |-> credentialEpoch,
                      result |-> "ok", got |-> credentials]]

\* A request finds its access token due, or was answered 401.
Request(c) ==
    /\ "request" \in Kinds /\ Quiet /\ Idle(c)
    /\ IF credentials.refresh = NoToken
       THEN /\ RecordFailure("reauth_required")
            /\ UNCHANGED <<fetch, fetches, caller, attempts>>
       ELSE /\ Await(c, "request", "runtime", 0)
            /\ attempts' = 1
            /\ UNCHANGED <<refresh, timer>>
    /\ UNCHANGED <<credentials, credentialEpoch, running, recovered, replacements, crashes, valid>>

\* refreshProviderToken() up to the await.  A refresh under way for less than
\* TOKEN_REFRESH_STALE_MS turns the caller away; one that is older does not.
RefreshToken(c, kind, trigger, attempt) ==
    /\ refresh.status # "reauth_required"
    /\ IF credentials.refresh = NoToken
       THEN /\ refresh' = State("reauth_required", trigger, 0)
            /\ UNCHANGED <<fetch, fetches, caller>>
       ELSE /\ refresh' = State("refreshing", trigger, 0)
            /\ Await(c, kind, trigger, attempt)
    /\ UNCHANGED <<credentials, credentialEpoch, replacements, crashes, valid>>

Manual(c) ==
    /\ "manual" \in Kinds /\ Quiet /\ Idle(c)
    /\ RefreshToken(c, "manual", "manual", 0)
    /\ attempts' = 1
    /\ UNCHANGED <<timer, running, recovered>>

\* run(), for an account that is due
Run(c) ==
    /\ "scheduled" \in Kinds /\ Quiet /\ Idle(c) /\ ~ running
    /\ refresh.status # "failed"
    /\ running' = (credentials.refresh # NoToken)
    /\ recovered' = TRUE
    /\ RefreshToken(c, "scheduled", "scheduled", 0)
    /\ attempts' = 1
    /\ UNCHANGED timer

\* run() first arms the retry a record still asks for; the account itself is
\* due again when TOKEN_REFRESH_FAILURE_COOLDOWN_MS have passed.
RunAfterFailure(c) ==
    /\ "scheduled" \in Kinds /\ Quiet /\ Idle(c) /\ ~ running
    /\ refresh.status = "failed"
    /\ timer' = IF refresh.attempt > 0 /\ refresh.retryAt /\ refresh.attempt < MaxAttempts
                THEN [trigger |-> refresh.trigger, attempt |-> refresh.attempt] ELSE timer
    /\ recovered' = TRUE
    /\ \/ /\ running' = (credentials.refresh # NoToken)
          /\ RefreshToken(c, "scheduled", "scheduled", 0)
          /\ attempts' = 1
       \/ UNCHANGED <<tokens, fetch, fetches, caller, running, replacements, crashes, ghosts>>

\* the callback of the retry timer
Retry(c) ==
    /\ timer # Nothing /\ Quiet /\ Idle(c)
    /\ timer' = Nothing
    /\ IF refresh.status = "failed"
       THEN /\ RefreshToken(c, "retry", timer.trigger, timer.attempt + 1)
            /\ attempts' = attempts + 1
       ELSE UNCHANGED <<tokens, fetch, fetches, caller, replacements, crashes, ghosts>>
    /\ UNCHANGED <<running, recovered>>

-----------------------------------------------------------------------------
(* The answer *)

\* The provider accepts only the newest refresh token of an account, and may
\* answer with a new one.
FetchDone(result, rotates) ==
    LET account == fetch.using[1]
        access == <<account, fetch.id>>
        issued == IF rotates THEN access ELSE NoToken
    IN
    /\ Quiet /\ fetch # Nothing
    /\ result = "ok" => fetch.using[2] = valid[account]
    /\ rotates => result = "ok"
    /\ valid' = IF rotates THEN [valid EXCEPT ![account] = fetch.id] ELSE valid
    /\ fetch' = Nothing
    /\ caller' = [c \in Callers |->
                    IF At(c, "waiting")
                    THEN [caller[c] EXCEPT !.pc = "resolved", !.result = result,
                                           !.got = [access |-> access, refresh |-> issued]]
                    ELSE caller[c]]
    /\ UNCHANGED <<tokens, timer, running, recovered, replacements, fetches, crashes,
                   attempts>>

\* mutant: the refresh token the caller held is kept
UpdatedAccess(w) == [access |-> w.got.access, refresh |-> w.held.refresh]

\* The credentials a caller would store: what it held, updated by the answer.
Updated(w) ==
    [access |-> w.got.access,
     refresh |-> IF w.got.refresh = NoToken THEN w.held.refresh ELSE w.got.refresh]

Continue(c, result) ==
    caller' = [caller EXCEPT ![c] =
                  IF caller[c].kind = "request" THEN Nothing
                  ELSE [caller[c] EXCEPT !.pc = "finishing", !.result = result]]

ResumeFailed(c) ==
    /\ At(c, "resolved") /\ caller[c].result # "ok"
    /\ RecordFailure(caller[c].result)
    /\ Continue(c, caller[c].result)
    /\ UNCHANGED <<credentials, credentialEpoch, fetch, running, recovered, replacements,
                   fetches, crashes, valid, attempts>>

\* persistCredentials() and onTokenRefreshSuccess(): a caller whose credentials
\* were replaced stores nothing, unless what it got is what is stored already.
ResumeOk(c) ==
    LET w == caller[c]
        current == w.epoch = credentialEpoch
        accepted == current \/ credentials = Updated(w)
    IN
    /\ At(c, "resolved") /\ w.result = "ok"
    /\ credentials' = IF current THEN Updated(w) ELSE credentials
    /\ credentialEpoch' = IF current THEN credentialEpoch + 1 ELSE credentialEpoch
    /\ refresh' = IF accepted THEN NoRefresh ELSE refresh
    /\ caller' = [caller EXCEPT ![c] =
                     IF w.kind = "request" THEN Nothing
                     ELSE IF accepted THEN [w EXCEPT !.pc = "finishing"]
                     ELSE IF w.kind = "scheduled" THEN [w EXCEPT !.pc = "reporting"]
                     ELSE Nothing]
    /\ UNCHANGED <<fetch, timer, running, recovered, replacements, fetches, crashes, ghosts>>

\* The rest of refreshProviderToken(), and what its caller does with the result:
\* a retry schedules the next one, a manual refresh the first.  The epoch check
\* of the error path compares the live record with itself.
Finish(c) ==
    LET w == caller[c]
        done == State(IF w.result = "ok" THEN "succeeded" ELSE w.result, w.trigger,
                      IF w.result = "failed" THEN w.attempt ELSE 0)
    IN
    /\ At(c, "finishing")
    /\ \/ /\ w.kind = "retry"
          /\ Schedule(done, w.trigger, w.attempt)
          /\ caller' = [caller EXCEPT ![c] = Nothing]
       \/ /\ w.kind = "manual"
          /\ Schedule(done, "manual", 1)
          /\ caller' = [caller EXCEPT ![c] = Nothing]
       \/ /\ w.kind = "scheduled"
          /\ refresh' = done
          /\ caller' = [caller EXCEPT ![c].pc = "reporting"]
          /\ UNCHANGED timer
    /\ UNCHANGED <<credentials, credentialEpoch, fetch, running, recovered, replacements,
                   fetches, crashes, ghosts>>

\* run() schedules retries when all the accounts of its batch are through.
RunDone(c) ==
    /\ Quiet /\ At(c, "reporting")
    /\ IF caller[c].result = "failed" THEN Schedule(refresh, "scheduled", 1)
                                      ELSE UNCHANGED <<refresh, timer>>
    /\ running' = FALSE
    /\ caller' = [caller EXCEPT ![c] = Nothing]
    /\ UNCHANGED <<credentials, credentialEpoch, fetch, recovered, replacements, fetches,
                   crashes, ghosts>>

-----------------------------------------------------------------------------
(* Management and restarts *)

\* mutant: the record of a refresh under way survives
ReplaceTokensOnly ==
    /\ Quiet /\ replacements < MaxReplacements
    /\ replacements' = replacements + 1
    /\ credentials' = [access |-> <<replacements + 1, 0>>, refresh |-> <<replacements + 1, 0>>]
    /\ credentialEpoch' = credentialEpoch + 1
    /\ UNCHANGED <<refresh, fetch, caller, timer, running, recovered, fetches, crashes, ghosts>>

\* update() with new credentials, which may lack a refresh token
Replace ==
    /\ Quiet /\ replacements < MaxReplacements
    /\ replacements' = replacements + 1
    /\ \E token \in {<<replacements + 1, 0>>, NoToken} :
          credentials' = [access |-> <<replacements + 1, 0>>, refresh |-> token]
    /\ credentialEpoch' = credentialEpoch + 1
    /\ refresh' = NoRefresh
    /\ UNCHANGED <<fetch, caller, timer, running, recovered, fetches, crashes, ghosts>>

\* The process restarts and forgets the refresh in flight, which has not yet
\* reached the provider: an answer lost with the process is lost for good.
Crash ==
    /\ Quiet /\ crashes < MaxCrashes
    /\ crashes' = crashes + 1
    /\ fetch' = Nothing
    /\ caller' = [c \in Callers |-> Nothing]
    /\ timer' = Nothing
    /\ running' = FALSE
    /\ recovered' = FALSE
    /\ UNCHANGED <<tokens, replacements, fetches, ghosts>>

-----------------------------------------------------------------------------

Init ==
    /\ credentials = [access |-> <<0, 0>>, refresh |-> <<0, 0>>]
    /\ credentialEpoch = 0
    /\ refresh = NoRefresh
    /\ fetch = Nothing
    /\ caller = [c \in Callers |-> Nothing]
    /\ timer = Nothing
    /\ running = FALSE
    /\ recovered = TRUE
    /\ replacements = 0 /\ fetches = 0 /\ crashes = 0
    /\ valid = [account \in Accounts |-> 0]
    /\ attempts = 0

Next ==
    \/ \E c \in Callers :
          \/ Request(c) \/ Manual(c) \/ Run(c) \/ RunAfterFailure(c) \/ Retry(c)
          \/ ResumeFailed(c) \/ ResumeOk(c) \/ Finish(c) \/ RunDone(c)
    \/ \E result \in Results, rotates \in BOOLEAN : FetchDone(result, rotates)
    \/ Replace
    \/ Crash

Spec == Init /\ [][Next]_vars

-----------------------------------------------------------------------------
(* Properties *)

\* Every variable keeps the shape the code gives it.
TypeOK ==
    /\ credentials \in Credentials
    /\ credentialEpoch \in Nat
    /\ refresh \in Refresh
    /\ fetch = Nothing \/ fetch \in Fetch
    /\ \A c \in Callers : caller[c] = Nothing \/ caller[c] \in Caller
    /\ timer = Nothing \/ timer \in Timer
    /\ running \in BOOLEAN /\ recovered \in BOOLEAN
    /\ {replacements, fetches, crashes, attempts} \subseteq Nat
    /\ valid \in [Accounts -> Nat]

\* Providers rotate refresh tokens and revoke the old one: once the callers of a
\* refresh are through, the store holds the refresh token that is valid, or none
\* if the operator entered none, however many callers shared the refresh and in
\* whatever order they stored it.
NoLostRotation ==
    Quiet =>
        IF credentials.refresh = NoToken THEN credentials.access[2] = 0
        ELSE credentials.refresh[2] = valid[credentials.refresh[1]]

\* A transient failure is always going to be retried: while attempts are left a
\* retry is armed, whoever asked for the refresh and also after a restart.  The
\* exception is a restart between a failure and the end of the scheduler's pass,
\* which leaves a record without retryAt to the six-hour recovery.
FailedIsRetried ==
    /\ Quiet /\ recovered
    /\ refresh.status = "failed" /\ refresh.attempt < MaxAttempts
    /\ refresh.retryAt \/ crashes = 0
    => timer # Nothing

\* The state "refreshing", which turns other refreshes away, always belongs to a
\* refresh that is still going to replace it.
RefreshingHasAnOwner ==
    refresh.status = "refreshing" /\ crashes = 0 =>
        \E c \in Callers : caller[c] # Nothing /\ caller[c].kind # "request"

\* node/README.md: "Credential replacement and generation-fenced attempt leases
\* prevent stale in-flight success or failure from overwriting newer account
\* state."  The access token stored is one of the account the operator entered
\* last.
CredentialsFollowTheOperator == credentials.access[1] = replacements

\* node/README.md: "Transient refresh failures retry with bounded exponential
\* backoff (eight total attempts), then re-enter recovery after six hours".
AttemptsAreBounded == attempts <= MaxAttempts

-----------------------------------------------------------------------------
(* Proofs *)

\* Before it stores what it was given, a caller is ...
Pending(c) == At(c, "waiting") \/ At(c, "resolved")
Current(c) == caller[c].epoch = credentialEpoch

IsRight(token) == token # NoToken /\ token[2] = valid[token[1]]

HeldIsStored ==
    \A c \in Callers : Pending(c) =>
        /\ caller[c].epoch <= credentialEpoch /\ caller[c].held.refresh # NoToken
        /\ Current(c) => caller[c].held = credentials

\* A fetch that uses the stored account's token has a caller who will store
\* what it brings.
FetchIsAwaited ==
    fetch # Nothing =>
        /\ \A c \in Callers : ~ At(c, "resolved")
        /\ fetch.using[1] <= replacements
        /\ credentials.refresh # NoToken /\ credentials.refresh[1] = fetch.using[1]
             => \E c \in Callers : At(c, "waiting") /\ Current(c)

AccountsAreNew ==
    /\ credentials.refresh # NoToken => credentials.refresh[1] <= replacements
    /\ \A a \in Accounts : a > replacements => valid[a] = 0

StoredIsRight ==
    IF credentials.refresh = NoToken THEN credentials.access[2] = 0
                                     ELSE IsRight(credentials.refresh)

\* The store is right, or about to be.
RotationIsKept ==
    \/ StoredIsRight
    \/ \E c \in Callers : At(c, "resolved") /\ caller[c].result = "ok" /\ Current(c)

AnswersAreRight ==
    \A c \in Callers : At(c, "resolved") =>
        /\ caller[c].got.refresh # NoToken => caller[c].got.refresh[1] <= replacements
        /\ caller[c].result = "ok" /\ Current(c) => IsRight(Updated(caller[c]).refresh)

RefreshIsOwned ==
    refresh.status = "refreshing" /\ crashes = 0 =>
        \E c \in Callers : Pending(c) /\ caller[c].kind # "request" /\ Current(c)

RetriesAreCounted ==
    \A c \in Callers :
        caller[c] # Nothing /\ caller[c].kind = "retry" => caller[c].attempt > 0

RetryIsArmed ==
    /\ recovered /\ refresh.status = "failed" /\ refresh.attempt < MaxAttempts
         /\ (refresh.retryAt \/ crashes = 0) => timer # Nothing
    /\ refresh.retryAt => refresh.attempt > 0
    /\ \A c \in Callers : At(c, "finishing") /\ caller[c].result = "failed" => timer # Nothing
    /\ crashes = 0 => recovered
    /\ RetriesAreCounted

TokensAreKept ==
    HeldIsStored /\ FetchIsAwaited /\ AccountsAreNew /\ RotationIsKept /\ AnswersAreRight

Shape == TypeOK /\ caller = [c \in Callers |-> caller[c]]

IInv == Shape /\ TokensAreKept /\ RefreshIsOwned /\ RetryIsArmed

-----------------------------------------------------------------------------
(* What the parts of an action do *)

Triggers == {"runtime", "manual", "scheduled"}

LEMMA StateIs ==
    ASSUME NEW status \in {"refreshing", "failed", "succeeded", "reauth_required"},
           NEW trigger \in Triggers, NEW attempt \in Nat
    PROVE  /\ State(status, trigger, attempt) \in Refresh
           /\ State(status, trigger, attempt).status = status
           /\ State(status, trigger, attempt).attempt = attempt
           /\ ~ State(status, trigger, attempt).retryAt
BY DEF State, Refresh, Triggers

LEMMA ScheduleIs ==
    ASSUME TokenRefreshAssumption, NullAssumption, NEW r \in Refresh,
           NEW trigger \in Triggers, NEW attempt \in Nat, Schedule(r, trigger, attempt)
    PROVE  /\ refresh' \in Refresh /\ refresh'.status = r.status
           /\ timer' = timer \/ (timer' \in Timer /\ timer' # Nothing)
           /\ attempt < MaxAttempts /\ r.status = "failed" => timer' # Nothing
           /\ \/ refresh' = r
              \/ refresh'.attempt = attempt /\ timer' # Nothing
<1> DEFINE armed == [trigger |-> trigger, attempt |-> attempt]
           next == [r EXCEPT !.trigger = trigger, !.attempt = attempt, !.retryAt = TRUE]
<1>1. armed \in Timer /\ armed # Nothing
  BY DEF Timer, NullAssumption, Triggers
<1>2. next \in Refresh /\ next.status = r.status /\ next.attempt = attempt
  BY DEF Refresh, Triggers
<1>3. MaxAttempts \in Nat
  BY DEF TokenRefreshAssumption
<1>4. IF attempt >= MaxAttempts \/ r.status # "failed"
      THEN refresh' = r /\ timer' = timer ELSE refresh' = next /\ timer' = armed
  BY DEF Schedule
<1> HIDE DEF armed, next
<1> QED
  BY <1>1, <1>2, <1>3, <1>4

LEMMA CallerIs ==
    ASSUME Shape, NEW c \in Callers, caller[c] # Nothing
    PROVE  /\ caller[c] \in Caller
           /\ caller[c].pc \in {"waiting", "resolved", "finishing", "reporting"}
           /\ caller[c].kind \in {"request", "manual", "scheduled", "retry"}
           /\ caller[c].trigger \in Triggers /\ caller[c].attempt \in Nat
           /\ caller[c].held \in Credentials /\ caller[c].epoch \in Nat
           /\ caller[c].result \in Results /\ caller[c].got \in Credentials
<1>1. caller[c] \in Caller
  BY DEF Shape, TypeOK
<1> QED
  BY <1>1 DEF Caller, Triggers

\* One caller's entry changes.
Enters(c, w) ==
    /\ caller' = [d \in Callers |-> caller'[d]]
    /\ caller'[c] = w
    /\ \A d \in Callers : d # c => caller'[d] = caller[d]

LEMMA EntersIs ==
    ASSUME Shape, NEW c \in Callers, NEW w, caller' = [caller EXCEPT ![c] = w]
    PROVE  Enters(c, w)
BY DEF Shape, Enters

LEMMA AwaitIs ==
    ASSUME Shape, NullAssumption, NEW c \in Callers,
           NEW kind \in {"request", "manual", "scheduled", "retry"},
           NEW trigger \in Triggers, NEW attempt \in Nat,
           credentials.refresh # NoToken, Await(c, kind, trigger, attempt)
    PROVE  /\ \E w \in Caller :
                /\ Enters(c, w) /\ w # Nothing /\ w.pc = "waiting" /\ w.kind = kind
                /\ w.held = credentials /\ w.epoch = credentialEpoch /\ w.attempt = attempt
           /\ fetch' \in Fetch /\ fetch' # Nothing
           /\ fetch # Nothing => fetch' = fetch
           /\ fetch = Nothing => fetch'.using = credentials.refresh
           /\ fetches' \in Nat
<1> DEFINE w == [pc |-> "waiting", kind |-> kind, trigger |-> trigger, attempt |-> attempt,
                 held |-> credentials, epoch |-> credentialEpoch,
                 result |-> "ok", got |-> credentials]
           begun == [using |-> credentials.refresh, id |-> fetches + 1]
<1>1. credentials \in Credentials /\ credentialEpoch \in Nat /\ fetches \in Nat
  BY DEF Shape, TypeOK
<1>2. /\ w \in Caller /\ w # Nothing /\ w.pc = "waiting" /\ w.kind = kind
      /\ w.held = credentials /\ w.epoch = credentialEpoch /\ w.attempt = attempt
  BY <1>1 DEF Caller, Results, Triggers, NullAssumption
<1>3. begun \in Fetch /\ begun.using = credentials.refresh
  BY <1>1 DEF Fetch, Credentials
<1>4. caller' = [caller EXCEPT ![c] = w]
  BY DEF Await
<1>5. /\ fetch' = (IF fetch = Nothing THEN begun ELSE fetch)
      /\ fetches' = (IF fetch = Nothing THEN fetches + 1 ELSE fetches)
  BY DEF Await
<1> HIDE DEF w, begun
<1>6. Enters(c, w)
  BY <1>4, EntersIs
<1>7. fetch = Nothing \/ fetch \in Fetch
  BY DEF Shape, TypeOK
<1>8. begun # Nothing
  BY <1>3 DEF NullAssumption
<1> QED
  BY <1>1, <1>2, <1>3, <1>5, <1>6, <1>7, <1>8

-----------------------------------------------------------------------------
(* What an action does to the callers and the stored tokens *)

\* A caller starts to wait, for the fetch in flight or for a new one, ...
Joins(c, kind) ==
    /\ Quiet /\ Idle(c)
    /\ credentials.refresh # NoToken
    /\ \E w \in Caller : /\ Enters(c, w) /\ w # Nothing /\ w.pc = "waiting" /\ w.kind = kind
                         /\ w.held = credentials /\ w.epoch = credentialEpoch
    /\ fetch' \in Fetch /\ fetch' # Nothing
    /\ fetch # Nothing => fetch' = fetch
    /\ fetch = Nothing => fetch'.using = credentials.refresh
    /\ UNCHANGED <<credentials, credentialEpoch, replacements, valid>>

\* ... is done without having stored anything, ...
Leaves(c) ==
    /\ \E w \in Caller \cup {Nothing} :
          Enters(c, w) /\ (w # Nothing => w.pc \in {"finishing", "reporting"})
    /\ ~ (At(c, "resolved") /\ caller[c].result = "ok") /\ ~ At(c, "waiting")
    /\ UNCHANGED <<credentials, credentialEpoch, fetch, replacements, valid>>

\* ... or nothing of this happens.
Rests == UNCHANGED <<credentials, credentialEpoch, fetch, caller, replacements, valid>>

LEMMA RestingKeepsTokens ==
    ASSUME TokensAreKept, Rests
    PROVE  TokensAreKept'
BY DEF TokensAreKept, Rests, HeldIsStored, FetchIsAwaited, AccountsAreNew, RotationIsKept,
       StoredIsRight, IsRight, AnswersAreRight, Updated, Pending, At, Current

LEMMA JoiningKeepsTokens ==
    ASSUME Shape, TokensAreKept, NEW c \in Callers, NEW kind, Joins(c, kind)
    PROVE  TokensAreKept'
<1>1. PICK w \in Caller : /\ Enters(c, w) /\ w # Nothing /\ w.pc = "waiting"
                         /\ w.held = credentials /\ w.epoch = credentialEpoch
  BY DEF Joins
<1>2. /\ caller'[c] = w
      /\ \A d \in Callers : d # c => caller'[d] = caller[d]
  BY <1>1 DEF Enters
<1>3. credentialEpoch \in Nat /\ credentials.refresh # NoToken
  BY DEF Shape, TypeOK, Joins
<1>4. UNCHANGED <<credentials, credentialEpoch, replacements, valid>>
  BY DEF Joins
<1>5. \A d \in Callers : ~ At(d, "resolved") /\ ~ At(d, "resolved")'
  BY <1>1, <1>2 DEF Joins, Quiet, At
<1>6. HeldIsStored'
  BY <1>1, <1>2, <1>3, <1>4 DEF TokensAreKept, HeldIsStored, Pending, At, Current
<1>7. FetchIsAwaited'
  <2>1. fetch'.using[1] <= replacements
    BY <1>3 DEF Joins, TokensAreKept, FetchIsAwaited, AccountsAreNew
  <2>2. At(c, "waiting")' /\ Current(c)'
    BY <1>1, <1>2, <1>4 DEF At, Current
  <2> QED
    BY <1>4, <1>5, <2>1, <2>2 DEF FetchIsAwaited
<1>8. AccountsAreNew'
  BY <1>4 DEF TokensAreKept, AccountsAreNew
<1>9. RotationIsKept'
  <2>1. StoredIsRight
    BY <1>5 DEF TokensAreKept, RotationIsKept
  <2> QED
    BY <1>4, <2>1 DEF RotationIsKept, StoredIsRight, IsRight
<1>10. AnswersAreRight'
  BY <1>5 DEF AnswersAreRight
<1> QED
  BY <1>6, <1>7, <1>8, <1>9, <1>10 DEF TokensAreKept

LEMMA LeavingKeepsTokens ==
    ASSUME Shape, TokensAreKept, NEW c \in Callers, Leaves(c)
    PROVE  TokensAreKept'
<1>1. /\ \A d \in Callers : d # c => caller'[d] = caller[d]
      /\ caller'[c] = Nothing \/ caller'[c].pc \in {"finishing", "reporting"}
  BY DEF Leaves, Enters
<1>2. UNCHANGED <<credentials, credentialEpoch, fetch, replacements, valid>>
  BY DEF Leaves
<1>3. /\ ~ At(c, "resolved")' /\ ~ At(c, "waiting")'
      /\ ~ (At(c, "resolved") /\ caller[c].result = "ok") /\ ~ At(c, "waiting")
  BY <1>1 DEF At, Leaves
<1>4. HeldIsStored'
  BY <1>1, <1>2, <1>3 DEF TokensAreKept, HeldIsStored, Pending, At, Current
<1>5. FetchIsAwaited'
  BY <1>1, <1>2, <1>3 DEF TokensAreKept, FetchIsAwaited, At, Current
<1>6. AccountsAreNew'
  BY <1>2 DEF TokensAreKept, AccountsAreNew
<1>7. RotationIsKept'
  BY <1>1, <1>2, <1>3 DEF TokensAreKept, RotationIsKept, StoredIsRight, IsRight, At, Current
<1>8. AnswersAreRight'
  BY <1>1, <1>2, <1>3 DEF TokensAreKept, AnswersAreRight, Updated, IsRight, At, Current
<1> QED
  BY <1>4, <1>5, <1>6, <1>7, <1>8 DEF TokensAreKept

\* The answer of the provider: it revokes the token in use when it rotates it,
\* and everybody who waits gets the new one.
LEMMA AnswerKeepsTokens ==
    ASSUME Shape, NullAssumption, TokensAreKept, NEW result \in Results,
           NEW rotates \in BOOLEAN, FetchDone(result, rotates)
    PROVE  /\ TokensAreKept' /\ Shape'
           /\ \A c \in Callers :
                IF At(c, "waiting")
                THEN /\ At(c, "resolved")' /\ caller'[c].kind = caller[c].kind
                     /\ caller'[c].epoch = caller[c].epoch
                     /\ caller'[c].attempt = caller[c].attempt
                ELSE caller'[c] = caller[c] /\ ~ At(c, "resolved")'
<1> DEFINE account == fetch.using[1]
           access == <<account, fetch.id>>
           issued == IF rotates THEN access ELSE NoToken
           got == [access |-> access, refresh |-> issued]
<1>1. /\ Quiet /\ fetch # Nothing /\ (rotates => result = "ok")
      /\ valid' = (IF rotates THEN [valid EXCEPT ![account] = fetch.id] ELSE valid)
      /\ fetch' = Nothing
      /\ caller' = [c \in Callers |->
                      IF At(c, "waiting")
                      THEN [caller[c] EXCEPT !.pc = "resolved", !.result = result, !.got = got]
                      ELSE caller[c]]
      /\ UNCHANGED <<credentials, credentialEpoch, replacements>>
  BY DEF FetchDone, tokens
<1>2. fetch \in Fetch /\ account \in Accounts /\ fetch.id \in Nat /\ account <= replacements
  BY <1>1 DEF Shape, TypeOK, Fetch, Token, TokensAreKept, FetchIsAwaited
<1>3. got \in Credentials /\ got.refresh = issued /\ access \in Token
  BY <1>2 DEF Credentials, Token
<1>4. issued # NoToken <=> rotates
  BY <1>3 DEF NullAssumption
<1>5. rotates => issued[1] = account /\ issued[2] = fetch.id /\ valid'[account] = fetch.id
                 /\ \A a \in Accounts : a # account => valid'[a] = valid[a]
  BY <1>1, <1>2 DEF Shape, TypeOK
<1>6. ~ rotates => valid' = valid
  BY <1>1
<1>7. valid' \in [Accounts -> Nat]
  BY <1>1, <1>2 DEF Shape, TypeOK
<1> HIDE DEF account, issued, access
<1>8. ASSUME NEW c \in Callers
      PROVE  IF At(c, "waiting")
             THEN /\ caller'[c] \in Caller /\ At(c, "resolved")'
                  /\ caller'[c].result = result /\ caller'[c].got = got
                  /\ caller'[c].held = caller[c].held /\ caller'[c].epoch = caller[c].epoch
                  /\ caller'[c].kind = caller[c].kind
                  /\ caller'[c].attempt = caller[c].attempt
             ELSE caller'[c] = caller[c] /\ ~ At(c, "resolved")'
  <2>1. CASE At(c, "waiting")
    <3>1. caller[c] \in Caller
      BY <2>1, CallerIs DEF At
    <3>2. caller'[c] = [caller[c] EXCEPT !.pc = "resolved", !.result = result, !.got = got]
      BY <1>1, <2>1
    <3> HIDE DEF got
    <3>3. /\ caller'[c] \in Caller
          /\ caller'[c].pc = "resolved" /\ caller'[c].result = result /\ caller'[c].got = got
          /\ caller'[c].held = caller[c].held /\ caller'[c].epoch = caller[c].epoch
          /\ caller'[c].kind = caller[c].kind /\ caller'[c].attempt = caller[c].attempt
      BY <1>3, <3>1, <3>2 DEF Caller
    <3>4. caller'[c] # Nothing
      BY <3>3 DEF NullAssumption
    <3> QED
      BY <2>1, <3>3, <3>4 DEF At
  <2>2. CASE ~ At(c, "waiting")
    BY <1>1, <2>2 DEF At, Quiet
  <2> QED
    BY <2>1, <2>2
<1>9. HeldIsStored'
  BY ZenonT(40), <1>1, <1>8 DEF TokensAreKept, HeldIsStored, Pending, Current, At
<1>10. FetchIsAwaited'
  BY <1>1 DEF FetchIsAwaited
<1>11. AccountsAreNew'
  <2>1. ASSUME NEW a \in Accounts, a > replacements
        PROVE  valid'[a] = 0
    <3>1. valid[a] = 0
      BY <2>1 DEF TokensAreKept, AccountsAreNew
    <3>2. a \in Int /\ replacements \in Int /\ account \in Int
      BY <1>2, <2>1 DEF Shape, TypeOK, Accounts
    <3>3. a # account
      BY <1>2, <2>1, <3>2
    <3> QED
      BY <1>5, <1>6, <2>1, <3>1, <3>3
  <2> QED
    BY <1>1, <2>1 DEF TokensAreKept, AccountsAreNew
<1>12. StoredIsRight
  BY <1>1 DEF TokensAreKept, RotationIsKept, FetchIsAwaited
<1>13. credentials.refresh # NoToken => credentials.refresh[1] \in Accounts
  BY DEF Shape, TypeOK, Credentials, Token
<1>14. RotationIsKept'
  <2>1. CASE rotates /\ credentials.refresh # NoToken /\ credentials.refresh[1] = account
    <3>1. PICK c \in Callers : At(c, "waiting") /\ Current(c)
      BY <1>1, <2>1 DEF TokensAreKept, FetchIsAwaited, account
    <3> QED
      BY <1>1, <1>8, <2>1, <3>1 DEF RotationIsKept, Current
  <2>2. CASE ~ (rotates /\ credentials.refresh # NoToken /\ credentials.refresh[1] = account)
    BY <1>1, <1>5, <1>6, <1>12, <1>13, <2>2 DEF RotationIsKept, StoredIsRight, IsRight
  <2> QED
    BY <2>1, <2>2
<1>15. AnswersAreRight'
  <2> SUFFICES ASSUME NEW c \in Callers, At(c, "resolved")'
               PROVE  /\ caller'[c].got.refresh # NoToken
                             => caller'[c].got.refresh[1] <= replacements
                      /\ caller'[c].result = "ok" /\ Current(c)'
                             => IsRight(Updated(caller[c]).refresh)'
    BY <1>1 DEF AnswersAreRight
  <2>1. /\ At(c, "waiting") /\ caller'[c].got = got /\ caller'[c].held = caller[c].held
        /\ caller'[c].epoch = caller[c].epoch
    BY <1>8
  <2>2. caller'[c].got.refresh = issued
    BY <1>3, <2>1
  <2>3. Updated(caller[c])'.refresh =
           IF rotates THEN issued ELSE caller[c].held.refresh
    BY <1>4, <2>1, <2>2 DEF Updated
  <2>4. CASE rotates
    BY <1>2, <1>4, <1>5, <2>2, <2>3, <2>4 DEF IsRight
  <2>5. CASE ~ rotates
    <3>1. Current(c)' => caller[c].held = credentials /\ credentials.refresh # NoToken
      BY <1>1, <2>1 DEF Current, TokensAreKept, HeldIsStored, Pending
    <3> QED
      BY <1>4, <1>6, <1>12, <2>2, <2>3, <2>5, <3>1 DEF IsRight, StoredIsRight
  <2> QED
    BY <2>4, <2>5
<1>16. Shape'
  <2>1. \A c \in Callers : caller'[c] = Nothing \/ caller'[c] \in Caller
    BY <1>8 DEF Shape, TypeOK
  <2>2. caller' = [c \in Callers |-> caller'[c]]
    BY <1>1
  <2>3. UNCHANGED <<refresh, timer, running, recovered, fetches, crashes, attempts>>
    BY DEF FetchDone, tokens
  <2> QED
    BY <1>1, <1>7, <2>1, <2>2, <2>3 DEF Shape, TypeOK
<1> QED
  BY <1>8, <1>9, <1>10, <1>11, <1>14, <1>15, <1>16 DEF TokensAreKept

\* A caller that resumes stores what it got if nobody stored anything since.
LEMMA UpdatedIs ==
    ASSUME Shape, NEW c \in Callers, Pending(c)
    PROVE  Updated(caller[c]) \in Credentials
<1>1. caller[c] \in Caller /\ caller[c].held \in Credentials /\ caller[c].got \in Credentials
  BY CallerIs DEF Pending, At
<1> QED
  BY <1>1 DEF Updated, Credentials

LEMMA ResumingKeepsTokens ==
    ASSUME Shape, NullAssumption, TokensAreKept, NEW c \in Callers, ResumeOk(c)
    PROVE  /\ TokensAreKept' /\ Shape'
           /\ \A d \in Callers : d # c => caller'[d] = caller[d]
           /\ caller'[c] # Nothing =>
                /\ ~ Pending(c)' /\ caller'[c].result = "ok"
                /\ caller'[c].kind = caller[c].kind /\ caller'[c].attempt = caller[c].attempt
           /\ Current(c) => refresh' = NoRefresh
           /\ \/ refresh' = NoRefresh
              \/ refresh' = refresh /\ credentialEpoch' = credentialEpoch
<1> DEFINE w == caller[c]
           stored == Updated(w)
           current == w.epoch = credentialEpoch
           accepted == current \/ credentials = stored
           next == IF w.kind = "request" THEN Nothing
                   ELSE IF accepted THEN [w EXCEPT !.pc = "finishing"]
                   ELSE IF w.kind = "scheduled" THEN [w EXCEPT !.pc = "reporting"]
                   ELSE Nothing
<1>1. /\ At(c, "resolved") /\ w.result = "ok"
      /\ credentials' = IF current THEN stored ELSE credentials
      /\ credentialEpoch' = IF current THEN credentialEpoch + 1 ELSE credentialEpoch
      /\ refresh' = IF accepted THEN NoRefresh ELSE refresh
      /\ caller' = [caller EXCEPT ![c] = next]
      /\ UNCHANGED <<fetch, timer, running, recovered, replacements, fetches, crashes, valid,
                     attempts>>
  BY DEF ResumeOk, ghosts
<1>2. w \in Caller /\ w.epoch \in Nat /\ stored \in Credentials
  BY <1>1, CallerIs, UpdatedIs DEF At, Pending
<1>3. /\ next = Nothing \/ (next \in Caller /\ next.pc \in {"finishing", "reporting"}
                             /\ next.result = "ok" /\ next.kind = w.kind
                             /\ next.attempt = w.attempt)
  BY <1>1, <1>2 DEF Caller
<1>4. credentialEpoch \in Nat /\ current = Current(c)
  BY DEF Shape, TypeOK, Current
<1> HIDE DEF next
<1>5. /\ Enters(c, next)
  BY <1>1, EntersIs
<1>6. /\ \A d \in Callers : d # c => caller'[d] = caller[d]
      /\ caller'[c] = next /\ caller' = [d \in Callers |-> caller'[d]]
      /\ ~ Pending(c)' /\ ~ At(c, "resolved")' /\ ~ At(c, "waiting")'
  BY <1>3, <1>5 DEF Enters, Pending, At
<1>7. fetch = Nothing
  BY <1>1 DEF TokensAreKept, FetchIsAwaited
<1>8. NoRefresh \in Refresh
  BY DEF NoRefresh, Refresh
<1>9. current => IsRight(stored.refresh) /\ stored.refresh[1] <= replacements
  <2> SUFFICES ASSUME current PROVE IsRight(stored.refresh) /\ stored.refresh[1] <= replacements
    OBVIOUS
  <2>1. IsRight(stored.refresh)
    BY <1>1, <1>4 DEF TokensAreKept, AnswersAreRight
  <2>2. stored.refresh = IF w.got.refresh = NoToken THEN credentials.refresh ELSE w.got.refresh
    BY <1>1, <1>4 DEF Updated, TokensAreKept, HeldIsStored, Pending
  <2>3. w.got.refresh # NoToken => w.got.refresh[1] <= replacements
    BY <1>1 DEF TokensAreKept, AnswersAreRight
  <2>4. credentials.refresh # NoToken => credentials.refresh[1] <= replacements
    BY DEF TokensAreKept, AccountsAreNew
  <2> QED
    BY <2>1, <2>2, <2>3, <2>4 DEF IsRight
<1> HIDE DEF stored
<1>10. HeldIsStored'
  <2> SUFFICES ASSUME NEW d \in Callers, Pending(d)'
               PROVE  /\ caller'[d].epoch <= credentialEpoch'
                      /\ caller'[d].held.refresh # NoToken
                      /\ Current(d)' => caller'[d].held = credentials'
    BY DEF HeldIsStored
  <2>1. d # c /\ Pending(d) /\ caller'[d] = caller[d]
    BY <1>6 DEF Pending, At
  <2>2. caller[d].epoch \in Nat
    BY <2>1, CallerIs DEF Pending, At
  <2>3. /\ caller[d].epoch <= credentialEpoch /\ caller[d].held.refresh # NoToken
        /\ Current(d) => caller[d].held = credentials
    BY <2>1 DEF TokensAreKept, HeldIsStored
  <2> QED
    BY <1>1, <1>4, <2>1, <2>2, <2>3 DEF Current
<1>11. FetchIsAwaited'
  BY <1>1, <1>7 DEF FetchIsAwaited
<1>12. AccountsAreNew'
  BY <1>1, <1>9 DEF TokensAreKept, AccountsAreNew
<1>13. RotationIsKept'
  <2>1. CASE current
    BY <1>1, <1>9, <2>1 DEF RotationIsKept, StoredIsRight, IsRight
  <2>2. CASE ~ current
    BY <1>1, <1>4, <1>6, <2>2
    DEF TokensAreKept, RotationIsKept, StoredIsRight, IsRight, At, Current
  <2> QED
    BY <2>1, <2>2
<1>14. AnswersAreRight'
  <2> SUFFICES ASSUME NEW d \in Callers, At(d, "resolved")'
               PROVE  /\ caller'[d].got.refresh # NoToken
                             => caller'[d].got.refresh[1] <= replacements
                      /\ caller'[d].result = "ok" /\ Current(d)'
                             => IsRight(Updated(caller[d]).refresh)'
    BY <1>1 DEF AnswersAreRight
  <2>1. d # c /\ At(d, "resolved") /\ caller'[d] = caller[d]
    BY <1>6 DEF At
  <2>2. caller[d].epoch \in Nat /\ caller[d].epoch <= credentialEpoch
    BY <2>1, CallerIs DEF Pending, At, TokensAreKept, HeldIsStored
  <2>3. Current(d)' => Current(d)
    BY <1>1, <1>4, <2>1, <2>2 DEF Current
  <2> QED
    BY <1>1, <2>1, <2>3 DEF TokensAreKept, AnswersAreRight, Updated, IsRight
<1>15. Shape'
  <2>1. \A d \in Callers : caller'[d] = Nothing \/ caller'[d] \in Caller
    BY <1>3, <1>6 DEF Shape, TypeOK
  <2>2. credentials' \in Credentials /\ credentialEpoch' \in Nat /\ refresh' \in Refresh
    BY <1>1, <1>2, <1>4, <1>8 DEF Shape, TypeOK
  <2> QED
    BY <1>1, <1>6, <2>1, <2>2 DEF Shape, TypeOK
<1>16. TokensAreKept'
  BY <1>10, <1>11, <1>12, <1>13, <1>14 DEF TokensAreKept
<1> QED
  BY <1>1, <1>3, <1>4, <1>6, <1>15, <1>16

LEMMA ReplacingKeepsTokens ==
    ASSUME TokenRefreshAssumption, NullAssumption, Shape, TokensAreKept, Replace
    PROVE  TokensAreKept' /\ Shape'
<1> DEFINE n == replacements + 1
           entered == <<n, 0>>
<1>1. /\ Quiet /\ replacements < MaxReplacements /\ replacements' = n
      /\ credentialEpoch' = credentialEpoch + 1 /\ refresh' = NoRefresh
      /\ UNCHANGED <<fetch, caller, timer, running, recovered, fetches, crashes, valid,
                     attempts>>
  BY DEF Replace, ghosts
<1>2. PICK token \in {entered, NoToken} :
         credentials' = [access |-> entered, refresh |-> token]
  BY DEF Replace
<1>3. /\ replacements \in Nat /\ MaxReplacements \in Nat /\ credentialEpoch \in Nat
      /\ n \in Accounts /\ n \in Nat /\ n > replacements
  BY <1>1 DEF Shape, TypeOK, TokenRefreshAssumption, Accounts
<1>4. entered \in Token /\ entered[1] = n /\ entered[2] = 0 /\ entered # NoToken
  BY <1>3 DEF Token, NullAssumption
<1>5. valid[n] = 0
  BY <1>3 DEF TokensAreKept, AccountsAreNew
<1> HIDE DEF entered, n
<1>6. /\ credentials' \in Credentials
      /\ credentials'.access = entered /\ credentials'.refresh = token
  BY <1>2, <1>4 DEF Credentials
<1>7. \A c \in Callers : Pending(c) => caller[c].epoch \in Nat
                                      /\ caller[c].epoch <= credentialEpoch
                                      /\ caller[c].held.refresh # NoToken
  BY CallerIs DEF Pending, At, TokensAreKept, HeldIsStored
<1>8. HeldIsStored'
  BY <1>1, <1>3, <1>7 DEF HeldIsStored, Pending, At, Current
<1>9. FetchIsAwaited'
  <2>1. fetch # Nothing => fetch.using[1] \in Nat /\ fetch.using[1] <= replacements
    BY DEF Shape, TypeOK, Fetch, Token, Accounts, TokensAreKept, FetchIsAwaited
  <2> QED
    BY <1>1, <1>2, <1>3, <1>4, <1>6, <2>1 DEF FetchIsAwaited, TokensAreKept, At
<1>10. AccountsAreNew'
  BY <1>1, <1>2, <1>3, <1>4, <1>6 DEF TokensAreKept, AccountsAreNew, Accounts
<1>11. RotationIsKept'
  BY <1>1, <1>2, <1>4, <1>5, <1>6 DEF RotationIsKept, StoredIsRight, IsRight
<1>12. AnswersAreRight'
  BY <1>1 DEF AnswersAreRight, Quiet, At
<1>13. NoRefresh \in Refresh
  BY DEF NoRefresh, Refresh
<1>14. Shape'
  BY <1>1, <1>3, <1>6, <1>13 DEF Shape, TypeOK
<1> QED
  BY <1>8, <1>9, <1>10, <1>11, <1>12, <1>14 DEF TokensAreKept

LEMMA CrashKeepsTokens ==
    ASSUME Shape, TokensAreKept, Crash
    PROVE  TokensAreKept' /\ Shape'
<1>1. /\ Quiet /\ fetch' = Nothing /\ caller' = [c \in Callers |-> Nothing]
      /\ timer' = Nothing /\ running' = FALSE /\ recovered' = FALSE /\ crashes' = crashes + 1
      /\ UNCHANGED <<credentials, credentialEpoch, refresh, replacements, fetches, valid,
                     attempts>>
  BY DEF Crash, ghosts, tokens
<1>2. \A c \in Callers : caller'[c] = Nothing
  BY <1>1
<1>3. StoredIsRight
  BY <1>1 DEF TokensAreKept, RotationIsKept, Quiet
<1>4. TokensAreKept'
  BY <1>1, <1>2, <1>3 DEF TokensAreKept, HeldIsStored, FetchIsAwaited, AccountsAreNew,
     RotationIsKept, StoredIsRight, IsRight, AnswersAreRight, Pending, At
<1>5. crashes \in Nat /\ crashes' \in Nat /\ caller' = [c \in Callers |-> caller'[c]]
  BY <1>1 DEF Shape, TypeOK
<1>6. Shape'
  BY <1>1, <1>2, <1>5 DEF Shape, TypeOK
<1> QED
  BY <1>4, <1>6

-----------------------------------------------------------------------------
(* The record of the refresh *)

\* What an action that stores no token may do to it.
LEMMA OwnerStays ==
    ASSUME RefreshIsOwned, UNCHANGED <<crashes, credentialEpoch>>,
           refresh'.status = "refreshing" =>
               refresh.status = "refreshing"
                 /\ \A c \in Callers : Pending(c) => caller'[c] = caller[c]
    PROVE  RefreshIsOwned'
BY DEF RefreshIsOwned, Pending, At, Current

LEMMA RefreshTokenIs ==
    ASSUME TokenRefreshAssumption, NullAssumption, Shape, RefreshIsOwned, Quiet,
           NEW c \in Callers, Idle(c),
           NEW kind \in {"manual", "scheduled", "retry"}, NEW trigger \in Triggers,
           NEW attempt \in Nat, RefreshToken(c, kind, trigger, attempt)
    PROVE  /\ Joins(c, kind) \/ Rests
           /\ fetch' = Nothing \/ fetch' \in Fetch
           /\ caller' = [d \in Callers |-> caller'[d]]
           /\ \A d \in Callers : caller'[d] = Nothing \/ caller'[d] \in Caller
           /\ \A d \in Callers : ~ At(d, "finishing")'
           /\ {fetches', crashes'} \subseteq Nat
           /\ refresh' \in Refresh /\ refresh'.status \notin {"failed"} /\ ~ refresh'.retryAt
           /\ crashes' = crashes
           /\ \A d \in Callers : caller'[d] # caller[d] =>
                caller'[d].kind = kind /\ caller'[d].attempt = attempt
           /\ RefreshIsOwned'
<1>1. UNCHANGED <<credentials, credentialEpoch, replacements, crashes, valid>>
  BY DEF RefreshToken
<1>2. CASE credentials.refresh = NoToken
  <2>1. refresh' = State("reauth_required", trigger, 0) /\ UNCHANGED <<fetch, fetches, caller>>
    BY <1>2 DEF RefreshToken
  <2>2. refresh' \in Refresh /\ refresh'.status = "reauth_required" /\ ~ refresh'.retryAt
    <3>1. 0 \in Nat
      OBVIOUS
    <3> QED
      BY <2>1, <3>1, StateIs
  <2>3. Rests
    BY <1>1, <2>1 DEF Rests
  <2>4. RefreshIsOwned'
    BY <2>2 DEF RefreshIsOwned
  <2>5. \A d \in Callers : ~ At(d, "finishing")' /\ caller'[d] = caller[d]
    BY <2>1 DEF Quiet, At
  <2>6. {fetches', crashes'} \subseteq Nat
    BY <1>1, <2>1 DEF Shape, TypeOK
  <2> QED
    BY <1>1, <2>1, <2>2, <2>3, <2>4, <2>5, <2>6 DEF Shape, TypeOK
<1>3. CASE credentials.refresh # NoToken
  <2>1. refresh' = State("refreshing", trigger, 0) /\ Await(c, kind, trigger, attempt)
    BY <1>3 DEF RefreshToken
  <2>2. refresh' \in Refresh /\ refresh'.status = "refreshing" /\ ~ refresh'.retryAt
    <3>1. 0 \in Nat
      OBVIOUS
    <3> QED
      BY <2>1, <3>1, StateIs
  <2>3. PICK w \in Caller :
             /\ Enters(c, w) /\ w # Nothing /\ w.pc = "waiting" /\ w.kind = kind
             /\ w.held = credentials /\ w.epoch = credentialEpoch /\ w.attempt = attempt
    BY <1>3, <2>1, AwaitIs
  <2>4. /\ fetch' \in Fetch /\ fetch' # Nothing
        /\ fetch # Nothing => fetch' = fetch
        /\ fetch = Nothing => fetch'.using = credentials.refresh
        /\ fetches' \in Nat
    BY <1>3, <2>1, AwaitIs
  <2>5. Joins(c, kind)
    BY <1>1, <1>3, <2>3, <2>4 DEF Joins
  <2>6. /\ caller' = [d \in Callers |-> caller'[d]]
        /\ \A d \in Callers : caller'[d] = Nothing \/ caller'[d] \in Caller
        /\ \A d \in Callers : ~ At(d, "finishing")'
        /\ Pending(c)' /\ caller'[c].kind = kind /\ Current(c)'
    BY <1>1, <2>3 DEF Enters, Shape, TypeOK, Quiet, At, Pending, Current
  <2>9. \A d \in Callers : caller'[d] # caller[d] =>
                caller'[d].kind = kind /\ caller'[d].attempt = attempt
    BY <2>3 DEF Enters
  <2>7. RefreshIsOwned'
    BY <2>6 DEF RefreshIsOwned
  <2>8. {fetches', crashes'} \subseteq Nat
    BY <1>1, <2>4 DEF Shape, TypeOK
  <2> QED
    BY <1>1, <2>2, <2>4, <2>5, <2>6, <2>7, <2>8, <2>9
<1> QED
  BY <1>2, <1>3

\* An action that ends in refreshProviderToken(), by the parts it adds.
LEMMA RefreshTokenKeeps ==
    ASSUME TokenRefreshAssumption, NullAssumption, IInv, Quiet, NEW c \in Callers, Idle(c),
           NEW kind \in {"manual", "scheduled", "retry"}, NEW trigger \in Triggers,
           NEW attempt \in Nat, kind = "retry" => attempt > 0,
           RefreshToken(c, kind, trigger, attempt),
           timer' = Nothing \/ timer' \in Timer,
           running' \in BOOLEAN, recovered' = recovered \/ recovered' = TRUE,
           attempts' \in Nat
    PROVE  IInv'
<1>0. Shape /\ TokensAreKept /\ RefreshIsOwned /\ RetryIsArmed
  BY DEF IInv
<1>1. /\ Joins(c, kind) \/ Rests
      /\ fetch' = Nothing \/ fetch' \in Fetch
      /\ caller' = [d \in Callers |-> caller'[d]]
      /\ \A d \in Callers : caller'[d] = Nothing \/ caller'[d] \in Caller
      /\ \A d \in Callers : ~ At(d, "finishing")'
      /\ {fetches', crashes'} \subseteq Nat
      /\ refresh' \in Refresh /\ refresh'.status \notin {"failed"} /\ ~ refresh'.retryAt
      /\ crashes' = crashes
      /\ \A d \in Callers : caller'[d] # caller[d] =>
                caller'[d].kind = kind /\ caller'[d].attempt = attempt
      /\ RefreshIsOwned'
  BY <1>0, RefreshTokenIs
<1>2. UNCHANGED <<credentials, credentialEpoch, replacements, valid>>
  BY DEF RefreshToken
<1>3. TokensAreKept'
  BY <1>0, <1>1, JoiningKeepsTokens, RestingKeepsTokens
<1>4. recovered' \in BOOLEAN
  BY <1>0 DEF Shape, TypeOK
<1>5. Shape'
  BY <1>0, <1>1, <1>2, <1>4 DEF Shape, TypeOK
<1>6. RetryIsArmed'
  BY <1>0, <1>1 DEF RetryIsArmed, RetriesAreCounted
<1> QED
  BY <1>1, <1>3, <1>5, <1>6 DEF IInv

LEMMA RequestKeeps ==
    ASSUME TokenRefreshAssumption, NullAssumption, IInv, NEW c \in Callers, Request(c)
    PROVE  IInv'
<1>0. /\ Shape /\ TokensAreKept /\ RefreshIsOwned /\ RetryIsArmed /\ Quiet
      /\ UNCHANGED <<credentials, credentialEpoch, running, recovered, replacements, crashes,
                     valid>>
  BY DEF IInv, Request
<1>1. CASE credentials.refresh = NoToken
  <2> DEFINE record == State("reauth_required", "runtime", 0)
  <2>1. /\ Schedule(record, "runtime", 1)
        /\ UNCHANGED <<fetch, fetches, caller, attempts>>
    BY <1>1 DEF Request, RecordFailure
  <2>2. record \in Refresh /\ record.status = "reauth_required" /\ ~ record.retryAt
    BY StateIs DEF Triggers
  <2> HIDE DEF record
  <2>3. /\ refresh' = record /\ timer' = timer
    BY <2>1, <2>2 DEF Schedule
  <2>4. TokensAreKept'
    BY <1>0, <2>1, RestingKeepsTokens DEF Rests
  <2>5. Shape'
    BY <1>0, <2>1, <2>2, <2>3 DEF Shape, TypeOK
  <2>6. RefreshIsOwned'
    BY <2>2, <2>3 DEF RefreshIsOwned
  <2>7. RetryIsArmed'
    BY <1>0, <2>1, <2>2, <2>3 DEF RetryIsArmed, RetriesAreCounted, At
  <2> QED
    BY <2>4, <2>5, <2>6, <2>7 DEF IInv
<1>2. CASE credentials.refresh # NoToken
  <2>1. /\ Idle(c) /\ Await(c, "request", "runtime", 0) /\ attempts' = 1
        /\ UNCHANGED <<refresh, timer>>
    BY <1>2 DEF Request
  <2>2. PICK w \in Caller :
             /\ Enters(c, w) /\ w # Nothing /\ w.pc = "waiting" /\ w.kind = "request"
             /\ w.held = credentials /\ w.epoch = credentialEpoch
    BY <1>0, <1>2, <2>1, AwaitIs DEF Triggers
  <2>3. /\ fetch' \in Fetch /\ fetch' # Nothing
        /\ fetch # Nothing => fetch' = fetch
        /\ fetch = Nothing => fetch'.using = credentials.refresh
        /\ fetches' \in Nat
    BY <1>0, <1>2, <2>1, AwaitIs DEF Triggers
  <2>4. Joins(c, "request")
    BY <1>0, <1>2, <2>1, <2>2, <2>3 DEF Joins
  <2>5. TokensAreKept'
    BY <1>0, <2>4, JoiningKeepsTokens
  <2>6. /\ caller' = [d \in Callers |-> caller'[d]]
        /\ \A d \in Callers : d # c => caller'[d] = caller[d]
        /\ caller'[c] \in Caller /\ ~ Pending(c) /\ ~ At(c, "finishing")'
        /\ caller'[c].kind = "request"
    BY <2>1, <2>2 DEF Enters, Pending, At, Idle
  <2>7. Shape'
    BY <1>0, <2>1, <2>3, <2>6 DEF Shape, TypeOK
  <2>8. RefreshIsOwned'
    BY <1>0, <2>1, <2>6, OwnerStays
  <2>9. RetryIsArmed'
    BY <1>0, <2>1, <2>6 DEF RetryIsArmed, RetriesAreCounted, At
  <2> QED
    BY <2>5, <2>7, <2>8, <2>9 DEF IInv
<1> QED
  BY <1>1, <1>2

LEMMA ManualKeeps ==
    ASSUME TokenRefreshAssumption, NullAssumption, IInv, NEW c \in Callers, Manual(c)
    PROVE  IInv'
<1>1. /\ Quiet /\ Idle(c) /\ RefreshToken(c, "manual", "manual", 0) /\ attempts' \in Nat
      /\ UNCHANGED <<timer, running, recovered>>
  BY DEF Manual
<1>2. (timer = Nothing \/ timer \in Timer) /\ running \in BOOLEAN
  BY DEF IInv, Shape, TypeOK
<1> QED
  BY <1>1, <1>2, RefreshTokenKeeps DEF Triggers

LEMMA RunKeeps ==
    ASSUME TokenRefreshAssumption, NullAssumption, IInv, NEW c \in Callers, Run(c)
    PROVE  IInv'
<1>1. /\ Quiet /\ Idle(c) /\ RefreshToken(c, "scheduled", "scheduled", 0) /\ attempts' \in Nat
      /\ timer' = timer /\ running' \in BOOLEAN /\ recovered' = TRUE
  BY DEF Run
<1>2. timer = Nothing \/ timer \in Timer
  BY DEF IInv, Shape, TypeOK
<1> QED
  BY <1>1, <1>2, RefreshTokenKeeps DEF Triggers

LEMMA RunAfterFailureKeeps ==
    ASSUME TokenRefreshAssumption, NullAssumption, IInv, NEW c \in Callers, RunAfterFailure(c)
    PROVE  IInv'
<1> DEFINE asked == refresh.attempt > 0 /\ refresh.retryAt /\ refresh.attempt < MaxAttempts
           armed == [trigger |-> refresh.trigger, attempt |-> refresh.attempt]
<1>1. /\ Quiet /\ Idle(c) /\ refresh.status = "failed" /\ recovered' = TRUE
      /\ timer' = (IF asked THEN armed ELSE timer)
  BY DEF RunAfterFailure
<1>2. /\ Shape /\ TokensAreKept /\ RefreshIsOwned /\ RetryIsArmed
      /\ refresh \in Refresh /\ (timer = Nothing \/ timer \in Timer)
  BY DEF IInv, Shape, TypeOK
<1>3. armed \in Timer /\ armed # Nothing
  BY <1>2 DEF Refresh, Timer, NullAssumption
<1> HIDE DEF armed
<1>4. timer' = Nothing \/ timer' \in Timer
  BY <1>1, <1>2, <1>3
<1>5. CASE /\ RefreshToken(c, "scheduled", "scheduled", 0)
           /\ running' = (credentials.refresh # NoToken) /\ attempts' = 1
  BY <1>1, <1>4, <1>5, RefreshTokenKeeps DEF Triggers
<1>6. CASE UNCHANGED <<tokens, fetch, fetches, caller, running, replacements, crashes, ghosts>>
  <2>1. TokensAreKept'
    BY <1>2, <1>6, RestingKeepsTokens DEF Rests, tokens, ghosts
  <2>2. Shape'
    BY <1>1, <1>2, <1>4, <1>6 DEF Shape, TypeOK, tokens, ghosts
  <2>3. RefreshIsOwned'
    BY <1>2, <1>6, OwnerStays DEF tokens
  <2>4. refresh.attempt \in Nat /\ MaxAttempts \in Nat
    BY <1>2 DEF Refresh, TokenRefreshAssumption
  <2>5. RetryIsArmed'
    BY <1>1, <1>2, <1>3, <1>6, <2>4 DEF RetryIsArmed, RetriesAreCounted, tokens, At
  <2> QED
    BY <2>1, <2>2, <2>3, <2>5 DEF IInv
<1> QED
  BY <1>5, <1>6 DEF RunAfterFailure

LEMMA RetryKeeps ==
    ASSUME TokenRefreshAssumption, NullAssumption, IInv, NEW c \in Callers, Retry(c)
    PROVE  IInv'
<1>1. /\ Quiet /\ Idle(c) /\ timer # Nothing /\ timer' = Nothing
      /\ UNCHANGED <<running, recovered>>
  BY DEF Retry
<1>2. /\ Shape /\ TokensAreKept /\ RefreshIsOwned /\ RetryIsArmed
      /\ timer \in Timer /\ running \in BOOLEAN /\ attempts \in Nat
  BY <1>1 DEF IInv, Shape, TypeOK
<1>3. CASE refresh.status = "failed"
  <2>1. /\ RefreshToken(c, "retry", timer.trigger, timer.attempt + 1)
        /\ attempts' = attempts + 1
    BY <1>3 DEF Retry
  <2>2. timer.trigger \in Triggers /\ timer.attempt + 1 \in Nat /\ timer.attempt + 1 > 0
    BY <1>2 DEF Timer, Triggers
  <2> QED
    BY <1>1, <1>2, <2>1, <2>2, RefreshTokenKeeps
<1>4. CASE refresh.status # "failed"
  <2>1. UNCHANGED <<tokens, fetch, fetches, caller, replacements, crashes, ghosts>>
    BY <1>4 DEF Retry
  <2>2. TokensAreKept'
    BY <1>2, <2>1, RestingKeepsTokens DEF Rests, tokens, ghosts
  <2>3. Shape'
    BY <1>1, <1>2, <2>1 DEF Shape, TypeOK, tokens, ghosts
  <2>4. RefreshIsOwned'
    BY <1>2, <2>1, OwnerStays DEF tokens
  <2>5. RetryIsArmed'
    BY <1>1, <1>2, <1>4, <2>1 DEF RetryIsArmed, RetriesAreCounted, tokens, At, Quiet
  <2> QED
    BY <2>2, <2>3, <2>4, <2>5 DEF IInv
<1> QED
  BY <1>3, <1>4

LEMMA FetchDoneKeeps ==
    ASSUME NullAssumption, IInv, NEW result \in Results, NEW rotates \in BOOLEAN,
           FetchDone(result, rotates)
    PROVE  IInv'
<1>1. /\ Quiet /\ UNCHANGED <<credentialEpoch, refresh, timer, recovered, crashes>>
  BY DEF FetchDone, tokens
<1>2. Shape /\ TokensAreKept /\ RefreshIsOwned /\ RetryIsArmed
  BY DEF IInv
<1>3. /\ TokensAreKept' /\ Shape'
      /\ \A c \in Callers :
           IF At(c, "waiting")
           THEN /\ At(c, "resolved")' /\ caller'[c].kind = caller[c].kind
                /\ caller'[c].epoch = caller[c].epoch
                /\ caller'[c].attempt = caller[c].attempt
           ELSE caller'[c] = caller[c] /\ ~ At(c, "resolved")'
  BY <1>2, AnswerKeepsTokens
<1>4. \A c \in Callers : /\ Pending(c) => At(c, "waiting")
                        /\ ~ At(c, "finishing")'
  BY <1>1, <1>3 DEF Quiet, Pending, At
<1>5. RefreshIsOwned'
  BY <1>1, <1>2, <1>3, <1>4 DEF RefreshIsOwned, Pending, Current
<1>6. RetryIsArmed'
  BY <1>1, <1>2, <1>3, <1>4 DEF RetryIsArmed, RetriesAreCounted, At
<1> QED
  BY <1>3, <1>5, <1>6 DEF IInv

LEMMA ResumeFailedKeeps ==
    ASSUME TokenRefreshAssumption, NullAssumption, IInv, NEW c \in Callers, ResumeFailed(c)
    PROVE  IInv'
<1> DEFINE result == caller[c].result
           record == State(result, "runtime", 0)
           next == IF caller[c].kind = "request" THEN Nothing
                   ELSE [caller[c] EXCEPT !.pc = "finishing", !.result = result]
<1>1. /\ At(c, "resolved") /\ result # "ok"
      /\ Schedule(record, "runtime", 1)
      /\ caller' = [caller EXCEPT ![c] = next]
      /\ UNCHANGED <<credentials, credentialEpoch, fetch, running, recovered, replacements,
                     fetches, crashes, valid, attempts>>
  BY DEF ResumeFailed, RecordFailure, Continue
<1>2. /\ Shape /\ TokensAreKept /\ RefreshIsOwned /\ RetryIsArmed
      /\ (timer = Nothing \/ timer \in Timer)
  BY DEF IInv, Shape, TypeOK
<1>3. caller[c] \in Caller /\ result \in {"failed", "reauth_required"}
  BY <1>1, <1>2, CallerIs DEF At, Results
<1>4. record \in Refresh /\ record.status = result /\ record.attempt = 0 /\ ~ record.retryAt
  BY <1>3, StateIs DEF Triggers
<1>5. /\ next = Nothing
        \/ (next \in Caller /\ next.pc = "finishing" /\ next.result = result
             /\ next.kind = caller[c].kind /\ next.attempt = caller[c].attempt)
  BY <1>3 DEF Caller, Results
<1>6. MaxAttempts \in Nat /\ 1 < MaxAttempts /\ "runtime" \in Triggers /\ 1 \in Nat
  BY DEF TokenRefreshAssumption, Triggers
<1> HIDE DEF record, next
<1>7. /\ refresh' \in Refresh /\ refresh'.status = record.status
      /\ timer' = timer \/ (timer' \in Timer /\ timer' # Nothing)
      /\ record.status = "failed" => timer' # Nothing
      /\ refresh' = record \/ refresh'.attempt = 1
  BY <1>1, <1>4, <1>6, ScheduleIs
<1>8. Enters(c, next)
  BY <1>1, <1>2, EntersIs
<1>9. Leaves(c)
  BY <1>1, <1>5, <1>8 DEF Leaves, At
<1>10. TokensAreKept'
  BY <1>2, <1>9, LeavingKeepsTokens
<1>11. /\ caller' = [d \in Callers |-> caller'[d]] /\ caller'[c] = next
       /\ \A d \in Callers : d # c => caller'[d] = caller[d]
  BY <1>8 DEF Enters
<1>12. Shape'
  BY <1>1, <1>2, <1>5, <1>7, <1>11 DEF Shape, TypeOK
<1>13. RefreshIsOwned'
  BY <1>3, <1>4, <1>7 DEF RefreshIsOwned
<1>14. RetryIsArmed'
  <2>1. refresh'.status = "failed" => timer' # Nothing
    BY <1>4, <1>7
  <2>2. refresh'.retryAt => refresh'.attempt > 0
    BY <1>4, <1>7
  <2>3. \A d \in Callers : At(d, "finishing")' /\ caller'[d].result = "failed" => timer' # Nothing
    BY <1>2, <1>4, <1>5, <1>7, <1>11 DEF At, RetryIsArmed
  <2>4. RetriesAreCounted'
    BY <1>1, <1>2, <1>5, <1>11 DEF RetryIsArmed, RetriesAreCounted, At
  <2> QED
    BY <1>1, <1>2, <2>1, <2>2, <2>3, <2>4 DEF RetryIsArmed
<1> QED
  BY <1>10, <1>12, <1>13, <1>14 DEF IInv

LEMMA ResumeOkKeeps ==
    ASSUME NullAssumption, IInv, NEW c \in Callers, ResumeOk(c)
    PROVE  IInv'
<1>1. Shape /\ TokensAreKept /\ RefreshIsOwned /\ RetryIsArmed
  BY DEF IInv
<1>2. /\ TokensAreKept' /\ Shape'
      /\ \A d \in Callers : d # c => caller'[d] = caller[d]
      /\ caller'[c] # Nothing =>
           /\ ~ Pending(c)' /\ caller'[c].result = "ok"
           /\ caller'[c].kind = caller[c].kind /\ caller'[c].attempt = caller[c].attempt
      /\ Current(c) => refresh' = NoRefresh
      /\ \/ refresh' = NoRefresh
         \/ refresh' = refresh /\ credentialEpoch' = credentialEpoch
  BY <1>1, ResumingKeepsTokens
<1>3. UNCHANGED <<timer, recovered, crashes>> /\ At(c, "resolved")
  BY DEF ResumeOk
<1>4. NoRefresh.status = "none" /\ ~ NoRefresh.retryAt
  BY DEF NoRefresh
<1>5. RefreshIsOwned'
  BY <1>1, <1>2, <1>3, <1>4 DEF RefreshIsOwned, Pending, At, Current
<1>6. RetryIsArmed'
  BY <1>1, <1>2, <1>3, <1>4 DEF RetryIsArmed, RetriesAreCounted, At
<1> QED
  BY <1>2, <1>5, <1>6 DEF IInv

LEMMA FinishKeeps ==
    ASSUME TokenRefreshAssumption, NullAssumption, IInv, NEW c \in Callers, Finish(c)
    PROVE  IInv'
<1> DEFINE w == caller[c]
           status == IF w.result = "ok" THEN "succeeded" ELSE w.result
           attempt == IF w.result = "failed" THEN w.attempt ELSE 0
           done == State(status, w.trigger, attempt)
           reported == [w EXCEPT !.pc = "reporting"]
<1>1. /\ At(c, "finishing")
      /\ UNCHANGED <<credentials, credentialEpoch, fetch, running, recovered, replacements,
                     fetches, crashes, valid, attempts>>
  BY DEF Finish, ghosts
<1>2. /\ Shape /\ TokensAreKept /\ RefreshIsOwned /\ RetryIsArmed
      /\ (timer = Nothing \/ timer \in Timer) /\ caller \in [Callers -> Caller \cup {Nothing}]
  BY DEF IInv, Shape, TypeOK
<1>3. /\ w \in Caller /\ w.trigger \in Triggers /\ w.attempt \in Nat /\ w.result \in Results
      /\ w # Nothing
  BY <1>1, <1>2, CallerIs DEF At
<1>4. status \in {"failed", "succeeded", "reauth_required"} /\ attempt \in Nat
  BY <1>3 DEF Results
<1>5. /\ done \in Refresh /\ done.status = status /\ done.attempt = attempt /\ ~ done.retryAt
  BY <1>3, <1>4, StateIs
<1>6. reported \in Caller /\ reported.pc = "reporting" /\ reported.kind = w.kind
  BY <1>3 DEF Caller
<1>7. /\ MaxAttempts \in Nat /\ 1 < MaxAttempts /\ "manual" \in Triggers /\ 1 \in Nat
  BY DEF TokenRefreshAssumption, Triggers
<1>8. status = "failed" => w.result = "failed" /\ attempt = w.attempt /\ timer # Nothing
  BY <1>1, <1>2, <1>3 DEF RetryIsArmed, Results
<1>9. /\ refresh' \in Refresh /\ refresh'.status = status
      /\ refresh'.retryAt => refresh'.attempt > 0
      /\ timer' = timer \/ (timer' \in Timer /\ timer' # Nothing)
      /\ \E next \in Caller \cup {Nothing} :
            /\ caller' = [caller EXCEPT ![c] = next]
            /\ next # Nothing => next.pc = "reporting" /\ next.kind = "scheduled"
  <2>1. CASE w.kind = "retry" /\ Schedule(done, w.trigger, w.attempt)
             /\ caller' = [caller EXCEPT ![c] = Nothing]
    <3> HIDE DEF done
    <3>1. /\ refresh' \in Refresh /\ refresh'.status = done.status
          /\ timer' = timer \/ (timer' \in Timer /\ timer' # Nothing)
          /\ refresh' = done \/ (refresh'.attempt = w.attempt /\ timer' # Nothing)
      BY <1>3, <1>5, <2>1, ScheduleIs
    <3>2. w.attempt > 0
      BY <1>2, <1>3, <2>1 DEF RetryIsArmed, RetriesAreCounted
    <3> QED
      BY <1>5, <2>1, <3>1, <3>2
  <2>2. CASE w.kind = "manual" /\ Schedule(done, "manual", 1)
             /\ caller' = [caller EXCEPT ![c] = Nothing]
    <3> HIDE DEF done
    <3>1. /\ refresh' \in Refresh /\ refresh'.status = done.status
          /\ timer' = timer \/ (timer' \in Timer /\ timer' # Nothing)
          /\ refresh' = done \/ (refresh'.attempt = 1 /\ timer' # Nothing)
      BY <1>5, <1>7, <2>2, ScheduleIs
    <3>2. refresh'.retryAt => refresh'.attempt > 0
      BY <1>5, <3>1
    <3> QED
      BY <1>5, <2>2, <3>1, <3>2
  <2>3. CASE w.kind = "scheduled" /\ refresh' = done /\ UNCHANGED timer
             /\ caller' = [caller EXCEPT ![c].pc = "reporting"]
    <3>1. caller' = [caller EXCEPT ![c] = reported]
      BY <2>3
    <3> HIDE DEF done, reported
    <3> QED
      BY <1>5, <1>6, <2>3, <3>1
  <2> QED
    BY <2>1, <2>2, <2>3 DEF Finish
<1> HIDE DEF status, attempt, done, reported
<1>10. PICK next \in Caller \cup {Nothing} :
            /\ caller' = [caller EXCEPT ![c] = next]
            /\ next # Nothing => next.pc = "reporting" /\ next.kind = "scheduled"
  BY <1>9
<1>11. Enters(c, next)
  BY <1>2, <1>10, EntersIs
<1>12. ~ Pending(c) /\ Leaves(c)
  BY <1>1, <1>10, <1>11 DEF Leaves, At, Pending
<1>13. TokensAreKept'
  BY <1>2, <1>12, LeavingKeepsTokens
<1>14. /\ caller' = [d \in Callers |-> caller'[d]] /\ caller'[c] = next
       /\ \A d \in Callers : d # c => caller'[d] = caller[d]
  BY <1>11 DEF Enters
<1>15. Shape'
  BY <1>1, <1>2, <1>9, <1>10, <1>14 DEF Shape, TypeOK
<1>16. RefreshIsOwned'
  BY <1>4, <1>9 DEF RefreshIsOwned
<1>17. RetryIsArmed'
  <2>1. timer # Nothing => timer' # Nothing
    BY <1>9
  <2>2. refresh'.status = "failed" => timer' # Nothing
    BY <1>8, <1>9, <2>1
  <2>3. \A d \in Callers : At(d, "finishing")' /\ caller'[d].result = "failed" => timer' # Nothing
    BY <1>2, <1>10, <1>14, <2>1 DEF At, RetryIsArmed
  <2>4. RetriesAreCounted'
    BY <1>2, <1>10, <1>14 DEF RetryIsArmed, RetriesAreCounted
  <2> QED
    BY <1>1, <1>2, <1>9, <2>2, <2>3, <2>4 DEF RetryIsArmed
<1> QED
  BY <1>13, <1>15, <1>16, <1>17 DEF IInv

LEMMA RunDoneKeeps ==
    ASSUME TokenRefreshAssumption, NullAssumption, IInv, NEW c \in Callers, RunDone(c)
    PROVE  IInv'
<1>1. /\ At(c, "reporting") /\ running' = FALSE
      /\ caller' = [caller EXCEPT ![c] = Nothing]
      /\ Schedule(refresh, "scheduled", 1) \/ UNCHANGED <<refresh, timer>>
      /\ UNCHANGED <<credentials, credentialEpoch, fetch, recovered, replacements, fetches,
                     crashes, valid, attempts>>
  BY DEF RunDone, ghosts
<1>2. /\ Shape /\ TokensAreKept /\ RefreshIsOwned /\ RetryIsArmed
      /\ (timer = Nothing \/ timer \in Timer) /\ refresh \in Refresh
  BY DEF IInv, Shape, TypeOK
<1>3. MaxAttempts \in Nat /\ 1 < MaxAttempts /\ "scheduled" \in Triggers /\ 1 \in Nat
  BY DEF TokenRefreshAssumption, Triggers
<1>4. /\ refresh' \in Refresh /\ refresh'.status = refresh.status
      /\ timer' = timer \/ (timer' \in Timer /\ timer' # Nothing)
      /\ refresh' = refresh \/ (refresh'.attempt = 1 /\ timer' # Nothing)
  BY <1>1, <1>2, <1>3, ScheduleIs
<1>5. Enters(c, Nothing)
  BY <1>1, <1>2, EntersIs
<1>6. ~ Pending(c) /\ Leaves(c)
  BY <1>1, <1>5 DEF Leaves, At, Pending
<1>7. TokensAreKept'
  BY <1>2, <1>6, LeavingKeepsTokens
<1>8. /\ caller' = [d \in Callers |-> caller'[d]] /\ caller'[c] = Nothing
      /\ \A d \in Callers : d # c => caller'[d] = caller[d]
  BY <1>5 DEF Enters
<1>9. Shape'
  BY <1>1, <1>2, <1>4, <1>8 DEF Shape, TypeOK
<1>10. RefreshIsOwned'
  BY <1>1, <1>2, <1>4, <1>6, <1>8, OwnerStays
<1>11. RetryIsArmed'
  <2>1. timer # Nothing => timer' # Nothing
    BY <1>4
  <2>2. \A d \in Callers : At(d, "finishing")' /\ caller'[d].result = "failed" => timer' # Nothing
    BY <1>2, <1>8, <2>1 DEF At, RetryIsArmed
  <2>3. RetriesAreCounted'
    BY <1>2, <1>8 DEF RetryIsArmed, RetriesAreCounted
  <2> QED
    BY <1>1, <1>2, <1>4, <2>1, <2>2, <2>3 DEF RetryIsArmed
<1> QED
  BY <1>7, <1>9, <1>10, <1>11 DEF IInv

LEMMA ReplaceKeeps ==
    ASSUME TokenRefreshAssumption, NullAssumption, IInv, Replace
    PROVE  IInv'
<1>1. /\ Quiet /\ refresh' = NoRefresh /\ UNCHANGED <<caller, timer, recovered, crashes>>
  BY DEF Replace
<1>2. NoRefresh.status = "none" /\ ~ NoRefresh.retryAt
  BY DEF NoRefresh
<1>3. TokensAreKept' /\ Shape'
  BY ReplacingKeepsTokens DEF IInv
<1>4. RefreshIsOwned'
  BY <1>1, <1>2 DEF RefreshIsOwned
<1>5. RetryIsArmed'
  BY <1>1, <1>2 DEF IInv, RetryIsArmed, RetriesAreCounted, At
<1> QED
  BY <1>3, <1>4, <1>5 DEF IInv

LEMMA CrashKeeps ==
    ASSUME IInv, Crash
    PROVE  IInv'
<1>1. /\ recovered' = FALSE /\ crashes' = crashes + 1 /\ caller' = [c \in Callers |-> Nothing]
      /\ refresh' = refresh
  BY DEF Crash, tokens
<1>2. crashes' # 0
  BY <1>1 DEF IInv, Shape, TypeOK
<1>3. TokensAreKept' /\ Shape'
  BY CrashKeepsTokens DEF IInv
<1>4. RefreshIsOwned'
  BY <1>2 DEF RefreshIsOwned
<1>5. RetryIsArmed'
  BY <1>1, <1>2 DEF IInv, RetryIsArmed, RetriesAreCounted, At
<1> QED
  BY <1>3, <1>4, <1>5 DEF IInv

LEMMA InvAtFirst ==
    ASSUME TokenRefreshAssumption, Init
    PROVE  IInv
<1>1. /\ credentials = [access |-> <<0, 0>>, refresh |-> <<0, 0>>] /\ credentialEpoch = 0
      /\ refresh = NoRefresh /\ fetch = Nothing /\ caller = [c \in Callers |-> Nothing]
      /\ timer = Nothing /\ running = FALSE /\ recovered = TRUE
      /\ replacements = 0 /\ fetches = 0 /\ crashes = 0
      /\ valid = [account \in Accounts |-> 0] /\ attempts = 0
  BY DEF Init
<1>2. 0 \in Accounts /\ NoRefresh \in Refresh /\ NoRefresh.status = "none"
      /\ ~ NoRefresh.retryAt
  BY DEF Accounts, NoRefresh, Refresh, TokenRefreshAssumption
<1>3. credentials \in Credentials /\ credentials.access[2] = 0
      /\ credentials.refresh[1] = 0 /\ credentials.refresh[2] = 0
  BY <1>1, <1>2 DEF Credentials, Token
<1>4. \A c \in Callers : caller[c] = Nothing
  BY <1>1
<1>5. Shape
  <2>1. /\ caller = [c \in Callers |-> caller[c]] /\ valid \in [Accounts -> Nat]
        /\ {replacements, fetches, crashes, attempts} \subseteq Nat
    BY <1>1, <1>4
  <2> QED
    BY <1>1, <1>2, <1>3, <1>4, <2>1 DEF Shape, TypeOK
<1>6. TokensAreKept
  BY <1>1, <1>2, <1>3, <1>4 DEF TokensAreKept, HeldIsStored, FetchIsAwaited, AccountsAreNew,
     RotationIsKept, StoredIsRight, IsRight, AnswersAreRight, Pending, At
<1>7. RefreshIsOwned /\ RetryIsArmed
  BY <1>1, <1>2, <1>4 DEF RefreshIsOwned, RetryIsArmed, RetriesAreCounted, At
<1> QED
  BY <1>5, <1>6, <1>7 DEF IInv

LEMMA StutterKeeps ==
    ASSUME IInv, UNCHANGED vars
    PROVE  IInv'
<1>1. UNCHANGED <<credentials, credentialEpoch, refresh, fetch, caller, timer, running, recovered,
                  replacements, fetches, crashes, valid, attempts>>
  BY DEF vars, tokens, ghosts
<1>2. TokensAreKept'
  BY <1>1, RestingKeepsTokens DEF IInv, Rests
<1>3. RefreshIsOwned'
  BY <1>1, OwnerStays DEF IInv
<1> QED
  BY <1>1, <1>2, <1>3 DEF IInv, Shape, TypeOK, RetryIsArmed, RetriesAreCounted, At

-----------------------------------------------------------------------------

\* Whoever waits for a refresh, however often the account is replaced and the
\* process restarted, somebody is about to store the token the provider knows
\* and to replace the record of a refresh (providers.js, persistCredentials).
THEOREM RefreshIsSound ==
    TokenRefreshAssumption /\ NullAssumption => (Spec => []IInv)
<1> SUFFICES ASSUME TokenRefreshAssumption, NullAssumption PROVE Spec => []IInv
  OBVIOUS
<1>1. IInv /\ [Next]_vars => IInv'
  <2> SUFFICES ASSUME IInv, [Next]_vars PROVE IInv'
    OBVIOUS
  <2>1. ASSUME NEW c \in Callers,
               \/ Request(c) \/ Manual(c) \/ Run(c) \/ RunAfterFailure(c) \/ Retry(c)
               \/ ResumeFailed(c) \/ ResumeOk(c) \/ Finish(c) \/ RunDone(c)
        PROVE  IInv'
    BY <2>1, RequestKeeps, ManualKeeps, RunKeeps, RunAfterFailureKeeps, RetryKeeps,
       ResumeFailedKeeps, ResumeOkKeeps, FinishKeeps, RunDoneKeeps
  <2> QED
    BY <2>1, FetchDoneKeeps, ReplaceKeeps, CrashKeeps, StutterKeeps DEF Next
<1> QED
  BY InvAtFirst, <1>1, PTL DEF Spec

\* No rotated token is lost, a failed refresh is tried again, and the state
\* "refreshing" has somebody who ends it, for any callers and any number of
\* replacements (codex-token-refresh.js, store.js recordTokenRefresh...).
THEOREM NoRefreshIsLost ==
    TokenRefreshAssumption /\ NullAssumption =>
        (Spec => [](NoLostRotation /\ FailedIsRetried /\ RefreshingHasAnOwner))
<1> SUFFICES ASSUME TokenRefreshAssumption, NullAssumption
             PROVE  Spec => [](NoLostRotation /\ FailedIsRetried /\ RefreshingHasAnOwner)
  OBVIOUS
<1>1. IInv => NoLostRotation
  BY DEF IInv, TokensAreKept, RotationIsKept, StoredIsRight, IsRight, Quiet, NoLostRotation
<1>2. IInv => FailedIsRetried
  BY DEF IInv, RetryIsArmed, FailedIsRetried
<1>3. IInv => RefreshingHasAnOwner
  BY DEF IInv, RefreshIsOwned, RefreshingHasAnOwner, Pending, At
<1> QED
  BY <1>1, <1>2, <1>3, RefreshIsSound, PTL

=============================================================================
