--------------------------------- MODULE Quotas ---------------------------------
(***************************************************************************)
(* What providers say is left of an account, and what the gateway does     *)
(* with it: the answers of the three usage APIs and the rate-limit headers *)
(* of Claude answers (domain.js), the evidence of a Codex account's        *)
(* capacity and the provider credits that an operator may allow            *)
(* (provider-credits.js), the requests that quotas and spending caps let   *)
(* through, and the caps set in bulk by the quota left (store.js).  A      *)
(* request is planned, waits for the pacer, and is sent if the account     *)
(* still has capacity then.                                                *)
(***************************************************************************)
EXTENDS Integers, Sequences, SequencesExt, FiniteSetsExt

CONSTANTS
    Ids, MayBe,         \* accounts, and by id the types it may have
    Owners,             \* the provider's accounts
    Models,
    CodexAnswers, ClaudeAnswers, ClaudeHeaders, CompassAnswers,
    Bulks,              \* what an operator may ask of all accounts at once
    Full,               \* all of a window: 100 percent
    Freshness,          \* CAPACITY_FRESHNESS_MS, ROUTING_QUOTA_FRESHNESS_MS and the throttle
    Month,              \* MONTH_SECONDS
    Rate,               \* credits per dollar
    Pieces,             \* the parts of a credit in which dollars are given
    None,
    MaxTime, MaxEpoch, MaxSpent     \* bounds

QuotasFit == Full > 0 /\ Freshness > 0 /\ Rate > 0 /\ Pieces > 0

VARIABLES
    now,
    account,    \* by id: [type, owner, epoch, allow]
    quota,      \* by id: the quota stored, or None
    told,       \* history: by id, the answer the quota is of, or None
    spending,   \* by id: [cap, spent], in credits
    request,    \* the request that waits to be sent, or None
    last,       \* what was just planned, sent or capped in bulk, or None
    refused     \* history: an update was refused halfway

vars == <<now, account, quota, told, spending, request, last, refused>>

Types == {"codex", "claude", "compass", "ais"}

-----------------------------------------------------------------------------
\* Windows: [source, model, used, span, at, after, left, limit, unit]; what the
\* provider did not say is None.

\* An explicit time wins, also one that has passed; one that cannot be read (0)
\* does not count.
Readable(w) == w.at # None /\ w.at > 0
ResetTime(w) ==
    IF Readable(w) THEN w.at
    ELSE IF w.after # None THEN now + w.after ELSE None

\* A window that is flagged as reached need not say how much was used.
Used(w, reached) ==
    IF w.used # None THEN Min({w.used, Full}) ELSE IF reached THEN Full ELSE None

Usable(s, reached) == SelectSeq(s, LAMBDA w : Used(w, reached) # None)

\* The first of the longest windows.
Longest(s) ==
    s[CHOOSE i \in DOMAIN s : \A j \in DOMAIN s :
         s[j].span < s[i].span \/ (s[j].span = s[i].span /\ i <= j)]

-----------------------------------------------------------------------------
\* parseCodexCapacity: [windows, modelWindows, spend, denied, credits].
Evidence(w, reached) == [left |-> Full - Used(w, reached), reset |-> ResetTime(w), model |-> w.model]
Capacity(a) ==
    LET All(s, reached) == {Evidence(w, reached) : w \in ToSet(Usable(s, reached))}
    IN [windows      |-> All(a.windows, a.reached),
        modelWindows |-> UNION {All(<<w>>, w.limited) :
                                   w \in {x \in ToSet(a.extra) : x.model # None}},
        spend        |-> All(a.spend, FALSE),
        denied       |-> a.reached \/ a.allowed = FALSE,
        credits      |-> a.credits]

\* parseCodexQuota: the spend control, else the longest window, of a month if
\* there is one.
CodexQuota(a) ==
    LET candidates == Usable(a.windows \o a.extra \o a.spend, a.reached)
        spend   == SelectSeq(candidates, LAMBDA w : w.source = "spend")
        monthly == SelectSeq(candidates, LAMBDA w : w.span >= Month)
        chosen  == CASE spend # <<>> -> spend[1]
                     [] spend = <<>> /\ monthly # <<>> -> Longest(monthly)
                     [] OTHER -> Longest(candidates)
        units   == IF chosen.left # None THEN chosen.left
                   ELSE IF chosen.source # "spend" \/ chosen.unit = "credits"
                   THEN a.credits.balance ELSE None
        dollars == CASE units = None \/ chosen.source # "spend" -> None
                     [] chosen.unit = "usd" -> units
                     [] chosen.unit = "credits" -> units \div Rate
                     [] OTHER -> None
    IN IF candidates = <<>> THEN None
       ELSE [source |-> "codex", left |-> Full - Used(chosen, a.reached),
             reset |-> ResetTime(chosen), at |-> now, units |-> units, dollars |-> dollars,
             capacity |-> Capacity(a), epoch |-> None]

\* parseClaudeQuota: the first usable window of each kind, the structured list
\* before the flat ones; the session's, else the week's, else the first.
Percent(w) == w.used # None /\ w.used \in 0 .. Full
FirstOf(s, key) == SelectSeq(s, LAMBDA w : w.source = key)
ChosenOf(windows, first) ==
    LET preferred == FirstOf(windows, first) \o FirstOf(windows, "session")
                       \o FirstOf(windows, "week") \o windows
    IN preferred[1]

\* parseClaudeExtraUsage: hundredths of a dollar, only when enabled.
Extra(e) == IF e = None \/ ~e.enabled \/ e.limit <= 0 \/ e.used < 0 THEN None
            ELSE Max({0, e.limit - e.used})

ClaudeRecord(windows, first, dollars) ==
    LET chosen == ChosenOf(windows, first)
    IN [source |-> "claude", left |-> Full - chosen.used, reset |-> ResetTime(chosen), at |-> now,
        units |-> None, dollars |-> dollars, capacity |-> None, epoch |-> None]

ClaudeQuota(a) ==
    LET windows == SelectSeq(a.limits \o a.flat, Percent)
    IN IF windows = <<>> THEN None ELSE ClaudeRecord(windows, "session", Extra(a.extra))

\* parseClaudeQuotaHeaders: what exceeds the window counts as all of it, and
\* the claim that the provider calls representative comes first.
HeaderWindows(h) ==
    [i \in DOMAIN h.windows |-> [h.windows[i] EXCEPT !.used = Min({@, Full})]]
HeaderQuota(h, dollars) == ClaudeRecord(HeaderWindows(h), h.representative, dollars)

\* parseCompassQuota: a recurring project's balance comes back next month.
NextMonth == ((now \div Month) + 1) * Month
CompassQuota(a) ==
    IF ~a.ok \/ a.applied <= 0 \/ a.balance = None THEN None
    ELSE [source |-> "compass",
          left |-> Full - Max({0, Min({Full, ((a.applied - a.balance) * Full) \div a.applied})}),
          reset |-> IF a.recurring THEN NextMonth ELSE None, at |-> now,
          units |-> a.balance, dollars |-> a.balance, capacity |-> None, epoch |-> None]

-----------------------------------------------------------------------------
Init ==
    /\ now = 0 /\ request = None /\ last = None /\ refused = FALSE
    /\ account \in [Ids -> [type : Types, owner : Owners, epoch : {1}, allow : {FALSE}]]
    /\ \A i \in Ids : account[i].type \in MayBe[i]
    /\ quota = [i \in Ids |-> None] /\ told = [i \in Ids |-> None]
    /\ spending = [i \in Ids |-> [cap |-> 1, spent |-> 0]]

\* setQuota, of what was asked with the account's present credentials: the
\* evidence of capacity is stamped with their generation.
SetQuota(i, q, answer) ==
    /\ quota' = [quota EXCEPT ![i] = [q EXCEPT !.epoch = account[i].epoch]]
    /\ told' = [told EXCEPT ![i] = [answer |-> answer, at |-> now, epoch |-> account[i].epoch]]
    /\ last' = None
    /\ UNCHANGED <<now, account, spending, request, refused>>

\* The provider's usage API answers; an answer without a usable window is an
\* error, and the quota known before stays.
Answered(i) ==
    /\ account[i].type # "ais"
    /\ \E a \in CASE account[i].type = "codex" -> CodexAnswers
                  [] account[i].type = "claude" -> ClaudeAnswers
                  [] OTHER -> CompassAnswers :
         LET q == CASE account[i].type = "codex" -> CodexQuota(a)
                    [] account[i].type = "claude" -> ClaudeQuota(a)
                    [] OTHER -> CompassQuota(a)
         IN q # None /\ SetQuota(i, q, a)

\* persistClaudeResponseQuota: the headers of an answer, unless the quota is
\* fresh; what is left in dollars is kept, headers do not tell it.
HeadersObserved(i) ==
    /\ account[i].type = "claude"
    /\ ~(quota[i] # None /\ quota[i].at + Freshness > now)
    /\ \E h \in ClaudeHeaders :
         SetQuota(i, HeaderQuota(h, IF quota[i] = None THEN None ELSE quota[i].dollars), h)

Sibling(i, j, owner) ==
    /\ i # j /\ account[i].type = "codex" /\ account[j].type = "codex"
    /\ account[j].owner = owner

\* store.update with credentials: nothing is known of them; a Codex account that
\* becomes another of the provider's takes the policy of the first sibling.
Replace(i, owner) ==
    /\ account[i].type # "ais" /\ account[i].epoch < MaxEpoch
    /\ LET siblings == {j \in Ids : Sibling(i, j, owner)}
           allow == IF account[i].type # "codex" \/ owner = account[i].owner THEN account[i].allow
                    ELSE siblings # {} /\ account[Min(siblings)].allow
       IN account' = [account EXCEPT ![i].owner = owner, ![i].epoch = @ + 1, ![i].allow = allow]
    /\ quota' = [quota EXCEPT ![i] = None] /\ told' = [told EXCEPT ![i] = None]
    /\ last' = None
    /\ UNCHANGED <<now, spending, request, refused>>

\* persistCredentials: a refresh makes another generation of the same account's.
TokenRefreshed(i) ==
    /\ account[i].type \in {"codex", "claude"} /\ account[i].epoch < MaxEpoch
    /\ account' = [account EXCEPT ![i].epoch = @ + 1]
    /\ last' = None
    /\ UNCHANGED <<now, quota, told, spending, request, refused>>

\* store.update of the policy: for every record of the account.
Allow(i, policy) ==
    /\ account[i].type = "codex"
    /\ account' = [j \in Ids |-> IF j = i \/ Sibling(i, j, account[i].owner)
                                 THEN [account[j] EXCEPT !.allow = policy] ELSE account[j]]
    /\ last' = None
    /\ UNCHANGED <<now, quota, told, spending, request, refused>>

\* The same with credentials that cannot be parsed: the record keeps the policy
\* that was set before they were looked at.
AllowRefused(i, policy) ==
    /\ account[i].type = "codex" /\ ~refused
    /\ account' = [account EXCEPT ![i].allow = policy]
    /\ refused' = TRUE /\ last' = None
    /\ UNCHANGED <<now, quota, told, spending, request>>

Tick ==
    /\ now < MaxTime
    /\ now' = now + 1
    /\ last' = None
    /\ UNCHANGED <<account, quota, told, spending, request, refused>>

-----------------------------------------------------------------------------
\* codexCapacityDecision, for a quota with evidence.
Blocks(w, fresh) == w.left = 0 /\ IF w.reset # None THEN w.reset > now ELSE fresh
Fresh(i) == quota[i].epoch = account[i].epoch /\ quota[i].at + Freshness > now

Decision(i, model) ==
    LET e == quota[i].capacity
        windows == e.windows \cup {w \in e.modelWindows : w.model = model}
        credits == Fresh(i) /\ account[i].allow /\ e.credits.has
                     /\ (e.credits.unlimited \/ (e.credits.balance # None /\ e.credits.balance > 0))
    IN CASE \E w \in e.spend : Blocks(w, Fresh(i)) -> "none"
         [] (\E w \in windows : Blocks(w, Fresh(i))) \/ (Fresh(i) /\ e.denied) ->
              IF credits THEN "provider_credits" ELSE "none"
         [] OTHER -> IF e.windows # {} THEN "included" ELSE "windowless"

\* quotaBlocksRouting.
QuotaBlocksRouting(i, model) ==
    /\ account[i].type # "ais" /\ quota[i] # None
    /\ LET q == quota[i]
       IN IF q.capacity # None THEN Decision(i, model) = "none"
          ELSE /\ q.left = 0
               /\ CASE q.reset # None -> q.reset > now
                    [] q.reset = None /\ q.source = "compass" -> TRUE
                    [] OTHER -> q.at + Freshness > now

\* spendingSummary and spendingEligibility: a continuation may exceed its cap by
\* a quarter.
CapReached(i) == spending[i].spent >= spending[i].cap
SpendingEligible(i, pinned) ==
    /\ spending[i].cap > 0
    /\ ~CapReached(i) \/ (pinned /\ 4 * spending[i].spent < 5 * spending[i].cap)

\* filterSpendCapEligible, then the quota: a continuation whose account reached
\* its cap is refused rather than moved.
PinnedIsOver(pin) == pin # None /\ spending[pin].cap > 0 /\ ~SpendingEligible(pin, TRUE)
Eligible(pin, model) ==
    {i \in Ids : /\ SpendingEligible(i, i = pin) \/ account[i].type = "ais"
                 /\ ~QuotaBlocksRouting(i, model)}

\* The planner chooses an account, and the request waits to be sent.
Plan(i, model, pin) ==
    /\ request = None /\ pin # None => account[pin].type # "ais"
    /\ ~PinnedIsOver(pin)
    /\ i \in Eligible(pin, model)
    /\ request' = [id |-> i, model |-> model]
    /\ last' = [kind |-> "planned", id |-> i]
    /\ UNCHANGED <<now, account, quota, told, spending, refused>>

\* requestUpstream after the pacer: assertCodexCapacity, then the request goes.
\* (The cap is looked at again only on the messages routes: Dispatch.)
HasCapacity(i, model) ==
    account[i].type = "codex" /\ quota[i] # None => Decision(i, model) # "none"

Send ==
    /\ request # None
    /\ request' = None
    /\ last' = IF HasCapacity(request.id, request.model)
               THEN [kind |-> "sent", id |-> request.id, model |-> request.model] ELSE None
    /\ UNCHANGED <<now, account, quota, told, spending, refused>>

\* A settlement, of one credit.
Spend(i) ==
    /\ spending[i].cap > 0 /\ spending[i].spent < MaxSpent
    /\ spending' = [spending EXCEPT ![i].spent = @ + 1]
    /\ last' = None
    /\ UNCHANGED <<now, account, quota, told, request, refused>>

-----------------------------------------------------------------------------
\* dollarsToCredits: rounded, but never to the cap that means none.
DollarsToCredits(d) == Max({(2 * d + Pieces) \div (2 * Pieces), IF d > 0 THEN 1 ELSE 0})

\* The dollars left, or the units when they are unknown.
QuotaLeft(i) ==
    IF quota[i] = None THEN None
    ELSE IF quota[i].dollars # None THEN quota[i].dollars ELSE quota[i].units

\* selectBulkTargets: of the rules that the quota left exceeds, the one that asks
\* the most.
RuleFor(bulk, left) ==
    LET exceeded == SelectSeq(bulk.rules, LAMBDA r : left > r.min)
    IN IF exceeded = <<>> THEN None
       ELSE exceeded[CHOOSE k \in DOMAIN exceeded : \A l \in DOMAIN exceeded :
                exceeded[l].min < exceeded[k].min \/ (exceeded[l].min = exceeded[k].min /\ k <= l)].cap

BulkCap(bulk, i) ==
    CASE account[i].type = "ais" \/ account[i].type \notin bulk.types -> None
      [] bulk.target = "all" -> bulk.cap
      [] bulk.target = "uncapped" -> IF spending[i].cap = 0 THEN bulk.cap ELSE None
      [] bulk.target = "cap_reached" ->
           IF spending[i].cap > 0 /\ CapReached(i) THEN bulk.cap ELSE None
      [] OTHER -> IF QuotaLeft(i) = None THEN bulk.unknown ELSE RuleFor(bulk, QuotaLeft(i))

\* bulkCaps: a new cap starts a new period.
BulkCaps(bulk) ==
    /\ spending' = [i \in Ids |-> IF BulkCap(bulk, i) = None THEN spending[i]
                                  ELSE [cap |-> DollarsToCredits(BulkCap(bulk, i)), spent |-> 0]]
    /\ last' = [kind |-> "caps", bulk |-> bulk, before |-> spending,
                left |-> [i \in Ids |-> QuotaLeft(i)]]
    /\ UNCHANGED <<now, account, quota, told, request, refused>>

\* setQuotaSource of an account that turns out to be AIS's: clearAisSpendingCaps.
ClearAisCaps ==
    /\ \E i \in Ids : account[i].type = "ais" /\ spending[i].cap # 0
    /\ spending' = [i \in Ids |-> IF account[i].type = "ais" THEN [spending[i] EXCEPT !.cap = 0]
                                  ELSE spending[i]]
    /\ last' = None
    /\ UNCHANGED <<now, account, quota, told, request, refused>>

Next ==
    \/ \E i \in Ids :
         \/ Answered(i) \/ HeadersObserved(i) \/ TokenRefreshed(i) \/ Spend(i)
         \/ \E o \in Owners : Replace(i, o)
         \/ \E p \in BOOLEAN : Allow(i, p) \/ AllowRefused(i, p)
         \/ \E m \in Models, pin \in Ids \cup {None} : Plan(i, m, pin)
    \/ Send \/ Tick \/ ClearAisCaps
    \/ \E b \in Bulks : BulkCaps(b)

Spec == Init /\ [][Next]_vars

TypeOK ==
    /\ now \in 0 .. MaxTime /\ refused \in BOOLEAN
    /\ account \in [Ids -> [type : Types, owner : Owners, epoch : 1 .. MaxEpoch, allow : BOOLEAN]]
    /\ \A i \in Ids :
         /\ (quota[i] = None) = (told[i] = None)
         /\ quota[i] # None => quota[i].left \in 0 .. Full /\ quota[i].at \in 0 .. now
         /\ spending[i].cap \in Nat /\ spending[i].spent \in 0 .. MaxSpent

-----------------------------------------------------------------------------
\* What the provider said, read without the record made of it.  The windows of
\* an answer that are used up, and when each comes back.
Said(w, reached) == w.used # None \/ reached
Gone(w, reached) == (w.used # None /\ w.used >= Full) \/ (w.used = None /\ reached)
BackAt(w, t) == IF Readable(w) THEN w.at ELSE IF w.after = None THEN None ELSE t.at + w.after
Ahead(w, t, time) ==
    IF BackAt(w, t) # None THEN BackAt(w, t) > time ELSE t.at + Freshness > time

CodexWindows(a, model) ==
    [w : {x \in ToSet(a.windows) : Said(x, a.reached)}, reached : {a.reached}]
      \cup UNION {[w : {x}, reached : {x.limited}] :
                    x \in {y \in ToSet(a.extra) : y.model = model /\ Said(y, y.limited)}}

(* Whatever was answered, refreshed, replaced and allowed while a request  *)
(* waited for the pacer, a Codex request goes out while an included window *)
(* is used up only with the provider's credits: reported by the provider   *)
(* for the present credentials, not long ago, and allowed by the operator; *)
(* and never when the monthly spend control is used up (provider-credits.js*)
(* codexCapacityDecision, store.js assertCodexCapacity).                   *)
CreditsAreAuthorized ==
    \A i \in Ids :
      (last # None /\ last.kind = "sent" /\ last.id = i /\ account[i].type = "codex" /\ told[i] # None) =>
        LET t == told[i]
            a == t.answer
            current == t.epoch = account[i].epoch /\ t.at + Freshness > now
            used == {x \in CodexWindows(a, last.model) :
                       Gone(x.w, x.reached) /\ Ahead(x.w, t, now) /\ (BackAt(x.w, t) = None => current)}
        IN /\ used # {} \/ (current /\ (a.reached \/ a.allowed = FALSE)) =>
                /\ current /\ account[i].allow /\ a.credits.has
                /\ a.credits.unlimited \/ a.credits.balance > 0
           /\ \A w \in ToSet(a.spend) :
                ~(Gone(w, FALSE) /\ Ahead(w, t, now) /\ (BackAt(w, t) = None => current))

(* No account is kept from routing but for something its provider said of  *)
(* the credentials it has, and not for longer: a window used up that comes *)
(* back later, a window used up or a refusal told not long ago, or the     *)
(* balance of a project that does not recur (store.js quotaBlocksRouting). *)
BlockedForAReason ==
    \A i \in Ids, m \in Models :
      QuotaBlocksRouting(i, m) =>
        LET t == told[i]
            a == t.answer
        IN CASE account[i].type = "codex" ->
                  \/ \E x \in CodexWindows(a, m) : Gone(x.w, x.reached) /\ Ahead(x.w, t, now)
                  \/ \E w \in ToSet(a.spend) : Gone(w, FALSE) /\ Ahead(w, t, now)
                  \/ (a.reached \/ a.allowed = FALSE) /\ t.at + Freshness > now
             [] account[i].type = "claude" ->
                  \E w \in ToSet(a.limits \o a.flat) : Gone(w, FALSE) /\ Ahead(w, t, now)
             [] OTHER -> /\ a.balance <= 0
                         /\ a.recurring => now < ((t.at \div Month) + 1) * Month

(* A request is never planned for a Claude or Compass account all of whose *)
(* windows were reported used up and come back later (domain.js            *)
(* parseClaudeQuota, parseClaudeQuotaHeaders, parseCompassQuota).          *)
ExhaustedIsNotPlanned ==
    (last # None /\ last.kind = "planned" /\ told[last.id] # None) =>
      LET t == told[last.id]
          a == t.answer
      IN CASE account[last.id].type = "claude" ->
                \E w \in ToSet(a.limits \o a.flat) :
                  /\ w.used # None /\ (a.representative = None => w.used <= Full)
                  /\ ~(Gone(w, FALSE) /\ Ahead(w, t, now))
           [] account[last.id].type = "compass" ->
                a.balance > 0 \/ (a.recurring /\ now >= ((t.at \div Month) + 1) * Month)
           [] OTHER -> TRUE

(* The records of one Codex account have one policy about its credits,     *)
(* however they were replaced, as long as no update was refused halfway    *)
(* (store.js update; node/README.md:551).                                  *)
SiblingsAgree ==
    refused \/ \A i, j \in Ids :
      (/\ account[i].type = "codex" /\ account[j].type = "codex"
       /\ account[i].owner = account[j].owner) => account[i].allow = account[j].allow

(* Caps set by the quota left: an account gets the cap of a rule whose     *)
(* threshold it exceeds and of none below it, more is left never means     *)
(* less cap unless the rules say so, a cap that was asked for is a cap,    *)
(* and who is not selected keeps cap and period (store.js bulkCaps,        *)
(* selectBulkTargets; domain.js dollarsToCredits).                         *)
CapsFollowTheQuota ==
    (last # None /\ last.kind = "caps") =>
      LET b == last.bulk
          rules == IF b.target = "rules" THEN ToSet(b.rules) ELSE {}
          monotone == \A r, s \in rules : r.min < s.min => r.cap <= s.cap
          ruled == {i \in Ids : /\ b.target = "rules" /\ last.left[i] # None
                                /\ account[i].type \in b.types \ {"ais"}}
          exceeds(i, r) == last.left[i] > r.min
      IN /\ \A i \in ruled :
              IF \E r \in rules : exceeds(i, r)
              THEN \E r \in rules :
                     /\ exceeds(i, r) /\ \A s \in rules : exceeds(i, s) => s.min <= r.min
                     /\ spending[i] = [cap |-> DollarsToCredits(r.cap), spent |-> 0]
                     /\ r.cap > 0 => spending[i].cap > 0
              ELSE spending[i] = last.before[i]
         /\ \A i, j \in ruled :
              monotone /\ last.left[i] <= last.left[j] /\ (\E r \in rules : exceeds(i, r)) =>
                spending[i].cap <= spending[j].cap
         /\ \A i \in Ids : account[i].type \notin b.types \ {"ais"} => spending[i] = last.before[i]

\* What the gateway knows of quotas is what providers said, and rules.
QuotasAreHonoured ==
    /\ CreditsAreAuthorized /\ BlockedForAReason /\ ExhaustedIsNotPlanned
    /\ SiblingsAgree /\ CapsFollowTheQuota
=================================================================================
