-------------------------------- MODULE Outcomes --------------------------------
(***************************************************************************)
(* What a provider's answer says of the account that asked                 *)
(* (upstream-outcomes.js): an HTTP response, an event of a stream or a     *)
(* broken connection is classified, an operator's rules for a Claude       *)
(* account may overrule the class, and the class decides what the account  *)
(* loses when the attempt settles (store.js, settleUpstreamAttempt).       *)
(***************************************************************************)
EXTENDS Integers, Sequences, FiniteSets, FiniteSetsExt, SequencesExt

CONSTANTS
    None,
    MaxRetryAfter,      \* MAX_RETRY_AFTER_MS
    MaxReset,           \* MAX_RESET_COOLDOWN_MS
    DefaultCooldown,    \* DEFAULT_QUOTA_COOLDOWN_MS
    Waits,              \* the waits that headers name, from now
    Rules               \* the lists of rules an account may carry

VARIABLES
    answer,     \* what came back
    rules,      \* the account's request_scoped_errors
    stage,      \* "came", "classified", "ruled" or "settled"
    verdict,    \* the outcome so far
    loss,       \* what the account loses, once settled
    wait        \* and for how long; None when it is not cooled

vars == <<answer, rules, stage, verdict, loss, wait>>

Upstreams == {"codex", "claude", "ais", "compass"}
Statuses == {None, 200, 302, 400, 401, 402, 403, 404, 429, 500}

\* What the error body says: its code or type, or a message about fast mode.
Codes == {"none", "quota", "credential", "permission", "caller", "model", "policy", "validation", "fast"}

\* Which of Claude's rate-limit windows reject: one of the shared ones (or
\* their statuses are absent), the window of one model, and their aggregate.
Windows == [shared : {"allowed", "rejected", "absent"}, model : BOOLEAN, all : BOOLEAN]
NoWindows == [shared |-> "absent", model |-> FALSE, all |-> FALSE]

Kinds == {"http", "error event", "incomplete event", "completed event", "other event",
          "cancelled", "blocked", "broken"}

Answers ==
    [kind : Kinds, upstream : Upstreams, status : Statuses, code : Codes, windows : Windows,
     policyRoute : BOOLEAN]

IsEvent(a) == a.kind \in {"error event", "incomplete event", "completed event", "other event"}
IsTransport(a) == a.kind \in {"cancelled", "blocked", "broken"}

\* Windows are of Claude answers with a limit; a response has a status, a broken
\* connection has nothing.
Possible(a) ==
    /\ a.windows # NoWindows => a.upstream = "claude" /\ (a.status = 429 \/ a.code = "quota")
    /\ a.kind = "http" => a.status # None
    /\ IsEvent(a) => a.status = None \/ a.status >= 400
    /\ IsTransport(a) => a.status = None /\ a.code = "none" /\ ~a.policyRoute
    /\ a.kind \in {"completed event", "other event"} => a.status = None /\ a.code = "none"

Classes == {"success", "neutral", "caller", "credential", "quota", "transient", "unknown"}

Verdicts == [class : Classes, retryable : BOOLEAN, modelScoped : BOOLEAN]
Verdict(class, retryable) == [class |-> class, retryable |-> retryable, modelScoped |-> FALSE]

Losses == {"nothing", "reauthentication", "cooldown", "model cooldown", "circuit"}

TypeOK ==
    /\ answer \in Answers /\ Possible(answer) /\ rules \in Rules
    /\ stage \in {"came", "classified", "ruled", "settled"}
    /\ verdict \in Verdicts /\ loss \in Losses
    /\ wait # None => wait.for \in Nat

Init ==
    /\ answer \in {a \in Answers : Possible(a)}
    /\ rules \in IF answer.upstream = "claude" THEN Rules ELSE {<<>>}
    /\ stage = "came" /\ verdict = Verdict("unknown", FALSE) /\ loss = "nothing"
    /\ wait = None

-----------------------------------------------------------------------------
(* Classifying.                                                            *)

\* A rejected shared window is the account's, and so is a rejected aggregate
\* unless the shared windows allow and the model's own window rejects.
ModelOnly(a) == a.windows.shared = "allowed" /\ a.windows.all /\ a.windows.model
CredentialScoped(a) == a.windows.shared = "rejected" \/ (a.windows.all /\ ~ModelOnly(a))

LimitOfAModel(a) ==
    IF a.code = "fast" THEN Verdict("neutral", FALSE)
    ELSE [class |-> "neutral", retryable |-> TRUE, modelScoped |-> TRUE]

\* A policy's refusal is nobody's fault, on the routes that show it.
PolicyFailure(a) == a.policyRoute /\ a.code = "policy"

ForStatus(a) ==
    IF a.status = 200 THEN Verdict("success", FALSE)
    ELSE IF a.status = 302 \/ (a.status \in {400, 403} /\ PolicyFailure(a)) THEN Verdict("neutral", FALSE)
    ELSE IF a.status \in {401, 403} THEN Verdict("credential", TRUE)
    ELSE IF a.status = 402 THEN Verdict("quota", TRUE)
    ELSE IF a.status = 429 THEN Verdict(IF a.code = "fast" THEN "caller" ELSE "quota", a.code # "fast")
    ELSE IF a.status < 500 THEN Verdict("caller", a.code = "model")
    ELSE Verdict("transient", TRUE)

\* A refusal that names no credential is the request's.
Forbidden(a) ==
    a.status = 403 /\ a.upstream \in {"codex", "ais"} /\ a.code # "credential"

HttpVerdict(a) ==
    IF Forbidden(a) THEN Verdict("caller", FALSE)
    ELSE IF a.status = 429 /\ a.upstream = "claude" /\ ~CredentialScoped(a) THEN LimitOfAModel(a)
    ELSE ForStatus(a)

\* An incomplete response failed when it holds an error.
FailedIncomplete(a) == a.kind = "incomplete event" /\ a.code # "none"
QuotaIncomplete(a) == a.kind = "incomplete event" /\ a.code = "quota" /\ a.status = None

Validation(a) ==
    a.kind = "error event" /\ a.code = "validation" /\ a.status \in {None, 400}

ForCode(a) ==
    CASE a.code = "quota" -> Verdict("quota", TRUE)
      [] a.code \in {"credential", "permission"} -> Verdict("credential", TRUE)
      [] a.code = "model" -> Verdict("caller", TRUE)
      [] a.code \in {"caller", "validation"} -> Verdict("caller", FALSE)
      [] a.code \in {"none", "policy", "fast"} -> Verdict("transient", TRUE)

EventVerdict(a) ==
    IF PolicyFailure(a) THEN Verdict("neutral", FALSE)
    ELSE IF QuotaIncomplete(a) THEN Verdict("quota", TRUE)
    ELSE IF Validation(a) THEN Verdict("caller", FALSE)
    ELSE IF /\ a.upstream = "claude" /\ ~CredentialScoped(a)
            /\ (a.status = 429 \/ a.code = "quota")
         THEN LimitOfAModel(a)
    ELSE IF a.status # None /\ (a.status >= 400 \/ ~FailedIncomplete(a)) THEN ForStatus(a)
    ELSE IF a.kind # "error event" /\ ~FailedIncomplete(a)
         THEN Verdict(IF a.kind = "other event" THEN "neutral" ELSE "success", FALSE)
    ELSE ForCode(a)

\* What the client or the gateway stopped says nothing of the account.
TransportVerdict(a) ==
    IF a.kind = "broken" THEN Verdict("transient", TRUE) ELSE Verdict("neutral", FALSE)

Classify ==
    /\ stage = "came"
    /\ verdict' = IF answer.kind = "http" THEN HttpVerdict(answer)
                  ELSE IF IsEvent(answer) THEN EventVerdict(answer)
                  ELSE TransportVerdict(answer)
    /\ stage' = "classified"
    /\ UNCHANGED <<answer, rules, loss, wait>>

-----------------------------------------------------------------------------
(* The operator's rules.                                                   *)

\* The first rule for the status whose text is in the answer.  A rule with an
\* unknown action decides nothing.
Actions == {"stop", "stop-and-cooldown", "continue", "continue-and-cooldown"}

Action(a) ==
    LET deciding == {i \in DOMAIN rules :
            rules[i].status = a.status /\ rules[i].matches /\ rules[i].action \in Actions}
    IN  IF a.upstream # "claude" \/ deciding = {} THEN None ELSE rules[Min(deciding)].action

Cools(action) == action \in {"stop-and-cooldown", "continue-and-cooldown"}
Stops(action) == action \in {"stop", "stop-and-cooldown"}

\* Only failures are looked at.
ApplyRules ==
    /\ stage = "classified"
    /\ LET action == Action(answer)
       IN  verdict' = IF action = None \/ verdict.class = "success" \/ IsTransport(answer)
                      THEN verdict
                      ELSE [class |-> IF Cools(action) THEN "quota" ELSE "neutral",
                            retryable |-> ~Stops(action),
                            modelScoped |-> ~Cools(action) /\ verdict.modelScoped]
    /\ stage' = "ruled"
    /\ UNCHANGED <<answer, rules, loss, wait>>

\* How long: what Retry-After asks, else the earliest reset, else a default.
\* The reset of a model's own window is not looked at when it alone rejects.
Capped(wait_, cap) == IF wait_ < cap THEN wait_ ELSE cap
Cooldown(retryAfter, resets, ofModel) ==
    LET known == (resets \cup IF ModelOnly(answer) THEN {} ELSE ofModel) \ {0}
    IN  IF retryAfter # None THEN Capped(retryAfter, MaxRetryAfter)
        ELSE IF known # {} THEN Capped(Min(known), MaxReset)
        ELSE DefaultCooldown

\* The loss of the account; cooling may be disabled for a Claude account.
Loss(coolingDisabled) ==
    CASE verdict.modelScoped -> IF coolingDisabled THEN "nothing" ELSE "model cooldown"
      [] ~verdict.modelScoped /\ verdict.class = "quota" ->
            IF coolingDisabled THEN "nothing" ELSE "cooldown"
      [] verdict.class = "transient" -> IF coolingDisabled THEN "nothing" ELSE "circuit"
      [] verdict.class = "credential" -> "reauthentication"
      [] OTHER -> "nothing"

Settle(coolingDisabled, retryAfter, resets, ofModel) ==
    /\ stage = "ruled" /\ (coolingDisabled => answer.upstream = "claude")
    /\ loss' = Loss(coolingDisabled)
    /\ wait' = IF loss' \in {"cooldown", "model cooldown"}
               THEN [retryAfter |-> retryAfter, resets |-> resets, ofModel |-> ofModel,
                     for |-> Cooldown(retryAfter, resets, ofModel)]
               ELSE None
    /\ stage' = "settled"
    /\ UNCHANGED <<answer, rules, verdict>>

Next ==
    \/ Classify \/ ApplyRules
    \/ \E b \in BOOLEAN, after \in Waits \cup {None}, r, m \in {{}} \cup {{w} : w \in Waits} :
        Settle(b, after, r, m)

Spec == Init /\ [][Next]_vars
-----------------------------------------------------------------------------
\* "Account health is settled consistently" (node/README.md:462): an error told
\* as a response's status costs the account what the same error costs it in a
\* stream's event, with that status or with its code alone.  Left out is what
\* only one of the two knows: a 403 of Codex or AIS that names no credential, a
\* policy refusal with another status, fast mode's credits without a status, and
\* a quota code next to a status that denies it; Claude's 402 is one of them.
UsualStatus(code) ==
    CASE code = "quota" -> 429
      [] code = "credential" -> 401
      [] code \in {"caller", "model", "validation"} -> 400
      [] OTHER -> None

Twins(a) ==
    {[a EXCEPT !.kind = "error event"]}
        \cup IF a.status # UsualStatus(a.code) THEN {}
             ELSE {[a EXCEPT !.kind = k, !.status = None] : k \in {"error event"} \cup
                        IF a.upstream = "claude" THEN {} ELSE {"incomplete event"}}

Comparable(a) ==
    /\ a.kind = "http" /\ a.status >= 400
    /\ ~(a.status = 403 /\ a.upstream \in {"codex", "ais"} /\ a.code # "credential")
    /\ a.code = "policy" /\ a.policyRoute => a.status \in {400, 403}
    /\ a.code = "quota" => a.status = 429 \/ (a.status = 402 /\ a.upstream # "claude")
    /\ a.windows # NoWindows => a.status = 429

ToldEitherWay ==
    Comparable(answer) => \A twin \in Twins(answer) : HttpVerdict(answer) = EventVerdict(twin)

\* "Caller 4xx, redirects, downstream cancellation ... do not penalize account
\* health" (node/README.md:462), nor does a Codex 403 "without an explicit
\* credential error" (460) or a policy's refusal, unless the operator's rules
\* cool the account.
Innocent(a) ==
    \/ a.kind \in {"cancelled", "blocked"} \/ a.status \in {200, 302}
    \/ a.status \in {400, 404} /\ a.code \in {"none", "caller", "model", "validation"}
    \/ a.code = "policy" /\ a.policyRoute /\ a.status \in {400, 403}
    \/ a.kind = "http" /\ a.upstream = "codex" /\ a.status = 403 /\ a.code # "credential"
InnocenceCostsNothing ==
    stage = "settled" /\ Innocent(answer) /\ ~Cools(Action(answer)) => loss = "nothing"

\* An account is cooled for the limits it shares, a model for its own
\* (node/README.md:462).
LimitsHitTheirOwner ==
    stage = "settled" /\ Action(answer) = None /\ answer.kind = "http"
        /\ answer.upstream = "claude" /\ answer.status = 429 /\ answer.code # "fast" =>
        /\ answer.windows.shared = "allowed" /\ answer.windows.model => loss # "cooldown"
        /\ answer.windows.shared = "rejected" => loss \notin {"model cooldown", "reauthentication"}
        /\ ~answer.windows.all /\ answer.windows.shared # "rejected" => loss # "cooldown"
        /\ answer.windows.all /\ ~answer.windows.model => loss # "model cooldown"

\* A cooldown is no longer than the provider asks or the caps allow.
CooldownIsAsked ==
    wait # None =>
        /\ wait.retryAfter # None => wait.for <= wait.retryAfter /\ wait.for <= MaxRetryAfter
        /\ wait.retryAfter = None /\ wait.for # DefaultCooldown =>
               /\ \E w \in wait.resets \cup wait.ofModel : wait.for <= w
               /\ wait.for <= MaxReset
        /\ ModelOnly(answer) /\ wait.retryAfter = None /\ wait.resets \subseteq {0} =>
               wait.for = DefaultCooldown

JudgedByItsOwn == ToldEitherWay /\ InnocenceCostsNothing /\ LimitsHitTheirOwner /\ CooldownIsAsked
================================================================================
