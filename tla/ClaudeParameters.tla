-------------------------- MODULE ClaudeParameters --------------------------
(***************************************************************************)
(* Thinking, sampling and token limits of a Claude request                 *)
(* (claude-protocol.js normalizeClaudeBody and applyClaudeModelSuffix):    *)
(* what the body asks for is normalised first, then the suffix of the      *)
(* model name, as in claude-sonnet-4-6(8192), has its way.                 *)
(***************************************************************************)
EXTENDS Integers

CONSTANTS
    Budgets,    \* numeric suffixes, 0 among them
    Limits,     \* max_tokens a caller may give
    Least,      \* the smallest budget the provider takes: 1024
    Default     \* max_tokens of a body that gives none: 1024

ParametersAssumption ==
    /\ Least \in Nat \ {0} /\ Default \in Nat \ {0}
    /\ Limits \subseteq Nat /\ Budgets \subseteq Nat

Absent == -1

VARIABLES
    given,      \* what the caller sent
    body,
    stage

vars == <<given, body, stage>>

Suffixes == {<<"", 0>>, <<"none", 0>>, <<"auto", 0>>, <<"level", 0>>} \cup {<<"budget", n>> : n \in Budgets}

Requests ==
    [thinking : {"absent", "enabled", "adaptive", "disabled"}, budget : {Absent},
     effort : BOOLEAN, forced : BOOLEAN, native : BOOLEAN, count : BOOLEAN,
     temperature : BOOLEAN, topP : BOOLEAN, topK : BOOLEAN,
     max : Limits \cup {Absent}, suffix : Suffixes]

Bodies ==
    [thinking : {"absent", "enabled", "adaptive", "disabled"}, budget : Int,
     effort : BOOLEAN, forced : BOOLEAN, native : BOOLEAN, count : BOOLEAN,
     temperature : BOOLEAN, topP : BOOLEAN, topK : BOOLEAN,
     max : Int, suffix : Suffixes]

TypeOK ==
    /\ given \in Requests /\ body \in Bodies
    /\ stage \in {"received", "normalised", "suffixed", "sent"}

Init ==
    /\ given \in Requests
    /\ body = given
    /\ stage = "received"

\* What a body asks for in the way of thinking.
Thinks(b, thinking, effort) == [b EXCEPT !.thinking = thinking, !.effort = effort]

\* normalizeClaudeBody.  A budget of the caller's becomes an effort; a forced
\* tool excludes thinking; thinking excludes some of the sampling.
Adapted(b) == IF b.thinking = "enabled" THEN Thinks(b, "adaptive", TRUE) ELSE b

Unforced(b) == IF b.forced THEN Thinks(b, "absent", FALSE) ELSE b

\* Sampling values are those the provider refuses beside thinking.
Sampled(b) ==
    IF ~b.native
    THEN [b EXCEPT !.temperature = FALSE, !.topP = FALSE, !.topK = @ /\ b.thinking = "absent"]
    ELSE IF b.thinking = "adaptive"
         THEN [b EXCEPT !.temperature = FALSE, !.topP = FALSE, !.topK = FALSE]
         ELSE [b EXCEPT !.topP = @ /\ ~b.temperature]

Limited(b) == IF b.max = Absent THEN [b EXCEPT !.max = Default] ELSE b

Normalise ==
    /\ stage = "received"
    /\ body' = Limited(Sampled(Unforced(Adapted(body))))
    /\ stage' = "normalised"
    /\ UNCHANGED given

\* Mutant: a budget of all tokens is let through.
BudgetOver(b, n) ==
    IF given.max = Absent THEN [b EXCEPT !.max = n + 1]
    ELSE IF n > b.max /\ b.max - 1 >= Least THEN [b EXCEPT !.budget = b.max - 1] ELSE b

\* max_tokens > budget_tokens, where a budget fits at all.
BudgetWithin(b, n) ==
    IF given.max = Absent THEN [b EXCEPT !.max = n + 1]
    ELSE IF b.max > 1 /\ n >= b.max /\ b.max - 1 >= Least THEN [b EXCEPT !.budget = b.max - 1] ELSE b

\* applyClaudeModelSuffix.
Suffixed(b, suffix) ==
    LET n == suffix[2]
    IN CASE suffix[1] = "" -> b
         [] suffix[1] = "none" \/ suffix = <<"budget", 0>> -> Thinks(b, "disabled", FALSE)
         [] suffix[1] = "auto"  -> Thinks(b, "adaptive", FALSE)
         [] suffix[1] = "level" -> Thinks(b, "adaptive", TRUE)
         [] OTHER -> BudgetWithin([Thinks(b, "enabled", FALSE) EXCEPT !.budget = n], n)

Suffix ==
    /\ stage = "normalised"
    /\ body' = Suffixed(body, given.suffix)
    /\ stage' = "suffixed"
    /\ UNCHANGED given

\* A token count at Anthropic carries neither thinking nor a limit.
Send ==
    /\ stage = "suffixed"
    /\ body' = IF given.count
               THEN [body EXCEPT !.thinking = "absent", !.budget = Absent, !.effort = FALSE, !.max = Absent]
               ELSE body
    /\ stage' = "sent"
    /\ UNCHANGED given

Next == Normalise \/ Suffix \/ Send

Spec == Init /\ [][Next]_vars

-----------------------------------------------------------------------------

(* A request leaves with a budget below its max_tokens, whatever budget,    *)
(* limit, thinking and tool choice it came with, unless the limit leaves   *)
(* no room for the least budget; and when no suffix asked for thinking, a  *)
(* forced tool never meets thinking, nor thinking top_k (the constraints   *)
(* of claude-protocol.js applyClaudeModelSuffix and normalizeClaudeBody).  *)
ThinkingIsAcceptable ==
    stage = "sent" =>
      /\ body.thinking = "enabled" => body.budget < body.max \/ given.max \in 0..Least
      /\ given.suffix[1] = "" =>
           /\ body.forced => body.thinking = "absent" /\ ~body.effort
           /\ body.thinking = "adaptive" => ~body.topK /\ ~body.temperature

\* No thinking beside a forced tool, no sampling beside thinking.
Unasked(b) ==
    /\ b.forced => b.thinking = "absent" /\ ~ b.effort
    /\ b.thinking = "adaptive" => ~ b.topK /\ ~ b.temperature

(* The inductive invariant: what normalising leaves for the suffix, and    *)
(* what the suffix leaves for sending.                                     *)
ParametersInv ==
    /\ TypeOK
    /\ body.forced = given.forced
    /\ stage = "received" => body = given
    /\ stage = "normalised" =>
         /\ Unasked(body) /\ body.thinking # "enabled"
         /\ body.max = IF given.max = Absent THEN Default ELSE given.max
    /\ stage \in {"suffixed", "sent"} =>
         /\ body.thinking = "enabled" => body.budget < body.max \/ given.max \in 0 .. Least
         /\ given.suffix[1] = "" => Unasked(body)
=============================================================================
