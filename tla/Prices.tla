------------------------------- MODULE Prices -------------------------------
(***************************************************************************)
(* What one attempt costs: pricing.js.  The provider tells the usage in    *)
(* pieces, under the names of several protocols; the pieces are merged,    *)
(* and settled at the cost the provider states, or at the rows of the      *)
(* price table in force when the attempt began.  A share lets a request in *)
(* only for a model that has a price.                                      *)
(*                                                                         *)
(* A model is the sequence of the parts of its name; rates are per token   *)
(* and whole; the price rows, which are data, are parameters.              *)
(***************************************************************************)
EXTENDS Integers, Sequences, FiniteSets, SequencesExt, FiniteSetsExt

CONSTANTS
    Published,      \* the rows of the price table
    Claude,         \* models priced with Claude's cache-write rates
    Numeric,        \* the parts of names that are numbers or dates
    LongContext,    \* LONG_CONTEXT_INPUT_TOKEN_THRESHOLD
    MaxVisited,     \* how many values requestCacheWriteTtl visits
    Requests,       \* what is asked for: [models, tier, items, at, shared]
    Reports,        \* what providers say of the usage
    MaxReports,     \* bound: pieces of usage
    None,           \* undefined
    Absent          \* a field that is not there, where null is None

VARIABLES
    request,
    heard,          \* the reports so far
    usage,          \* what they merge to, None before the first
    charge          \* None until settled; then its cost, or that there is no price

vars == <<request, heard, usage, charge>>

Ttls == {"30m", "12h", "1h"}
Row == [model : Seq(STRING), tier : {"standard", "priority", "flex", "ultrafast"},
        bucket : {"default", "short_context", "long_context"},
        effective : Nat, captured : Nat, version : Nat,
        status : {"uniform", "known", "unknown"}, cutoff : Nat \cup {None},
        input : Nat, cached : Nat \cup {None}, write : Nat \cup {None},
        rates : [Ttls -> Nat \cup {None}], output : Nat]

SameImport(r, s) ==
    /\ r.version = s.version /\ r.effective = s.effective /\ r.captured = s.captured

\* Rows of a model and tier of one date come from one import, with one rule
\* about context and one row for each bucket.
RowsAreCoherent ==
    /\ Published \subseteq Row /\ MaxReports > 0 /\ MaxVisited > 1
    /\ \A r, s \in Published :
         (/\ r.model = s.model /\ r.tier = s.tier
          /\ r.effective = s.effective /\ r.captured = s.captured)
         => /\ SameImport(r, s) /\ r.status = s.status /\ r.cutoff = s.cutoff
            /\ r.bucket = s.bucket => r = s

\* withClaudeCacheWriteRates: an hour's write costs twice the input.
Rows ==
    {IF r.model \in Claude /\ r.write # None
       THEN [r EXCEPT !.rates = [t \in Ttls |-> IF t = "1h" THEN 2 * r.input ELSE None]]
       ELSE r : r \in Published}

-----------------------------------------------------------------------------
Or(value, other) == IF value = None THEN other ELSE value
Least(a, b) == IF a < b THEN a ELSE b

\* The first spelling that is there, which may be null; -1 is no count.
First(values) ==
    LET there == SelectSeq(values, LAMBDA v : v # Absent)
    IN IF there = <<>> THEN None ELSE there[1]
Malformed(value) == value # None /\ value < 0

\* The first name of a cost that has a value decides, whatever that is.
UpstreamCostMicros(costs) ==
    LET given == SelectSeq(costs, LAMBDA c : c \notin {None, Absent})
    IN IF given = <<>> \/ Malformed(Head(given)) THEN None ELSE Head(given)

\* A report is [input, output, cached, write, cost : spellings in turn, hour,
\* model, tier]; the second spellings of cached and write are Anthropic's, which
\* counts neither in its input.
ExtractUsage(report) ==
    LET input  == First(report.input)
        output == First(report.output)
        cached == First(report.cached)
        write  == First(report.write)
        cost   == UpstreamCostMicros(report.cost)
        apart  == report.cached[2] # Absent \/ report.write[2] # Absent
        full   == IF input = None \/ ~apart THEN input
                  ELSE input + Or(cached, 0) + Or(write, 0)
    IN CASE \E count \in {input, output, cached, write} : Malformed(count) -> None
         [] {input, output, cached, write, cost} = {None} -> None
         [] full # None /\ Or(cached, 0) + Or(write, 0) > full -> None
         [] OTHER -> [model |-> report.model, input |-> full, output |-> output,
                      cached |-> cached, write |-> write,
                      hour |-> IF Malformed(report.hour) THEN None ELSE report.hour,
                      tier |-> report.tier, cost |-> cost]

\* A later report changes what it tells of, and nothing else.
MergeUsage(previous, next) ==
    CASE previous = None -> next
      [] next = None -> previous
      [] OTHER -> [f \in DOMAIN next |->
                     Or(next[f], Or(previous[f], IF f \in {"cached", "write"} THEN 0 ELSE None))]

CompleteUsage(told) ==
    /\ told # None
    /\ told.input # None /\ told.output # None
    /\ Or(told.cached, 0) + Or(told.write, 0) <= told.input

HasMeasuredUsage(told) == CompleteUsage(told) \/ (told # None /\ told.cost # None)

-----------------------------------------------------------------------------
\* The name, then the name without its last parts, of which one at most is not
\* a number.
ModelCandidates(model) ==
    LET Words(n) == Cardinality({k \in n + 1 .. Len(model) : model[k] \notin Numeric})
        kept == {n \in 1 .. Len(model) : n = Len(model) \/ Words(n) <= 1}
    IN [i \in 1 .. Cardinality(kept) |-> SubSeq(model, 1, Len(model) + 1 - i)]

CanonicalTier(tier) ==
    CASE tier \in {"fast", "priority"} -> "priority"
      [] tier \in {"flex", "ultrafast"} -> tier
      [] OTHER -> "standard"

FirstNotEmpty(rows, others) == IF rows # {} THEN rows ELSE others
Preferred(rows, tier) ==
    FirstNotEmpty({r \in rows : r.tier = tier},
                  {r \in rows : r.tier = IF tier = "ultrafast" THEN tier ELSE "standard"})

Newer(r, s) ==
    r.effective > s.effective \/ (r.effective = s.effective /\ r.captured > s.captured)
Anchor(rows) == CHOOSE r \in rows : \A s \in rows : ~Newer(s, r)

Buckets(rule, input) ==
    IF rule.status # "uniform" /\ input > Or(rule.cutoff, LongContext)
      THEN <<"long_context", "default">> ELSE <<"default", "short_context">>

\* One row per bucket of an import, the buckets in the order they are wanted.
RowIn(import, buckets) ==
    LET wanted == SelectSeq(buckets, LAMBDA b : \E r \in import : r.bucket = b)
    IN IF wanted = <<>> THEN <<"next">>
       ELSE <<"row", CHOOSE r \in import : r.bucket = Head(wanted)>>

RowUnder(anchor, rows, input) ==
    IF anchor.status = "unknown" THEN <<"none">>
    ELSE RowIn({r \in rows : SameImport(r, anchor)}, Buckets(anchor, input))

RowAmong(rows, input) ==
    IF rows = {} THEN <<"next">> ELSE RowUnder(Anchor(rows), rows, input)

\* The row of one candidate, "next" for the candidates after it, or none.
RowOf(model, tier, at, input) ==
    RowAmong(Preferred({r \in Rows : r.model = model /\ r.effective <= at}, tier), input)

FirstDecided(outcomes) ==
    LET decided == SelectSeq(outcomes, LAMBDA o : o[1] # "next")
    IN IF decided = <<>> \/ decided[1][1] = "none" THEN None ELSE decided[1][2]

ResolvePrice(models, tier, at, input) ==
    LET names == FlattenSeq([i \in DOMAIN models |-> ModelCandidates(models[i])])
    IN FirstDecided([i \in DOMAIN names |-> RowOf(names[i], tier, at, input)])

IsPricedModel(model, at) == ResolvePrice(<<model>>, "standard", at, 0) # None

Score(row) == row.input + row.output
CheapestOf(models, rows) ==
    LET best == {i \in DOMAIN rows : /\ rows[i] # None
                                     /\ \A j \in DOMAIN rows :
                                          rows[j] # None => Score(rows[i]) <= Score(rows[j])}
    IN models[IF best = {} THEN 1 ELSE Min(best)]

CheapestPricedModel(models, at) ==
    CheapestOf(models, [i \in DOMAIN models |-> ResolvePrice(<<models[i]>>, "standard", at, 0)])

\* Values are visited from the last: the two lists, then each item, its list of
\* parts and the parts.  The parts of a tool's output are not visited.
RequestCacheWriteTtl(items) ==
    LET Values(item) == <<item.ttl, None>> \o Reverse(item.content)
        visited == <<None, None>> \o FlattenSeq(Reverse([i \in DOMAIN items |-> Values(items[i])]))
    IN IF \E k \in 1 .. Least(MaxVisited, Len(visited)) : visited[k] = "12h"
         THEN "12h" ELSE "30m"

\* The tier that was asked for counts when the provider echoes the default.
TierOf(asked, reported) ==
    IF CanonicalTier(asked) = "priority" /\ reported = "default"
      THEN "priority" ELSE CanonicalTier(Or(reported, asked))

\* A client names one model; a connection test takes the cheapest there is.
Asked == CheapestPricedModel(request.models, request.at)

Models(told) == SelectSeq(<<told.model, Asked>>, LAMBDA m : m # None)

\* The tokens by what they cost, each with its rate.
Billed(told, row) ==
    LET cached == Least(Or(told.cached, 0), told.input)
        write  == Or(told.write, 0)
        rate   == Or(row.write, row.rates[RequestCacheWriteTtl(request.items)])
        hour   == Least(Or(told.hour, 0), write)
    IN [input  |-> <<told.input - cached - write, row.input>>,
        cached |-> <<cached, row.cached>>,
        write  |-> <<write - hour, rate>>,
        hour   |-> <<hour, Or(row.rates["1h"], rate)>>,
        output |-> <<told.output, row.output>>]

Unpriced == [source |-> "none"]

BilledAs(bill, row, told) ==
    IF \/ Or(told.write, 0) > 0 /\ bill.write[2] = None
       \/ bill.cached[1] > 0 /\ row.cached = None
    THEN Unpriced
    ELSE [source |-> "pricing_snapshot", row |-> row, bill |-> bill,
          micros |-> FoldFunction(+, 0,
                       [k \in DOMAIN bill |-> bill[k][1] * Or(bill[k][2], 0)])]

PriceAt(row, told) ==
    IF row = None THEN Unpriced ELSE BilledAs(Billed(told, row), row, told)

PriceUsage(told) ==
    IF ~CompleteUsage(told) THEN Unpriced
    ELSE PriceAt(ResolvePrice(Models(told), TierOf(request.tier, told.tier), request.at,
                              told.input), told)

-----------------------------------------------------------------------------
TypeOK ==
    /\ request \in Requests
    /\ Len(heard) <= MaxReports /\ ToSet(heard) \subseteq Reports
    /\ usage # None => DOMAIN usage = {"model", "input", "output", "cached", "write", "hour",
                                        "tier", "cost"}
    /\ charge # None => charge.source \in {"none", "pricing_snapshot", "upstream_reported",
                                           "released"}

\* shareModelUnpriced: a share refuses a model without a price.
Init ==
    /\ request \in {r \in Requests : r.shared => IsPricedModel(r.models[1], r.at)}
    /\ heard = <<>> /\ usage = None /\ charge = None

Report(report) ==
    /\ charge = None
    /\ Len(heard) < MaxReports
    /\ heard' = Append(heard, report)
    /\ usage' = MergeUsage(usage, ExtractUsage(report))
    /\ UNCHANGED <<request, charge>>

CostIsStated == usage # None /\ usage.cost # None

\* settleUsage: the cost that the provider stated, or the table's.
Settle ==
    /\ charge' = IF CostIsStated THEN [source |-> "upstream_reported", micros |-> usage.cost]
                 ELSE PriceUsage(usage)
    /\ UNCHANGED <<request, heard, usage>>

Completed == charge = None /\ Settle

\* settleFailedAttempt: what was measured before the failure is paid for.
Failed ==
    /\ charge = None
    /\ \/ HasMeasuredUsage(usage) /\ Settle
       \/ /\ ~HasMeasuredUsage(usage)
          /\ charge' = [source |-> "released"]
          /\ UNCHANGED <<request, heard, usage>>

Next == (\E report \in Reports : Report(report)) \/ Completed \/ Failed

Spec == Init /\ [][Next]_vars

-----------------------------------------------------------------------------
Priced == charge # None /\ charge.source = "pricing_snapshot"

\* The rates are of one import, the latest of its model and tier when the
\* attempt began, of the bucket its rule names where that import has it; and
\* ultrafast is never billed at the rates of another tier (README.md, "Pricing is
\* a small generated snapshot").
RatesAreInForce ==
    Priced =>
        LET row    == charge.row
            long   == row.status = "known" /\ usage.input > Or(row.cutoff, LongContext)
            Others == {r \in Published : r.model = row.model /\ r.tier = row.tier}
        IN /\ row.status # "unknown"
           /\ row.effective <= request.at
           /\ \A r \in Others : r.effective <= request.at =>
                /\ r.effective <= row.effective
                /\ r.effective = row.effective => r.captured <= row.captured
           /\ (\E r \in Others : SameImport(r, row) /\ r.bucket = "long_context")
                => (row.bucket = "long_context" <=> long)
           /\ Or(usage.tier, request.tier) = "ultrafast" => row.tier = "ultrafast"
           /\ \E i \in DOMAIN Models(usage) : IsPrefix(row.model, Models(usage)[i])

\* Every token of the input is billed once, and at a rate that is known: usage
\* that has none for part of it is not billed, never billed for less
\* ("an unpriced write would let the request escape the spending cap").
EveryTokenIsPaidFor ==
    Priced =>
        /\ \A k \in DOMAIN charge.bill :
             /\ charge.bill[k][1] >= 0
             /\ charge.bill[k][1] > 0 => charge.bill[k][2] # None
        /\ LET Tokens(k) == charge.bill[k][1]
           IN Tokens("input") + Tokens("cached") + Tokens("write") + Tokens("hour") = usage.input

\* Of everything the provider told, the last word counts, however the pieces of
\* it were spread over the stream; a cost it stated is what is settled, and no
\* attempt that cost something measurable is let go because it failed.
NothingToldIsForgotten ==
    LET pieces == SelectSeq([i \in DOMAIN heard |-> ExtractUsage(heard[i])],
                            LAMBDA p : p # None)
        Telling(f) == SelectSeq(pieces, LAMBDA p : p[f] # None)
        States(report) ==
            \E k \in DOMAIN report.cost :
                /\ report.cost[k] \in Nat
                /\ \A j \in 1 .. k - 1 : report.cost[j] \in {None, Absent}
    IN /\ (usage = None) = (pieces = <<>>)
       /\ usage # None => \A f \in DOMAIN usage :
            Telling(f) # <<>> => usage[f] = Last(Telling(f))[f]
       /\ charge # None /\ pieces # <<>> =>
            /\ (\E i \in DOMAIN heard : ExtractUsage(heard[i]) # None /\ States(heard[i]))
                 => charge.source = "upstream_reported"
            /\ charge.source = "released" => Telling("input") = <<>> \/ Telling("output") = <<>>
                                               \/ ~CompleteUsage(usage)

\* Writes are billed at no less than the rate of any time to live that an item
\* or a part of its content asked for ("exact or an upper bound").
WritesArePaidInFull ==
    Priced /\ charge.row.write = None =>
        \A i \in DOMAIN request.items :
            \A ttl \in ({request.items[i].ttl} \cup ToSet(request.items[i].content)) \ {None} :
                Or(charge.bill["write"][2], 0) >= Or(charge.row.rates[ttl], 0)

\* A connection test is of a model with a price, and none listed costs less.
TestsAreCheap ==
    LET Costs(m) == LET row == ResolvePrice(<<m>>, "standard", request.at, 0)
                    IN IF row = None THEN None ELSE Score(row)
    IN heard = <<>> =>
         LET cost  == Costs(Asked)
             given == {Costs(request.models[i]) : i \in DOMAIN request.models}
         IN given # {None} => cost # None /\ \A c \in given \ {None} : cost <= c

\* What an attempt is charged.
ChargesAreSound ==
    /\ TestsAreCheap /\ RatesAreInForce /\ EveryTokenIsPaidFor
    /\ NothingToldIsForgotten /\ WritesArePaidInFull

\* Observed: a part of a tool's output may carry a mark too, which is not looked
\* at: its write is billed at the lower rate.
WritesOfOutputsArePaid ==
    Priced /\ charge.row.write = None =>
        \A i \in DOMAIN request.items : \A ttl \in ToSet(request.items[i].output) \ {None} :
            Or(charge.bill["write"][2], 0) >= Or(charge.row.rates[ttl], 0)

\* Observed: what a share is let in for is a price of the standard tier and of no
\* input; what it used may have none, and is then free.
SharesArePaidFor ==
    charge # None /\ request.shared /\ CompleteUsage(usage) => charge.source # "none"

=============================================================================
