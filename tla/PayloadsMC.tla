----------------------------- MODULE PayloadsMC -----------------------------
(***************************************************************************)
(* Small instances of the components that translate, read or judge what    *)
(* clients and providers say, of what they remember for it and of the      *)
(* accounts and keys behind it, checked in one run: `part` says which      *)
(* component a behaviour is one of, and never changes.  The components do  *)
(* not share steps, so they share variables: x1, x2, ... stand for each    *)
(* component's variables in the order it declares them, and the rest stay  *)
(* Unused.                                                                 *)
(***************************************************************************)
EXTENDS Integers, Sequences, FiniteSets, TLC

CONSTANTS
    None,       \* no name, item, id or entry
    Missing      \* a field that is not there, where null is None

VARIABLES part, x1, x2, x3, x4, x5, x6, x7, x8, x9, x10

-----------------------------------------------------------------------------
\* Two output items and four events.
Events == INSTANCE ResponsesStream WITH
    Indexes <- {0, 1}, Items <- {"i1"}, Calls <- {"c1", "c2"}, None <- None,
    MaxTools <- 2, MaxEvents <- 4,
    tools <- x1, aliases <- x2, failure <- x3, history <- x4, ended <- x5

\* Two conversations, one of them with two turns, and room for one entry.
Memory == INSTANCE ClaudeMemory WITH
    Turns <- {"t1", "t2", "t3"}, Conversations <- {"c1", "c2"},
    ConversationOf <- "t1" :> "c1" @@ "t2" :> "c1" @@ "t3" :> "c2",
    Size <- "t1" :> 1 @@ "t2" :> 2 @@ "t3" :> 1,
    Ttl <- 1, PruneInterval <- 1, DiagnosticsLimit <- 1, EntryLimit <- 1, TurnLimit <- 2,
    SessionBytes <- 2, TotalBytes <- 3, None <- None, MaxTime <- 2,
    now <- x1, turn <- x2, entry <- x3, entryOrder <- x4, lastPrune <- x5, replay <- x6,
    replayOrder <- x7, totalBytes <- x8, finished <- x9

\* Histories of at most three messages; ids that are long and ids that equal
\* the hash of one; texts that are too long, split between two letters or within
\* one.
Message(kind, id, text, calls) == [kind |-> kind, id |-> id, text |-> text, calls |-> calls]
Messages ==
    {Message("user", "none", t, <<>>) : t \in {<<1, 3, 2, 1>>, <<1>>}}
        \cup {Message("system", "none", <<3, 3, 1>>, <<>>)}
        \cup {Message("assistant", "none", <<>>, c) : c \in {<<"a">>, <<"L1", "L2">>}}
        \cup {Message("assistant", "none", <<2>>, <<"a">>)}
        \cup {Message("call", i, <<>>, <<>>) : i \in {"a", "none", "L1"}}
        \cup {Message("output", i, <<2, 2, 3>>, <<>>) : i \in {"a", "L1", "L2", "h1", "none"}}
        \cup {Message(k, "none", <<>>, <<>>) : k \in {"reasoning", "reference", "bad"}}
History == INSTANCE ChatHistory WITH
    Histories <- UNION {[1 .. n -> Messages] : n \in 1 .. 3},
    Long <- {"L1", "L2"}, Hashed <- "L1" :> "h1" @@ "L2" :> "h2",
    MaxText <- 4, Chunk <- 3, None <- "none",
    path <- x1, continuation <- x2, given <- x3, items <- x4, lifted <- x5, stage <- x6

\* Wires of at most five characters, and limits that some events exceed.
Framing == INSTANCE Framing WITH
    D <- "d", P <- "p", CR <- "cr", LF <- "lf", MaxPlain <- 4, MaxEvent <- 1, MaxTerminal <- 2,
    MaxWire <- 5, wire <- x1, at <- x2, plain <- x3, native <- x4, ended <- x5

\* Two chunks of at most two events, and room for two of them.
First == INSTANCE FirstEvent WITH
    MaxEvents <- 2, MaxPreambles <- 2, MaxChunk <- 2, MaxChunks <- 2,
    mode <- x1, chunks <- x2, seen <- x3, preambles <- x4, verdict <- x5

\* Inputs of at most three items and answers of two events.
Compact == INSTANCE Compaction WITH
    None <- None, MaxInput <- 3, MaxEvents <- 2,
    public <- x1, input <- x2, sent <- x3, events <- x4, item <- x5, terminal <- x6, quota <- x7,
    invalid <- x8, result <- x9

\* Lists of an operator's rules, where one shadows another.
Rule(status, matches, action) == [status |-> status, matches |-> matches, action |-> action]
RuleLists ==
    {<<>>, <<Rule(429, TRUE, "stop")>>,
     <<Rule(400, FALSE, "stop"), Rule(400, TRUE, "continue-and-cooldown")>>,
     <<Rule(401, TRUE, "unknown"), Rule(401, TRUE, "continue")>>}
Judged == INSTANCE Outcomes WITH
    None <- None, MaxRetryAfter <- 3, MaxReset <- 2, DefaultCooldown <- 1, Waits <- {0, 4},
    Rules <- RuleLists,
    answer <- x1, rules <- x2, stage <- x3, verdict <- x4, loss <- x5, wait <- x6

\* Texts of two letters, some that fill the table of 16 codes, one stream with a
\* code spoiled; answers with at most two layers and headers that lie.
UpTo(S, k) == UNION {[1 .. j -> S] : j \in 0 .. k}
CompressedTexts ==
    [text : UpTo({0, 1}, 6), msb : BOOLEAN, clears : {{}, {3}}, spoiled : {<<>>}]
        \cup [text : {<<0, 1, 1, 0, 1, 0, 0, 1>>}, msb : BOOLEAN, clears : {{}},
              spoiled : (1 .. 4) \X (0 .. 7)]
        \cup [text : {[i \in 1 .. 30 |-> i % 2], [i \in 1 .. 33 |-> (i \div 3) % 4]},
              msb : BOOLEAN, clears : {{}, {14}}, spoiled : {<<>>}]
EncodedAnswers ==
    UNION {[layers : {l},
            header : {[i \in DOMAIN l |-> IF l[i] = "raw deflate" THEN "deflate" ELSE l[i]]}
                         \cup UpTo({"gzip", "identity", "other"}, 2),
            looks : [1 .. Len(l) + 1 -> BOOLEAN], sizes : [1 .. Len(l) + 1 -> {1, 34}]] :
               l \in UpTo({"gzip", "raw deflate", "br"}, 2)}
Decoded == INSTANCE Decoding WITH
    Texts <- CompressedTexts, MinBits <- 3, MaxBits <- 4, MaxBytes <- 33,
    Answers <- EncodedAnswers,
    job <- x1, input <- x2, table <- x3, output <- x4, status <- x5

\* Two calls and two ways to name one of them wrongly or not at all.
ToolCall(type, id, call) == [type |-> type, id |-> id, call |-> call, name |-> "n"]
ToolCalls ==
    {ToolCall("function", "i", "c"), ToolCall("custom", "j", "d"), ToolCall("function", "", "c"),
     ToolCall("function", "i", "d")}
FinalCalls == [item : ToolCalls, text : {<<1>>, <<1, 2>>}]
Chat == INSTANCE ChatStream WITH
    Indexes <- {0, 1}, Items <- ToolCalls, Pieces <- {<<>>, <<1>>, <<1, 2>>, <<2>>},
    Endings <- {<<>>} \cup {<<c>> : c \in FinalCalls}
                 \cup {<<c, [item |-> ToolCall("custom", "j", "d"), text |-> <<2>>]>> :
                          c \in FinalCalls},
    MaxEvents <- 3,
    entry <- x1, roleSent <- x2, toolCalls <- x3, reconciliationFailed <- x4, terminal <- x5,
    client <- x6, said <- x7, events <- x8

\* Numbers that repeat and numbers at the last one, and one item too many.
Grammar == INSTANCE PublicStream WITH
    Items <- {"a", "b"}, Numbers <- {-1, 1, 4}, MaxSequence <- 5, MaxOutput <- 1, MaxEvents <- 2,
    websocket <- x1, sequence <- x2, state <- x3, output <- x4, sent <- x5, relayed <- x6,
    given <- x7, events <- x8

\* A key presented with a blank after it, in the default scope and in another.
Access == INSTANCE ClientAccess WITH
    Raws <- {"k", "k "}, Hash <- "k" :> "k" @@ "k " :> "k", Expected <- {"k", None},
    Scopes <- {"default", "s"}, Default <- "default", Clients <- {"c"}, Window <- "c" :> TRUE,
    Vias <- {"http", "public"}, Shares <- {}, Sizes <- {"small"}, Ttl <- 1, MaxTime <- 0,
    MaxWrites <- 3, None <- None,
    live <- x1, disk <- x2, backup <- x3, expected <- x4, client <- x5, share <- x6, now <- x7,
    owed <- x8, last <- x9, writes <- x10

\* Two sockets of one key that name the same window; no operator.
Sockets == INSTANCE ClientAccess WITH
    Raws <- {"k"}, Hash <- "k" :> "k", Expected <- {"k"},
    Scopes <- {"default"}, Default <- "default", Clients <- {"c", "d"},
    Window <- "c" :> TRUE @@ "d" :> TRUE,
    Vias <- {"native"}, Shares <- {}, Sizes <- {"small", "large"}, Ttl <- 1, MaxTime <- 2,
    MaxWrites <- 0, None <- None,
    live <- x1, disk <- x2, backup <- x3, expected <- x4, client <- x5, share <- x6, now <- x7,
    owed <- x8, last <- x9, writes <- x10

\* A socket of a share, and one of a personal key, without a window.
ShareSockets == INSTANCE ClientAccess WITH
    Raws <- {"k"}, Hash <- "k" :> "k", Expected <- {"k"},
    Scopes <- {"default"}, Default <- "default", Clients <- {"c"}, Window <- "c" :> FALSE,
    Vias <- {"native", "public"}, Shares <- {"share", "personal"}, Sizes <- {"small", "large"},
    Ttl <- 1, MaxTime <- 0, MaxWrites <- 0, None <- None,
    live <- x1, disk <- x2, backup <- x3, expected <- x4, client <- x5, share <- x6, now <- x7,
    owed <- x8, last <- x9, writes <- x10

\* Usage windows that are open or used up, with and without a time when they
\* come back; windows of one model, spend controls and credits.
Usage(source, model, used, span, at, after) ==
    [source |-> source, model |-> model, used |-> used, span |-> span, at |-> at, after |-> after,
     left |-> None, unit |-> "credits", limited |-> FALSE]
UsageWindow(used, at) == Usage("window", None, used, 1, at, None)
UsageWindows ==
    {UsageWindow(u, at) : u \in {None, 0, 1}, at \in {None, 2}}
        \cup {Usage("window", None, 1, 1, 0, 1)}
ModelWindows ==
    {[Usage("extra", "m", u, 1, None, 1) EXCEPT !.limited = l] : u \in {None, 1}, l \in BOOLEAN}
SpendControls ==
    {[Usage("spend", None, 1, 0, None, r) EXCEPT !.left = l] : r \in {None, 1}, l \in {None, 2}}
        \cup {[Usage("spend", None, 0, 0, None, 1) EXCEPT !.unit = n] :
                 n \in {"usd", "credits", "other"}}
Credits(has, unlimited, balance) == [has |-> has, unlimited |-> unlimited, balance |-> balance]
NoCredits == Credits(FALSE, FALSE, None)
SomeCredits == Credits(TRUE, FALSE, 1)
Capacity(windows, extra, spend, reached, allowed, credits) ==
    [windows |-> windows, extra |-> extra, spend |-> spend, reached |-> reached,
     allowed |-> allowed, credits |-> credits]
Capacities ==
    {Capacity(<<w>>, <<>>, <<>>, FALSE, None, NoCredits) : w \in UsageWindows}
    \cup {Capacity(<<UsageWindow(1, at)>>, <<>>, <<>>, FALSE, None, c) : at \in {None, 2},
             c \in {SomeCredits, Credits(TRUE, TRUE, None), Credits(TRUE, FALSE, 0)}}
    \cup {Capacity(<<w>>, <<>>, <<>>, b, b, SomeCredits) : w \in UsageWindows, b \in BOOLEAN}
    \cup {Capacity(<<w, Usage("window", None, 1, 4, 2, None)>>, <<>>, <<>>, FALSE, None,
                   NoCredits) : w \in UsageWindows}
    \cup {Capacity(<<UsageWindow(None, 2), Usage("window", None, 0, 1, at, after)>>, <<>>, <<>>,
                   TRUE, None, Credits(TRUE, TRUE, None)) : at \in {None, 2}, after \in {None, 1}}
    \cup {Capacity(<<>>, <<m>>, <<>>, r, None, SomeCredits) : m \in ModelWindows, r \in BOOLEAN}
    \cup {Capacity(w, <<>>, <<s>>, FALSE, TRUE, SomeCredits) :
             w \in {<<>>, <<UsageWindow(1, 2)>>}, s \in SpendControls}

ClaudeWindows(kind) ==
    {Usage(kind, None, u, 1, None, None) : u \in {0, 2}}
        \cup {Usage(kind, None, 1, 1, at, None) : at \in {None, 2}}
ClaudeUsage(limits, flat, extra) ==
    [limits |-> limits, flat |-> flat, extra |-> extra, representative |-> None]
ClaudeUsages ==
    {ClaudeUsage(<<v>>, <<w>>, None) : v \in ClaudeWindows("week"), w \in ClaudeWindows("session")}
        \cup {ClaudeUsage(<<>>, <<w>>, [enabled |-> TRUE, limit |-> 2, used |-> u]) :
                 w \in ClaudeWindows("session"), u \in {1, 3}}
HeaderUsages ==
    {[windows |-> <<v, w>>, limits |-> <<>>, flat |-> <<v, w>>, representative |-> r] :
        v \in {Usage("session", None, u, 1, 2, None) : u \in {0, 2}},
        w \in {Usage("week", None, u, 1, None, None) : u \in {0, 2}}, r \in {"session", "week"}}
CompassUsages == [ok : BOOLEAN, applied : {0, 2}, balance : {None, 0, 1}, recurring : BOOLEAN]

\* One account of any type, and whatever its provider says of it.
Quota == INSTANCE Quotas WITH
    Ids <- {1}, MayBe <- 1 :> {"codex", "claude", "compass", "ais"},
    Owners <- {"p"}, Models <- {"m", "n"},
    CodexAnswers <- Capacities, ClaudeAnswers <- ClaudeUsages, ClaudeHeaders <- HeaderUsages,
    CompassAnswers <- CompassUsages, Bulks <- {},
    Full <- 1, Freshness <- 1, Month <- 2, Rate <- 1, Pieces <- 4, None <- None,
    MaxTime <- 2, MaxEpoch <- 2, MaxSpent <- 0,
    now <- x1, account <- x2, quota <- x3, told <- x4, spending <- x5, request <- x6, last <- x7,
    refused <- x8

\* Caps for all, and rules by what is left, in and out of order.
CapRule(min, cap) == [min |-> min, cap |-> cap]
BulkRequest(target, types, rules, unknown) ==
    [target |-> target, types |-> types, cap |-> 3, rules |-> rules, unknown |-> unknown]
Provided == {"codex", "claude", "compass"}
BulkRequests ==
    {BulkRequest(t, Provided, <<>>, None) : t \in {"all", "uncapped", "cap_reached"}}
        \cup {BulkRequest("rules", t, <<CapRule(0, 1), CapRule(1, 9)>>, 2) :
                 t \in {{"codex"}, Provided}}
        \cup {BulkRequest("rules", Provided, <<CapRule(1, 9), CapRule(0, 4), CapRule(0, 8)>>, None)}

\* A Codex account and one of three types, with one or two credits left.
Caps == INSTANCE Quotas WITH
    Ids <- {1, 2}, MayBe <- 1 :> {"codex"} @@ 2 :> {"codex", "compass", "ais"},
    Owners <- {"p"}, Models <- {"m"},
    CodexAnswers <- {Capacity(<<UsageWindow(0, None)>>, <<>>, <<>>, FALSE, None,
                              Credits(FALSE, FALSE, b)) : b \in {1, 2}},
    ClaudeAnswers <- {}, ClaudeHeaders <- {},
    CompassAnswers <- {[ok |-> TRUE, applied |-> 2, balance |-> b, recurring |-> FALSE] :
                          b \in {1, 2}},
    Bulks <- BulkRequests,
    Full <- 1, Freshness <- 1, Month <- 2, Rate <- 1, Pieces <- 4, None <- None,
    MaxTime <- 0, MaxEpoch <- 1, MaxSpent <- 1,
    now <- x1, account <- x2, quota <- x3, told <- x4, spending <- x5, request <- x6, last <- x7,
    refused <- x8

\* Two records of Codex accounts that may be the same account.
Policies == INSTANCE Quotas WITH
    Ids <- {1, 2}, MayBe <- 1 :> {"codex"} @@ 2 :> {"codex"}, Owners <- {"p", "q"}, Models <- {"m"},
    CodexAnswers <- {}, ClaudeAnswers <- {}, ClaudeHeaders <- {},
    CompassAnswers <- {}, Bulks <- {},
    Full <- 1, Freshness <- 1, Month <- 2, Rate <- 1, Pieces <- 4, None <- None,
    MaxTime <- 0, MaxEpoch <- 2, MaxSpent <- 0,
    now <- x1, account <- x2, quota <- x3, told <- x4, spending <- x5, request <- x6, last <- x7,
    refused <- x8

\* Inputs with ids that need a prefix, that are too long with or without it, and
\* that look like shortened ones; calls and outputs; namespaces; efforts in five
\* dialects; and one to three optional fields.
GivenId(names, base) == [names |-> names, base |-> base, hash |-> <<>>]
HashedId(names, base) ==
    [names |-> names, base |-> base, hash |-> <<[attempt |-> 0, names |-> Len(names)]>>]
InputItem(type, id, call) ==
    [type |-> type, id |-> id, call |-> call, content |-> "text", enc |-> FALSE, app |-> FALSE]
NamedItems ==
    {InputItem("message", i, None) :
        i \in {GivenId(n, b) : n \in {<<>>, <<"msg">>}, b \in {"short", "long"}}
                \cup {GivenId(<<>>, "edge"), None}
                \cup {HashedId(<<"msg">>, b) : b \in {"short", "long"}}}
    \cup {InputItem("custom", GivenId(<<>>, b), None) : b \in {"short", "long"}}
    \cup {InputItem("custom", GivenId(<<"ctco">>, "short"), None)}
NativeOnly ==
    {InputItem("reference", GivenId(<<>>, b), None) : b \in {"short", "long"}}
    \cup {[InputItem("reasoning", i, None) EXCEPT !.enc = TRUE, !.content = c] :
             i \in {GivenId(<<>>, "long"), GivenId(<<"rs">>, "long"), GivenId(<<"rs">>, "short")},
             c \in {"text", "null"}}
CallItems ==
    {InputItem("call", None, c) : c \in {"c", "d"}}
        \cup {[InputItem("output", None, c) EXCEPT !.app = a] : c \in {"c", "d"}, a \in BOOLEAN}
        \cup {[InputItem("agent", None, None) EXCEPT !.content = "sealed"]}
CodexRequest(native, optimize, orphans, items) ==
    [provider |-> "codex", via |-> "http", native |-> native, official |-> TRUE,
     optimize |-> optimize, orphans |-> orphans, subagent |-> orphans, items |-> items,
     previous |-> FALSE, spaces |-> <<>>, effort |-> [k \in 1 .. 5 |-> Missing],
     thinking |-> FALSE, fields |-> {}]
Plain == CodexRequest(FALSE, FALSE, FALSE, <<>>)
Space(name, spawn) == [name |-> name, spawn |-> spawn]
CodexRequests ==
    {CodexRequest(FALSE, FALSE, FALSE, i) : i \in [1 .. 3 -> NamedItems]}
    \cup {CodexRequest(n, FALSE, FALSE, i) :
             n \in BOOLEAN, i \in [1 .. 2 -> NamedItems \cup NativeOnly]}
    \cup {CodexRequest(FALSE, o, o, i) : o \in BOOLEAN, i \in [1 .. 3 -> CallItems]}
    \cup {[Plain EXCEPT !.optimize = o, !.spaces = <<Space("collaboration", b), Space(n, c)>>] :
             o, b, c \in BOOLEAN, n \in {"other", "collaboration", "optimize"}}
    \cup {[Plain EXCEPT !.effort = e] : e \in [1 .. 5 -> {Missing, None, "minimal"}]}
    \cup {[Plain EXCEPT !.via = v, !.fields = f \cup {"must"}] :
             v \in {"http", "websocket"}, f \in SUBSET {"a", "b", "c"}}
    \cup {[Plain EXCEPT !.provider = "compass", !.thinking = t, !.fields = f \cup {"must", "c"}] :
             t \in BOOLEAN, f \in SUBSET {"a", "b"}}
CodexSide == INSTANCE CodexInput WITH
    Requests <- CodexRequests,
    Prefix <- "message" :> "msg" @@ "reasoning" :> "rs" @@ "custom" :> "ctc",
    Extends <- {<<"ctco", "ctc">>}, Size <- "short" :> 1 @@ "edge" :> 3 @@ "long" :> 4, MaxId <- 3,
    CodexOptional <- {"a", "b", "c"}, CompassOptional <- {"a", "b"},
    Absent <- Missing, None <- None,
    given <- x1, fact <- x2, evidence <- x3, compat <- x4, sent <- x5, rejected <- x6, answer <- x7

\* Two models with older and newer rows, one of them without its long context, in
\* two tiers; one with an ultrafast tier, one that lost its rule, one of Claude's.
Rates(m30, h12) == [t \in {"30m", "12h", "1h"} |->
    CASE t = "30m" -> m30 [] t = "12h" -> h12 [] OTHER -> None]
PriceRow(model, tier, bucket, import, status, rate) ==
    [model |-> model, tier |-> tier, bucket |-> bucket, effective |-> import, captured |-> import,
     version |-> import, status |-> status, cutoff |-> IF bucket = "default" THEN None ELSE 2,
     input |-> rate, cached |-> IF rate = 1 THEN None ELSE 1, write |-> None,
     rates |-> Rates(rate + 1, rate + 2), output |-> 1]
TwoBuckets == {"short_context", "long_context"}
PriceRows ==
    {PriceRow(<<"gpt">>, "standard", b, 0, "known", 1) : b \in TwoBuckets}
    \cup {PriceRow(<<"gpt">>, "standard", "short_context", 1, "known", 3)}
    \cup {[PriceRow(<<"gpt">>, "priority", "default", c, "uniform", 4) EXCEPT !.effective = 0] :
             c \in {0, 1}}
    \cup {PriceRow(<<"gpt", "x">>, "ultrafast", "default", 0, "uniform", 9)}
    \cup {PriceRow(<<"gpt", "x">>, "standard", b, 0, "known", 5) : b \in TwoBuckets}
    \cup {PriceRow(<<"new">>, "standard", "default", 0, "uniform", 2),
           PriceRow(<<"new">>, "standard", "default", 1, "unknown", 2)}
    \cup {[PriceRow(<<"opus", "1">>, "standard", "default", 0, "uniform", 1)
             EXCEPT !.write = 2, !.rates = Rates(None, None)]}
MarkedItem(ttl, content, output) == [ttl |-> ttl, content |-> content, output |-> output]
MarkedItems ==
    {<<MarkedItem(i, <<c, None>>, <<o>>), MarkedItem(None, <<>>, <<>>)>> :
        i, c \in {None, "12h"}, o \in {None, "30m", "12h"}}
PricedRequest(models, tier, items, at, shared) ==
    [models |-> models, tier |-> tier, items |-> items, at |-> at, shared |-> shared]
PricedRequests ==
    {PricedRequest(<<<<"gpt">>>>, None, i, 0, FALSE) : i \in MarkedItems \cup {<<>>}}
    \cup {PricedRequest(<<m>>, t, <<>>, a, TRUE) :
             a \in {0, 1}, t \in {None, "priority", "ultrafast"},
             m \in {<<"gpt">>, <<"gpt", "x", "1">>, <<"opus", "1", "x", "2">>}}
    \cup {PricedRequest(<<<<"new">>, <<"gpt", "x">>, <<"gpt">>, <<"opus">>>>, None, <<>>, a,
                         FALSE) : a \in {0, 1}}
Told(input, output, cached, write, cost) ==
    [input |-> <<input>>, output |-> <<output>>, cached |-> <<Missing, cached>>,
     write |-> <<Missing, write>>, cost |-> cost, hour |-> None, model |-> None, tier |-> None]
UsageReports ==
    {[Told(3, Missing, Missing, Missing, <<>>) EXCEPT !.cached[1] = c, !.write[1] = w] :
        c, w \in {Missing, 1}}
    \cup {[Told(Missing, 3, Missing, Missing, c) EXCEPT !.cached[1] = None] :
             c \in {<<>>, <<None, 5>>, <<-1, 5>>}}
    \cup {[Told(1, 1, c, 1, <<>>) EXCEPT !.hour = h] : c \in {Missing, 2, -1}, h \in {None, -1, 2}}
    \cup {[Told(2, 1, Missing, Missing, <<>>) EXCEPT !.model = m, !.tier = t] :
             m \in {None, <<"gpt">>, <<"new">>}, t \in {"default", "ultrafast"}}
Charges == INSTANCE Prices WITH
    Published <- PriceRows, Claude <- {<<"opus", "1">>}, Numeric <- {"1", "2"},
    LongContext <- 2, MaxVisited <- 10, Requests <- PricedRequests, Reports <- UsageReports,
    MaxReports <- 2, None <- None, Absent <- Missing,
    request <- x1, heard <- x2, usage <- x3, charge <- x4

\* Object schemas with one or two properties, of every kind of schema, with and
\* without references to themselves and to others; tools in and out of namespaces.
AnySchema == [kind |-> "any"]
NoSchema == [kind |-> "never"]
EmptySchema ==
    [kind |-> "object", ref |-> None, types |-> None, props |-> None, required |-> None,
     more |-> None, items |-> None, alts |-> None, defs |-> None, enum |-> None,
     const |-> None, pattern |-> FALSE]
Typed(type) == [EmptySchema EXCEPT !.types = {type}]
Reference(name) == [EmptySchema EXCEPT !.ref = name]
ObjectOf(types, props, required, more) ==
    [EmptySchema EXCEPT !.types = types, !.props = props, !.required = required, !.more = more]
Closed == ObjectOf({"object"}, <<>>, {}, NoSchema)
Open == ObjectOf({"object"}, "a" :> Typed("string"), {}, NoSchema)
SmallSchemas ==
    {EmptySchema, AnySchema, NoSchema, Typed("string"), Reference("d"), Reference("e"),
     [Typed("string") EXCEPT !.enum = {"x"}], [EmptySchema EXCEPT !.const = "x"]}
InnerSchemas ==
    SmallSchemas \cup {Typed("object"), Typed("array")}
    \cup {ObjectOf(t, "a" :> l, r, m) : t \in {None, {"object"}}, r \in {None, {"a"}},
             l \in {Typed("string"), Reference("d")}, m \in {NoSchema, None}}
    \cup {[EmptySchema EXCEPT !.types = t, !.items = l] :
             t \in {None, {"array"}}, l \in {NoSchema, Typed("string"), Closed}}
    \cup {[EmptySchema EXCEPT !.alts = <<l, Typed("string")>>, !.types = t] :
             l \in {NoSchema, Closed, Open}, t \in {None, {"string"}, {"string", "object"}}}
SchemaDefs ==
    {None} \cup {"d" :> d :
        d \in {ObjectOf({"object"}, "a" :> Reference("d"), {"a"}, NoSchema),
               Typed("string"), Typed("object"), Open, Reference("d")}}
ToolParameters ==
    {[ObjectOf(t, "a" :> n, r, m) EXCEPT !.defs = d] : t \in {None, {"object"}},
        n \in InnerSchemas, r \in {None, {"a"}}, m \in {None, AnySchema, NoSchema},
        d \in SchemaDefs}
    \cup {[ObjectOf({"object"}, "a" :> n, {"a"}, NoSchema) EXCEPT !.pattern = TRUE] :
             n \in SmallSchemas}
    \cup {ObjectOf({"object"}, "a" :> n @@ "b" :> Typed("string"), {"a"}, NoSchema) :
             n \in SmallSchemas}
    \cup SmallSchemas
Tool(type, name, strict, params) ==
    [type |-> type, name |-> name, strict |-> strict, params |-> params, async |-> "absent",
     deferred |-> FALSE, tools |-> <<>>]
SimpleTool == Tool("function", "f", "false", Closed)
CustomTool(name) == Tool("custom", name, "absent", None)
Group(name, tools) == [Tool("namespace", name, "absent", None) EXCEPT !.tools = tools]
Hosted == Tool("hosted", None, "absent", None)
GroupedTools ==
    {CustomTool("p"), CustomTool("q"), SimpleTool, [CustomTool("p") EXCEPT !.async = "bad"],
     [SimpleTool EXCEPT !.type = "mcp"], [SimpleTool EXCEPT !.deferred = TRUE]}
ToolLists ==
    {<<a, Group("s", b)>> : a \in GroupedTools,
        b \in {<<c, d>> : c, d \in GroupedTools} \cup {<<>>}}
    \cup {<<Group("s", <<a>>), Group("t", <<b>>), Hosted>> : a, b \in GroupedTools}
Choice(type, name, tools) == [type |-> type, name |-> name, tools |-> tools]
FreeChoice == Choice("auto", None, {})
ToolChoices ==
    {FreeChoice, Choice("programmatic", None, {}), Choice("allowed_tools", None, {}),
     Choice("allowed_tools", None, {Choice("hosted", None, {})})}
    \cup {Choice(t, n, {}) : t \in {"function", "custom"}, n \in {"f", "p", "z"}}
    \cup {Choice("allowed_tools", None, {Choice(t, n, {})}) :
             t \in {"function", "custom"}, n \in {"f", "p"}}
ItemUpdate(type, effort, extra, async, tools) ==
    [type |-> type, effort |-> effort, extra |-> extra, async |-> async, tools |-> tools]
ItemUpdates ==
    {ItemUpdate("configuration_update", e, x, "absent", <<>>) :
        e \in {"string", "other"}, x \in BOOLEAN}
    \cup {ItemUpdate("call", None, FALSE, a, <<>>) : a \in {"absent", "boolean", "bad"}}
    \cup {ItemUpdate("additional_tools", None, FALSE, "absent", <<t>>) : t \in GroupedTools}
ToolRequest(tools, choice, format, updates) ==
    [tools |-> tools, choice |-> choice, format |-> format, updates |-> updates]
ToolRequests ==
    {ToolRequest(<<Tool("function", "f", t, p)>>, FreeChoice, None, <<>>) :
        p \in ToolParameters \cup {None}, t \in {"false", "true"}}
    \cup {ToolRequest(<<Tool("function", "f", t, p)>>, FreeChoice, None, <<>>) :
             p \in SmallSchemas \cup {None}, t \in {"null", "absent", "bad"}}
    \cup {ToolRequest(<<Group("s", <<Tool("function", "f", t, p)>>)>>, FreeChoice, None, <<>>) :
             p \in SmallSchemas \cup {None}, t \in {"null", "true", "false"}}
    \cup {ToolRequest(t, c, None, <<>>) : t \in ToolLists, c \in ToolChoices}
    \cup {ToolRequest(<<SimpleTool>>, FreeChoice, None, <<u>>) : u \in ItemUpdates}
    \cup {ToolRequest(<<>>, FreeChoice, [strict |-> b, schema |-> p], <<>>) :
             b \in BOOLEAN, p \in SmallSchemas \cup {Closed}}
Instance(type, is, fields, list) == [type |-> type, is |-> is, fields |-> fields, list |-> list]
Text(x) == Instance("string", x, <<>>, <<>>)
Object(fields) == Instance("object", None, fields, <<>>)
List(list) == Instance("array", None, <<>>, list)
InnerValues ==
    {Text("x"), Text("y"), Object(<<>>), Object("a" :> Text("x")), List(<<>>), List(<<Text("x")>>),
     List(<<Object(<<>>)>>)}
ToolValues ==
    InnerValues \cup {Object("a" :> v) : v \in InnerValues}
        \cup {Object("a" :> v @@ "b" :> w) : v, w \in InnerValues}
        \cup {Object("c" :> Text("x")), Object("a" :> Text("x") @@ "c" :> Text("x"))}
Tools == INSTANCE ToolSchemas WITH
    Requests <- ToolRequests, Values <- ToolValues, Patterned <- {"c"}, None <- None,
    request <- x1, status <- x2, adapted <- x3, call <- x4

ASSUME ParametersFit ==
    /\ Events!ResponsesStreamAssumption /\ Framing!LimitsAreOrdered /\ First!SomeEventsFit
    /\ Decoded!WidthsFit /\ Chat!IndexesCount /\ Grammar!LimitsFit
    /\ Access!ClockIsWide /\ Sockets!ClockIsWide /\ ShareSockets!ClockIsWide
    /\ Quota!QuotasFit /\ Caps!QuotasFit /\ Policies!QuotasFit
    /\ CodexSide!SizesFit /\ Charges!RowsAreCoherent

-----------------------------------------------------------------------------
Unused == 0

Idle10 == x10 = Unused
Idle9 == x9 = Unused /\ Idle10
Idle8 == x8 = Unused /\ x9 = Unused /\ Idle10
Idle7 == x7 = Unused /\ Idle8
Idle6 == x6 = Unused /\ Idle7
Idle5 == x5 = Unused /\ Idle6

From6 == <<x6, x7, x8, x9, x10>>

vars == <<part, x1, x2, x3, x4, x5, From6>>

Init ==
    \/ part = "events"     /\ Events!Init     /\ Idle6
    \/ part = "memory"     /\ Memory!Init     /\ Idle10
    \/ part = "history"    /\ History!Init    /\ Idle7
    \/ part = "framing"    /\ Framing!Init /\ Idle6
    \/ part = "first"      /\ First!Init /\ Idle6
    \/ part = "compaction" /\ Compact!Init /\ Idle10
    \/ part = "outcomes"   /\ Judged!Init /\ Idle7
    \/ part = "decoding"   /\ Decoded!Init /\ Idle6
    \/ part = "chat"       /\ Chat!Init /\ Idle9
    \/ part = "grammar"    /\ Grammar!Init /\ Idle9
    \/ part = "access"     /\ Access!Init
    \/ part = "sockets"    /\ Sockets!Init
    \/ part = "shares"     /\ ShareSockets!Init
    \/ part = "quotas"     /\ Quota!Init /\ Idle9
    \/ part = "caps"       /\ Caps!Init /\ Idle9
    \/ part = "policies"   /\ Policies!Init /\ Idle9
    \/ part = "input"      /\ CodexSide!Init /\ Idle8
    \/ part = "prices"     /\ Charges!Init /\ Idle5
    \/ part = "tools"      /\ Tools!Init /\ Idle5

Next ==
    /\ UNCHANGED part
    /\ \/ part = "events"     /\ Events!Next     /\ UNCHANGED From6
       \/ part = "memory"     /\ Memory!Next     /\ UNCHANGED x10
       \/ part = "history"    /\ History!Next    /\ UNCHANGED <<x7, x8, x9, x10>>
       \/ part = "framing"    /\ Framing!Next /\ UNCHANGED From6
       \/ part = "first"      /\ First!Next /\ UNCHANGED From6
       \/ part = "compaction" /\ Compact!Next /\ UNCHANGED <<x10>>
       \/ part = "outcomes"   /\ Judged!Next /\ UNCHANGED <<x7, x8, x9, x10>>
       \/ part = "decoding"   /\ Decoded!Next /\ UNCHANGED From6
       \/ part = "chat"       /\ Chat!Next /\ UNCHANGED <<x9, x10>>
       \/ part = "grammar"    /\ Grammar!Next /\ UNCHANGED <<x9, x10>>
       \/ part = "access"     /\ Access!Next
       \/ part = "sockets"    /\ Sockets!Next
       \/ part = "shares"     /\ ShareSockets!Next
       \/ part = "quotas"     /\ Quota!Next /\ UNCHANGED <<x9, x10>>
       \/ part = "caps"       /\ Caps!Next /\ UNCHANGED <<x9, x10>>
       \/ part = "policies"   /\ Policies!Next /\ UNCHANGED <<x9, x10>>
       \/ part = "input"      /\ CodexSide!Next /\ UNCHANGED <<x8, x9, x10>>
       \/ part = "prices"     /\ Charges!Next /\ UNCHANGED <<x5, From6>>
       \/ part = "tools"      /\ Tools!Next /\ UNCHANGED <<x5, From6>>

Spec == Init /\ [][Next]_vars

-----------------------------------------------------------------------------
\* Each component's variables have their types.
TypeOK ==
    /\ part = "events"     => Events!TypeOK
    /\ part = "memory"     => Memory!TypeOK
    /\ part = "history"    => History!TypeOK
    /\ part = "framing"    => Framing!TypeOK
    /\ part = "first"      => First!TypeOK
    /\ part = "compaction" => Compact!TypeOK
    /\ part = "outcomes"   => Judged!TypeOK
    /\ part = "decoding"   => Decoded!TypeOK
    /\ part = "chat"       => Chat!TypeOK
    /\ part = "grammar"    => Grammar!TypeOK
    /\ part = "access"     => Access!TypeOK
    /\ part = "sockets"    => Sockets!TypeOK
    /\ part = "shares"     => ShareSockets!TypeOK
    /\ part = "quotas"     => Quota!TypeOK
    /\ part = "caps"       => Caps!TypeOK
    /\ part = "policies"   => Policies!TypeOK
    /\ part = "input"      => CodexSide!TypeOK
    /\ part = "prices"     => Charges!TypeOK
    /\ part = "tools"      => Tools!TypeOK

\* Streams (openai-streaming.js, native-sse.js, responses-stream-integrity.js;
\* proxy.js, inspectInitialSseEvent; upstream-response.js): events are cut the
\* same however the bytes arrive, and a body is decoded as it was encoded; a
\* stream is given up for another account only before it showed anything; one
\* that the client is told completed was opened, numbered upwards and had tool
\* calls that add up, and a Chat client has those calls, which are the ones of
\* an answer that is not streamed (proxy.js, responsesToChat).
StreamsAreWhole ==
    /\ part = "events" => Events!CompletionIsCertified
    /\ part = "framing"    => Framing!ChunksDoNotMatter /\ Framing!NothingIsDropped
                            /\ Framing!NoSuffixIsAnEvent
    /\ part = "first"      => First!RetryIsInvisible /\ First!WithheldIsBounded
                            /\ First!FailureInTheFirstChunkFailsOver
    /\ part = "decoding"   => Decoded!DecodedFaithfully
    /\ part = "chat"       => Chat!ChatIsTold
    /\ part = "grammar"    => Grammar!StreamIsGrammatical

\* What is kept about conversations and accounts is true of them.  The replay
\* store (claude-thinking-replay.js) counts the bytes it holds and stays within
\* its limits, and a turn is told of the latest turn before it (claude-
\* protocol.js); an answer (upstream-outcomes.js) costs an account what it says
\* of it; keys and scopes (store.js) let in, for as long as a socket lives,
\* whom the operator was told they do; quotas and caps (domain.js, store.js,
\* provider-credits.js) stop an account that used them up and no other; and an
\* attempt (pricing.js) is charged for all that was told of it, at the rates in
\* force when it began.
RecordsAreSound ==
    /\ part = "memory" => Memory!ReplayIsAccountedFor /\ Memory!PreviousIsTheLatest
    /\ part = "outcomes"   => Judged!JudgedByItsOwn
    /\ part = "access"     => Access!AccessIsSound
    /\ part = "sockets"    => Sockets!AccessIsSound
    /\ part = "shares"     => ShareSockets!AccessIsSound
    /\ part = "quotas"     => Quota!QuotasAreHonoured
    /\ part = "caps"       => Caps!QuotasAreHonoured
    /\ part = "policies"   => Policies!QuotasAreHonoured
    /\ part = "prices"     => Charges!ChargesAreSound

\* Chat and Responses histories (openai-adapters.js): nothing a client said is
\* lost, doubled or reordered, calls keep their results, ids stay apart; and a
\* history is replaced by a compaction (proxy.js) only when that is of all of
\* it, and whole. What a provider rejects is left out (codex-compatibility.js)
\* and nothing else. Tools (openai-adapters.js, openai-streaming.js) keep what they
\* permit and the names they are called by.
HistoryIsKept ==
    /\ part = "history" => History!HistoryIsKept
    /\ part = "compaction" => Compact!NothingIsCompactedAway /\ Compact!ReplacedByAWhole
    /\ part = "input"      => CodexSide!RequestIsKept
    /\ part = "tools"      => Tools!ToolsAreKept

=============================================================================
