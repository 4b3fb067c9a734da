-------------------------------- MODULE Framing --------------------------------
(***************************************************************************)
(* Server-sent events cut out of a byte stream that arrives in chunks of   *)
(* any size: the parser of every translated stream (openai-streaming.js,   *)
(* consumeSseChunk) and the one of native streams (native-sse.js,          *)
(* consumeNativeSse), which relays what it observes and may stop observing *)
(* but never relaying.  Both read the same wire here.                      *)
(*                                                                         *)
(* A character is a letter of an event, P for a first line that labels the *)
(* event as a preamble, CR or LF; characters have one byte.                *)
(***************************************************************************)
EXTENDS Integers, Sequences, SequencesExt

CONSTANTS
    D, P, CR, LF,
    MaxPlain,           \* MAX_SSE_EVENT_BYTES
    MaxEvent,           \* NATIVE_SSE_EVENT_BYTES
    MaxTerminal,        \* NATIVE_SSE_TERMINAL_BYTES
    MaxWire             \* bound

LimitsAreOrdered ==
    MaxPlain \in Nat /\ MaxEvent \in Nat /\ MaxTerminal \in Nat /\ MaxEvent <= MaxTerminal

VARIABLES
    wire,       \* everything the provider sends
    at,         \* how much of it has been read
    plain,      \* the parser of consumeSseChunk and the blocks it has cut
    native,     \* the parser of consumeNativeSse and its parts
    ended

vars == <<wire, at, plain, native, ended>>

Char == {D, P, CR, LF}
Endings == {CR, LF}
Wires == UNION {[1 .. n -> Char] : n \in 1 .. MaxWire}

Part == [kind : {"block", "raw", "preamble_overflow"}, block : Seq(Char), wire : Seq(Char)]

TypeOK ==
    /\ wire \in Seq(Char) /\ at \in 0 .. Len(wire) /\ ended \in BOOLEAN
    /\ plain.part \in Seq(Char) /\ plain.pendingLf \in BOOLEAN /\ plain.skipLeadingLf \in BOOLEAN
    /\ plain.overflow \in BOOLEAN /\ \A b \in Range(plain.blocks) : b \in Seq(Char)
    /\ native.buffer \in Seq(Char) /\ native.carry \in Seq(Char) /\ native.discarding \in BOOLEAN
    /\ \A p \in Range(native.parts) : p \in Part

From(s, i) == SubSeq(s, i, Len(s))

\* Every line ending is a line feed: \r\n? becomes \n.
Unified(s) ==
    LET kept == SetToSortSeq({i \in DOMAIN s : ~(i > 1 /\ s[i] = LF /\ s[i - 1] = CR)}, <)
    IN [k \in DOMAIN kept |-> IF s[kept[k]] = CR THEN LF ELSE s[kept[k]]]

Blank(s) == Range(s) \subseteq Endings

-----------------------------------------------------------------------------
(* consumeSseChunk *)

Fresh == [part |-> <<>>, pendingLf |-> FALSE, skipLeadingLf |-> FALSE, overflow |-> FALSE,
          blocks |-> <<>>]

\* One character of the unified chunk.
PlainStep(parser, c) ==
    IF parser.overflow THEN parser
    ELSE IF c # LF THEN
        LET part == parser.part \o (IF parser.pendingLf THEN <<LF, c>> ELSE <<c>>)
        IN [parser EXCEPT !.part = part, !.pendingLf = FALSE, !.overflow = Len(part) > MaxPlain]
    ELSE IF parser.pendingLf THEN
        [parser EXCEPT !.blocks = Append(@, parser.part), !.part = <<>>, !.pendingLf = FALSE]
    ELSE
        [parser EXCEPT !.pendingLf = TRUE, !.overflow = Len(parser.part) + 1 > MaxPlain]

\* The LF of a CR LF that was split between two chunks counts once.
AfterLeadingLf(parser, chunk) ==
    IF parser.skipLeadingLf /\ chunk[1] = LF THEN Tail(chunk) ELSE chunk

ConsumeChunk(parser, chunk) ==
    [FoldLeft(PlainStep, parser, Unified(AfterLeadingLf(parser, chunk)))
        EXCEPT !.skipLeadingLf = Last(chunk) = CR]

\* pendingSseBlock, read at the end and taken when it is not blank.
PendingBlock(parser) == parser.part \o (IF parser.pendingLf THEN <<LF>> ELSE <<>>)

-----------------------------------------------------------------------------
(* consumeNativeSse *)

FreshNative == [buffer |-> <<>>, discarding |-> FALSE, carry |-> <<>>, parts |-> <<>>]

\* How long a line ending at i is; a CR at the end of what was read may be half
\* of one, unless the stream has ended.
EndingAt(s, i) ==
    CASE i > Len(s) -> 0
      [] s[i] = LF -> 1
      [] s[i] = CR /\ i < Len(s) -> IF s[i + 1] = LF THEN 2 ELSE 1
      [] OTHER -> 0

\* The first empty line at or after a place: where it begins and where it ends.
\* The search stops at half an ending.
Delimiters(s, offset) ==
    LET first == IF offset > 1 /\ offset <= Len(s) /\ s[offset] = LF /\ s[offset - 1] = CR
                 THEN offset - 1 ELSE offset
        Starts == {i \in first .. Len(s) : s[i] \in Endings
                                           /\ ~(i > first /\ s[i] = LF /\ s[i - 1] = CR)}
    IN {<<i, i + EndingAt(s, i) + EndingAt(s, i + EndingAt(s, i)) - 1>> : i \in
            {j \in Starts : EndingAt(s, j) > 0 /\ EndingAt(s, j + EndingAt(s, j)) > 0}}

HasDelimiter(s, offset) == Delimiters(s, offset) # {}
DelimiterAt(s, offset) == CHOOSE d \in Delimiters(s, offset) :
                              \A e \in Delimiters(s, offset) : d[1] <= e[1]

TrailingEnding(s) ==
    IF Len(s) > 1 /\ Last(s) = LF /\ s[Len(s) - 1] = CR THEN <<CR, LF>>
    ELSE IF Last(s) \in Endings THEN <<Last(s)>> ELSE <<>>

\* nativeSsePreamble and observationLimit
Preamble(block) == block # <<>> /\ block[1] = P /\ (Len(block) = 1 \/ block[2] \in Endings)
ObservationLimit(block) ==
    IF Preamble(block) /\ Len(block) > 1 THEN MaxEvent ELSE MaxTerminal

ContentLength(s) ==
    LET Letters == {i \in DOMAIN s : s[i] \notin Endings}
    IN IF Letters = {} THEN 0 ELSE CHOOSE n \in Letters : \A i \in Letters : i <= n

Cut(kind, block, text) == [kind |-> kind, block |-> block, wire |-> text]

\* One round of the loop; input is what is left of the chunk.
NativeStep(state) ==
    LET discarded == state.carry \o state.input
        combined == state.buffer \o state.input
        start == IF Len(state.buffer) > 2 THEN Len(state.buffer) - 1 ELSE 1
    IN CASE state.discarding /\ ~HasDelimiter(discarded, 1) ->
              [state EXCEPT !.parts = Append(@, Cut("raw", <<>>, state.input)),
                            !.carry = TrailingEnding(discarded), !.input = <<>>]
         [] state.discarding /\ HasDelimiter(discarded, 1) ->
              LET consumed == DelimiterAt(discarded, 1)[2] - Len(state.carry)
              IN [state EXCEPT !.parts = Append(@, Cut("raw", <<>>, SubSeq(state.input, 1, consumed))),
                               !.input = From(state.input, consumed + 1),
                               !.discarding = FALSE, !.carry = <<>>]
         [] ~state.discarding /\ HasDelimiter(combined, start) ->
              LET d == DelimiterAt(combined, start)
                  block == SubSeq(combined, 1, d[1] - 1)
                  whole == SubSeq(combined, 1, d[2])
                  over == Len(block) > ObservationLimit(block)
                  kind == IF ~over THEN "block"
                          ELSE IF Preamble(block) THEN "preamble_overflow" ELSE "raw"
              IN [state EXCEPT !.parts = Append(@, Cut(kind, IF over THEN <<>> ELSE Unified(block), whole)),
                               !.input = From(combined, d[2] + 1), !.buffer = <<>>]
         [] OTHER ->
              IF ContentLength(combined) > ObservationLimit(combined)
              THEN [state EXCEPT !.parts = Append(@, Cut(IF Preamble(combined) THEN "preamble_overflow"
                                                         ELSE "raw", <<>>, combined)),
                                 !.buffer = <<>>, !.discarding = TRUE,
                                 !.carry = TrailingEnding(combined), !.input = <<>>]
              ELSE [state EXCEPT !.buffer = combined, !.input = <<>>]

\* Every round but the first, which may take what was buffered, shortens the
\* input.
Rounds(state) ==
    FoldLeft(LAMBDA st, c : IF st.input = <<>> THEN st ELSE NativeStep(st), state, Append(state.input, LF))

ConsumeNative(state, chunk) ==
    LET done == Rounds([buffer |-> state.buffer, discarding |-> state.discarding,
                        carry |-> state.carry, parts |-> state.parts, input |-> chunk])
    IN [buffer |-> done.buffer, discarding |-> done.discarding, carry |-> done.carry,
        parts |-> done.parts]

-----------------------------------------------------------------------------
Init ==
    /\ wire \in Wires /\ at = 0
    /\ plain = Fresh /\ native = FreshNative
    /\ ended = FALSE

\* A read of the provider's stream.
Read ==
    /\ ~ended
    /\ \E n \in at + 1 .. Len(wire) :
        LET chunk == SubSeq(wire, at + 1, n)
        IN /\ at' = n
           /\ plain' = ConsumeChunk(plain, chunk)
           /\ native' = ConsumeNative(native, chunk)
    /\ UNCHANGED <<wire, ended>>

\* The end of it.
End ==
    /\ ~ended /\ at = Len(wire)
    /\ ended' = TRUE
    /\ plain' = IF Blank(PendingBlock(plain)) THEN plain
                ELSE [plain EXCEPT !.blocks = Append(@, PendingBlock(plain))]
    /\ native' = [FreshNative EXCEPT !.parts =
                    native.parts \o (IF native.discarding \/ native.buffer = <<>> THEN <<>>
                                     ELSE <<Cut("block", Unified(native.buffer), native.buffer)>>)]
    /\ UNCHANGED <<wire, at>>

Next == Read \/ End

Spec == Init /\ [][Next]_vars

-----------------------------------------------------------------------------
Seen == SubSeq(wire, 1, at)
Joined(blocks) == FoldLeft(LAMBDA acc, b : acc \o b \o <<LF, LF>>, <<>>, blocks)
WireOf(parts) == FoldLeft(LAMBDA acc, p : acc \o p.wire, <<>>, parts)

\* The translating parser cuts the same events however the stream was chunked:
\* its blocks with empty lines between them are what was read, and it cuts at
\* the first empty line it can (openai-streaming.js, consumeSseChunk).
ChunksDoNotMatter ==
    ~plain.overflow /\ ~ended =>
        /\ Joined(plain.blocks) \o PendingBlock(plain) = Unified(Seen)
        /\ \A b \in Range(plain.blocks) : b # <<>> => Last(b) # LF
        /\ \A b \in Range(plain.blocks) \cup {plain.part} :
              \A i \in 1 .. Len(b) - 1 : <<b[i], b[i + 1]>> # <<LF, LF>>

\* The native relay passes on every character once and in order, whatever it
\* stopped observing (native-sse.js:54).
NothingIsDropped == WireOf(native.parts) \o native.buffer = Seen

Trimmed(b) == SubSeq(b, 1, ContentLength(b))
Observed == LET blocks == SelectSeq(native.parts, LAMBDA p : p.kind = "block" /\ ~Blank(p.block))
            IN [k \in DOMAIN blocks |-> Trimmed(blocks[k].block)]
Cuts == LET blocks == SelectSeq(plain.blocks, LAMBDA b : ~Blank(b))
        IN [k \in DOMAIN blocks |-> Trimmed(blocks[k])]

\* What the native parser observes are events of the stream, in their order,
\* never a suffix of one it gave up; and all of them when none was oversized
\* (native-sse.js:55, "so a suffix cannot be interpreted as another event").
NoSuffixIsAnEvent ==
    ended /\ ~plain.overflow =>
        /\ \E kept \in SUBSET DOMAIN Cuts :
              /\ Cardinality(kept) = Len(Observed)
              /\ LET order == SetToSortSeq(kept, <)
                 IN \A k \in DOMAIN Observed : Observed[k] = Cuts[order[k]]
        /\ (\A p \in Range(native.parts) : p.kind = "block") => Observed = Cuts
=============================================================================
