-------------------------------- MODULE Decoding --------------------------------
(***************************************************************************)
(* What is done with the bytes of a Claude answer (upstream-response.js):  *)
(* the stacked content encodings are taken off one by one, the last one    *)
(* first (decodeBytes), and "compress" by a decoder of its own             *)
(* (decodeUnixCompress), whose codes grow wider as its table fills.        *)
(*                                                                         *)
(* A code is read with the width the decoder expects it to have: one that  *)
(* was written with another width is not read as itself.  The widths here  *)
(* are those of an alphabet of 2^(MinBits - 1) letters.                    *)
(***************************************************************************)
EXTENDS Integers, Sequences, SequencesExt

CONSTANTS
    Texts,          \* what was compressed
    MinBits,        \* 9
    MaxBits,        \* flags & 0x1f
    MaxBytes,       \* maxBytes
    Answers         \* [layers, header, looks, sizes]: see DecodeBytes

WidthsFit == MinBits \in Nat /\ MaxBits \in Nat /\ 1 < MinBits /\ MinBits <= MaxBits /\ MaxBytes \in Nat

VARIABLES
    job,        \* what is decoded: [text, msb, clears, spoiled] or an answer
    input,      \* the codes still to read, each with its width
    table,      \* prefix and suffix of each code, next code, width, previous, final
    output,     \* the letters decoded, or the answer as it is by now
    status      \* "decoding", "done", "failed"

vars == <<job, input, table, output, status>>

Clear == 2 ^ (MinBits - 1)
Letters == 0 .. Clear - 1

\* Streams whose codes start with the high bit reserve the code after Clear.
FirstCode(msb) == IF msb THEN Clear + 2 ELSE Clear + 1
Eof == Clear + 1

Wider(width, next) == IF next >= 2 ^ width /\ width < MaxBits THEN width + 1 ELSE width

-----------------------------------------------------------------------------
(* The compressor: the longest known string, then the string one longer is  *)
(* known.  It clears its table when it likes, after the codes in `clears`.  *)

Code(string, known) ==
    IF Len(string) = 1 THEN string[1] ELSE CHOOSE c \in DOMAIN known : known[c] = string

Knows(string, known) == Len(string) = 1 \/ \E c \in DOMAIN known : known[c] = string

Write(e, code) == [e EXCEPT !.codes = Append(@, [code |-> code, width |-> e.width])]

Cleared(e, msb) ==
    [Write(e, Clear) EXCEPT !.known = <<>>, !.next = FirstCode(msb), !.width = MinBits]

Emit(e, letter, job_) ==
    LET written == Write(e, Code(e.string, e.known))
        wider == [written EXCEPT !.width = Wider(@, written.next)]
        grown == IF letter = -1 \/ wider.next >= 2 ^ MaxBits THEN wider
                 ELSE [wider EXCEPT !.known = [c \in DOMAIN @ \cup {wider.next} |->
                                                  IF c = wider.next THEN Append(e.string, letter) ELSE @[c]],
                                    !.next = @ + 1]
        said == IF Len(grown.codes) \in job_.clears THEN Cleared(grown, job_.msb) ELSE grown
    IN [said EXCEPT !.string = <<letter>>]

Compressed(job_) ==
    LET blank == [string |-> <<>>, known |-> <<>>, next |-> FirstCode(job_.msb), width |-> MinBits,
                  codes |-> <<>>]
        step(e, x) ==
            IF e.string = <<>> THEN [e EXCEPT !.string = <<x>>]
            ELSE IF Knows(Append(e.string, x), e.known) THEN [e EXCEPT !.string = Append(@, x)]
            ELSE Emit(e, x, job_)
        last == FoldLeft(step, IF job_.msb THEN Cleared(blank, TRUE) ELSE blank, job_.text)
        done == IF last.string = <<>> THEN last ELSE Emit(last, -1, job_)
    IN (IF job_.msb THEN Write(done, Eof) ELSE done).codes

\* A code of the stream replaced by another one.
Spoiled(codes, spoiled) ==
    IF spoiled = <<>> \/ spoiled[1] > Len(codes) THEN codes
    ELSE [codes EXCEPT ![spoiled[1]] = [@ EXCEPT !.code = spoiled[2] % 2 ^ codes[spoiled[1]].width]]

-----------------------------------------------------------------------------
(* decodeUnixCompress *)

Empty(msb) == [prefix |-> <<>>, suffix |-> <<>>, next |-> FirstCode(msb), width |-> MinBits,
               previous |-> -1, final |-> 0]

\* emitString: the string of a code, by way of its prefixes.
String(code) ==
    LET string[c \in 0 .. 2 ^ MaxBits] ==
        IF c \in Letters \/ c \notin DOMAIN table.prefix THEN <<c>>
        ELSE Append(string[table.prefix[c]], table.suffix[c])
    IN string[code]

\* A code the table does not hold yet may only be the next one.
Meaning(code) ==
    IF code < table.next THEN String(code) ELSE Append(String(table.previous), table.final)

Fails == status' = "failed" /\ UNCHANGED <<table, output>>

Ends == status' = "done" /\ UNCHANGED <<table, output>>

Learn(code, first) ==
    IF table.next >= 2 ^ MaxBits THEN [table EXCEPT !.previous = code, !.final = first]
    ELSE LET c == table.next
         IN [prefix |-> [d \in DOMAIN table.prefix \cup {c} |->
                            IF d = c THEN table.previous ELSE table.prefix[d]],
             suffix |-> [d \in DOMAIN table.suffix \cup {c} |->
                            IF d = c THEN first ELSE table.suffix[d]],
             next |-> c + 1, width |-> Wider(table.width, c + 1), previous |-> code,
             final |-> first]

ReadCode ==
    /\ "text" \in DOMAIN job /\ status = "decoding"
    /\ IF input = <<>> THEN Ends /\ UNCHANGED input
       ELSE LET code == Head(input).code
            IN /\ input' = Tail(input)
               /\ IF Head(input).width # table.width THEN Fails
                  ELSE IF job.msb /\ code = Eof THEN Ends
                  ELSE IF code = Clear THEN
                      /\ table' = [table EXCEPT !.width = MinBits, !.next = FirstCode(job.msb),
                                                !.previous = -1]
                      /\ UNCHANGED <<output, status>>
                  ELSE IF table.previous < 0 THEN
                      IF code > Clear \/ Len(output) >= MaxBytes THEN Fails
                      ELSE /\ output' = Append(output, code)
                           /\ table' = [table EXCEPT !.final = code, !.previous = code]
                           /\ UNCHANGED status
                  ELSE IF code > table.next \/ Len(output) + Len(Meaning(code)) > MaxBytes THEN Fails
                  ELSE /\ output' = output \o Meaning(code)
                       /\ table' = Learn(code, Meaning(code)[1])
                       /\ UNCHANGED status
    /\ UNCHANGED job

-----------------------------------------------------------------------------
(* decodeBytes.  An answer has layers, the outermost last, and says in its   *)
(* header which; `looks` of each layer tells whether its first character is  *)
(* one a plain answer begins with, `sizes` how long it is.                   *)

Outermost(answer) == Len(answer.layers) + 1

LooksPlain(answer) == answer.looks[Outermost(answer)]

Sniffed(answer) ==
    answer.layers # <<>> /\ Last(answer.layers) \in {"gzip", "zstd"}

ShouldDecode(answer) == IF answer.header # <<>> THEN ~LooksPlain(answer) ELSE Sniffed(answer)

Named(answer) == IF answer.header # <<>> THEN answer.header ELSE <<Last(answer.layers)>>

Decodes(name, layers) ==
    name = "identity"
        \/ /\ layers # <<>>
           /\ \/ Last(layers) = name /\ name \in {"gzip", "deflate", "br", "zstd", "compress"}
              \/ name = "deflate" /\ Last(layers) = "raw deflate"

Peeled(name, layers) == IF name = "identity" THEN layers ELSE Front(layers)

Peel ==
    /\ "layers" \in DOMAIN job /\ status = "decoding"
    /\ IF input = <<>> THEN Ends /\ UNCHANGED input
       ELSE LET rest == Peeled(Last(input), output)
            IN /\ input' = Front(input)
               /\ IF ~Decodes(Last(input), output) \/ job.sizes[Len(rest) + 1] > MaxBytes THEN Fails
                  ELSE output' = rest /\ UNCHANGED <<table, status>>
    /\ UNCHANGED job

-----------------------------------------------------------------------------
Init ==
    \/ /\ job \in Texts
       /\ input = Spoiled(Compressed(job), job.spoiled)
       /\ table = Empty(job.msb) /\ output = <<>> /\ status = "decoding"
    \/ /\ job \in Answers
       /\ input = IF ShouldDecode(job) THEN Named(job) ELSE <<>>
       /\ table = Empty(FALSE) /\ output = job.layers /\ status = "decoding"

Next == ReadCode \/ Peel

Spec == Init /\ [][Next]_vars

TypeOK ==
    /\ status \in {"decoding", "done", "failed"}
    /\ table.width \in MinBits .. MaxBits
    /\ table.next \in Clear + 1 .. 2 ^ MaxBits
    /\ DOMAIN table.prefix = DOMAIN table.suffix
    /\ table.previous \in -1 .. 2 ^ MaxBits - 1

-----------------------------------------------------------------------------
\* What was compressed comes out, however often the compressor cleared its
\* table and however full it got: each code is read with the width it was
\* written with, and means the string it meant there.
TextComesOut ==
    ("text" \in DOMAIN job /\ job.spoiled = <<>> /\ Len(job.text) <= MaxBytes) =>
        status # "failed" /\ (status = "done" => output = job.text)

\* Whatever the stream says, following the prefixes of a code ends at a letter:
\* an entry only builds on codes before it.
EntriesAreGrounded ==
    "text" \in DOMAIN job =>
        \A c \in DOMAIN table.prefix : c < table.next => table.prefix[c] < c

\* Nothing longer than the limit is ever held.
OutputIsBounded ==
    /\ "text" \in DOMAIN job => Len(output) <= MaxBytes
    /\ ("layers" \in DOMAIN job /\ status = "done" /\ output # job.layers) =>
           job.sizes[Len(output) + 1] <= MaxBytes

\* An answer is passed on as it came, or with every layer its header names taken
\* off: never half decoded.
AllLayersOrNone ==
    ("layers" \in DOMAIN job /\ status = "done") =>
        \/ output = job.layers
        \/ job.header = <<>> /\ output = Front(job.layers)
        \/ Len(output) = Len(job.layers) - Len(SelectSeq(job.header, LAMBDA n : n # "identity"))

\* An answer that says what it is, and does not begin like a plain one, is
\* never passed on encoded.
TruthIsDecoded ==
    ("layers" \in DOMAIN job /\ status = "done" /\ job.header = job.layers
        /\ ~job.looks[Len(job.layers) + 1]) => output = <<>>

DecodedFaithfully ==
    /\ TextComesOut /\ EntriesAreGrounded /\ OutputIsBounded /\ AllLayersOrNone
    /\ TruthIsDecoded

=============================================================================
