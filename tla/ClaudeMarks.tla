---------------------------- MODULE ClaudeMarks -----------------------------
(***************************************************************************)
(* The cache marks of a Claude request (claude-protocol.js,                *)
(* prepareClaudeRequestBody and the functions it shapes a body with).  A   *)
(* body is tools, system blocks and messages of blocks; a block is its     *)
(* kind and its cache_control.  Four passes over the same blocks add,      *)
(* lengthen, shorten and remove marks, before and after the operator's     *)
(* payload rules have had their say.                                       *)
(*                                                                         *)
(* Text, names and signatures are abstracted away.                         *)
(***************************************************************************)
EXTENDS Integers, Sequences, FiniteSets, FiniteSetTheorems, TLAPS

CONSTANTS
    Bodies,     \* the bodies that callers send
    Limit       \* cache marks the provider accepts: 4

\* A mark: none, one without a ttl, and the two ttls.
Marks == {"none", "bare", "5m", "1h"}
Kinds == {"tool", "deferred", "text", "string", "thinking", "result", "reminder"}
Blocks == [kind : Kinds, mark : Marks]
Block(kind, mark) == [kind |-> kind, mark |-> mark]
Messages == [role : {"user", "assistant", "system"}, blocks : Seq(Blocks)]
Body == [tools : Seq(Blocks), system : Seq(Blocks), messages : Seq(Messages)]

\* Two marks may be added to a body without any.
MarksAssumption == Bodies \subseteq Body /\ Limit \in Nat /\ Limit > 1

VARIABLES
    path,       \* which way prepareClaudeRequestBody takes the request
    given,      \* the body the caller sent
    body,
    stage

vars == <<path, given, body, stage>>

\* "plain": an account that is not cloaked; "open": an OAuth account with
\* cloaking off; "cloaked" and "strict"; "count": a cloaked token count.
Paths == {"plain", "open", "cloaked", "strict", "count"}

TypeOK ==
    /\ path \in Paths /\ stage \in {"received", "shaped", "configured", "sent"}
    /\ body \in Body /\ given \in Body

-----------------------------------------------------------------------------
(* Blocks in the order the provider reads them *)

\* Where the blocks of a body are: in its tools (0), its system (1) or its
\* messages (2), in which message, and at which index.
Places(b) ==
    {<<0, 1, i>> : i \in 1 .. Len(b.tools)} \cup {<<1, 1, i>> : i \in 1 .. Len(b.system)}
        \cup UNION {{<<2, m, i>> : i \in 1 .. Len(b.messages[m].blocks)} :
                     m \in 1 .. Len(b.messages)}

Ahead(p, q) ==
    p[1] < q[1] \/ (p[1] = q[1] /\ (p[2] < q[2] \/ (p[2] = q[2] /\ p[3] < q[3])))

MarkAt(b, p) ==
    IF p[1] = 0 THEN b.tools[p[3]].mark
    ELSE IF p[1] = 1 THEN b.system[p[3]].mark ELSE b.messages[p[2]].blocks[p[3]].mark

MarkedPlaces(b) == {p \in Places(b) : MarkAt(b, p) # "none"}
Count(b) == Cardinality(MarkedPlaces(b))

\* A body with other marks at its blocks.
Remarked(b, marks) ==
    LET blocks(seq, part, m) ==
            [i \in 1 .. Len(seq) |-> [seq[i] EXCEPT !.mark = marks[<<part, m, i>>]]]
    IN [tools |-> blocks(b.tools, 0, 1),
        system |-> blocks(b.system, 1, 1),
        messages |-> [m \in 1 .. Len(b.messages) |->
                        [b.messages[m] EXCEPT !.blocks = blocks(@, 2, m)]]]

-----------------------------------------------------------------------------
(* The four passes *)

\* normalizeClaudeCacheControlTtls: a bare mark takes the ttl; an hour after
\* five minutes is shortened.
Lengthened(b, ttl) ==
    [p \in Places(b) |-> IF MarkAt(b, p) = "bare" /\ ttl # "" THEN ttl ELSE MarkAt(b, p)]

Shortened(marks) ==
    [p \in DOMAIN marks |->
        IF marks[p] = "1h" /\ \E q \in DOMAIN marks : Ahead(q, p) /\ marks[q] \in {"bare", "5m"}
        THEN "bare" ELSE marks[p]]

Normalized(b, ttl) == Remarked(b, Shortened(Lengthened(b, ttl)))

\* enforceClaudeCacheControlLimit removes marks until Limit are left: those
\* of system but the last one, of tools but the last one, of messages, then
\* what is left of system and of tools.
Round(b, p) ==
    LET last == ~ \E q \in MarkedPlaces(b) : q[1] = p[1] /\ Ahead(p, q)
    IN CASE p[1] = 0 -> IF last THEN 5 ELSE 2
         [] p[1] = 1 -> IF last THEN 4 ELSE 1
         [] OTHER -> 3

\* The marks that go before the one at p.
Sooner(b, p) ==
    {q \in MarkedPlaces(b) :
        Round(b, q) < Round(b, p) \/ (Round(b, q) = Round(b, p) /\ Ahead(q, p))}

WithoutMarks(b, gone) ==
    Remarked(b, [p \in Places(b) |-> IF p \in gone THEN "none" ELSE MarkAt(b, p)])

\* Mutant: a mark too many is let through.
EnforcedButOne(b) ==
    WithoutMarks(b, {p \in MarkedPlaces(b) : Limit + 1 + Cardinality(Sooner(b, p)) < Count(b)})

Enforced(b) ==
    WithoutMarks(b, {p \in MarkedPlaces(b) : Limit + Cardinality(Sooner(b, p)) < Count(b)})

\* The mark that ensureClaudeCacheControls gives the block at i of a sequence.
WithMark(seq, i, ttl) ==
    [seq EXCEPT ![i].mark =
        IF @ \in {"none", "bare"} THEN IF ttl = "" THEN "bare" ELSE ttl ELSE @]
NoneMarked(seq) == \A i \in 1 .. Len(seq) : seq[i].mark = "none"

LastOf(S) == IF S = {} THEN 0 ELSE CHOOSE i \in S : \A j \in S : j <= i
FirstOf(S) == IF S = {} THEN 0 ELSE CHOOSE i \in S : \A j \in S : i <= j

\* ensureClaudeCacheControls: the last tool where there is no system, the last
\* system block, and the last message that may carry a mark, each unless its
\* part has one.
Ensured(b, ttl) ==
    LET tool == LastOf({i \in 1 .. Len(b.tools) : b.tools[i].kind # "deferred"})
        tools == IF b.system = <<>> /\ tool > 0 /\ NoneMarked(b.tools)
                 THEN WithMark(b.tools, tool, ttl) ELSE b.tools
        system == IF b.system # <<>> /\ NoneMarked(b.system)
                  THEN WithMark(b.system, Len(b.system), ttl) ELSE b.system
        final == Len(b.messages)
        eligible == LastOf({i \in 1 .. final :
                      LET m == b.messages[i]
                      IN /\ m.role # "system" /\ m.blocks # <<>>
                         /\ ~(m.role = "assistant" /\ m.blocks[Len(m.blocks)].kind = "thinking")})
        finalSystem ==
            /\ final > 0 /\ b.messages[final].role = "system"
            /\ b.messages[final].blocks # <<>> /\ b.messages[final].blocks[1].kind = "string"
        chosen == IF eligible > 0 /\ finalSystem THEN final ELSE eligible
        messages == IF chosen > 0 /\ NoneMarked(b.messages[chosen].blocks)
                    THEN [b.messages EXCEPT ![chosen].blocks = WithMark(@, Len(@), ttl)]
                    ELSE b.messages
    IN Normalized([tools |-> tools, system |-> system, messages |-> messages], ttl)

-----------------------------------------------------------------------------
(* Shaping *)

FirstUser(messages) ==
    FirstOf({i \in 1 .. Len(messages) : messages[i].role = "user"})

\* The tool results that lead a message stay in front.
AfterResults(blocks) ==
    FirstOf({i \in 1 .. Len(blocks) : blocks[i].kind # "result"} \cup {Len(blocks) + 1})

Inserted(blocks, new) ==
    LET at == AfterResults(blocks)
    IN SubSeq(blocks, 1, at - 1) \o new \o SubSeq(blocks, at, Len(blocks))

\* relocateClaudeSystemPrompt: the caller's system texts become reminders in
\* the first user message for an older model, marked system messages behind
\* it for a newer one.
Relocated(messages, system, legacy) ==
    LET first == FirstUser(messages)
        after == {i \in first..Len(messages) : \A j \in first..i : messages[j].role = "user"}
        at == LastOf(after)
    IN IF system = <<>> \/ first = 0 THEN messages
       ELSE IF legacy
            THEN [messages EXCEPT ![first].blocks =
                    Inserted(@, [i \in 1..Len(system) |-> Block("reminder", "none")])]
            ELSE SubSeq(messages, 1, at)
                 \o [i \in 1..Len(system) |->
                        [role |-> "system", blocks |-> <<Block("text", "bare")>>]]
                 \o SubSeq(messages, at + 1, Len(messages))

\* injectClaudeCurrentDate: the first text of the first user message is
\* marked anew, and the date goes in front of it.
Dated(messages) ==
    LET first == FirstUser(messages)
        blocks == messages[first].blocks
        text == FirstOf({i \in 1 .. Len(blocks) : blocks[i].kind \in {"text", "string"}})
        marked == IF text = 0 THEN blocks ELSE [blocks EXCEPT ![text].mark = "bare"]
    IN IF first = 0 THEN messages
       ELSE [messages EXCEPT ![first].blocks = Inserted(marked, <<Block("reminder", "none")>>)]

\* shapeClaudeOAuthBody.
ClaudeCodeSystem == <<Block("text", "none"), Block("text", "bare")>>

Shaped(b, legacy, ttl) ==
    LET relocated == IF path = "strict" THEN b.messages ELSE Relocated(b.messages, b.system, legacy)
    IN Enforced(Ensured([tools |-> b.tools, system |-> ClaudeCodeSystem,
                         messages |-> Dated(relocated)], ttl))

-----------------------------------------------------------------------------
(* prepareClaudeRequestBody *)

Init ==
    /\ path \in Paths
    /\ given \in Bodies
    /\ body = given
    /\ stage = "received"

\* Everything before the operator's rules.
Shape ==
    /\ stage = "received"
    /\ stage' = "shaped"
    /\ \/ /\ path = "plain"
          /\ body' = IF Count(body) = 0 THEN Ensured(body, "") ELSE body
       \/ /\ path = "open"
          /\ UNCHANGED body
       \/ /\ path \in {"cloaked", "strict"}
          /\ \E legacy \in BOOLEAN, ttl \in {"", "1h"} : body' = Shaped(body, legacy, ttl)
       \/ /\ path = "count"
          /\ \E legacy \in BOOLEAN :
                body' = [body EXCEPT !.system = <<>>,
                                     !.messages = Relocated(@, body.system, legacy)]
    /\ UNCHANGED <<path, given>>

\* applyClaudePayloadConfig: a rule may set or remove the mark of a block.
Configure ==
    /\ stage = "shaped"
    /\ stage' = "configured"
    /\ \/ UNCHANGED body
       \/ \E p \in Places(body), mark \in {"none", "1h", "5m"} :
             body' = Remarked(body, [q \in Places(body) |->
                                        IF q = p THEN mark ELSE MarkAt(body, q)])
    /\ UNCHANGED <<path, given>>

\* What is repaired after the rules.
Repair ==
    /\ stage = "configured"
    /\ stage' = "sent"
    /\ \/ path = "plain" /\ UNCHANGED body
       \/ /\ path = "open"
          /\ \E ttl \in {"", "1h"} : body' = IF Count(body) = 0 THEN Ensured(body, ttl) ELSE body
       \/ path \in {"cloaked", "strict"} /\ body' = Normalized(Enforced(body), "")
       \/ path = "count" /\ body' = Enforced(body)
    /\ UNCHANGED <<path, given>>

Next == Shape \/ Configure \/ Repair

Spec == Init /\ [][Next]_vars

-----------------------------------------------------------------------------

OrderIsLegal(b) ==
    \A p, q \in Places(b) :
      Ahead(p, q) /\ MarkAt(b, p) \in {"bare", "5m"} => MarkAt(b, q) # "1h"

(* A cloaked request leaves with marks the provider accepts, whatever marks *)
(* the caller, the shaping and the operator's rules put on it: no more     *)
(* than Limit, and none for an hour behind one for five minutes.  A        *)
(* request that is only completed gets legal marks when it came without    *)
(* any (claude-protocol.js ensureClaudeCacheControls,                      *)
(* enforceClaudeCacheControlLimit, normalizeClaudeCacheControlTtls).       *)
MarksAreLegal ==
    stage = "sent" =>
      /\ path \in {"cloaked", "strict", "count"} => Count(body) <= Limit
      /\ path \in {"cloaked", "strict"} => OrderIsLegal(body)
      /\ path = "open" /\ Count(given) = 0 => Count(body) <= Limit /\ OrderIsLegal(body)

(* The inductive invariant: an open request that came without marks is     *)
(* as it came until the rules, and has one mark after them at most.        *)
MarksInv ==
    /\ TypeOK
    /\ path = "open" /\ MarkedPlaces(given) = {} =>
         /\ stage \in {"received", "shaped"} => body = given
         /\ stage = "configured" => \E x : MarkedPlaces(body) \subseteq {x}
    /\ MarksAreLegal

-----------------------------------------------------------------------------
(* Ranks: in a finite set with a strict order, at least k elements have    *)
(* fewer than k before them.  Marks are removed in such an order.          *)

\* Induction on the naturals for a set of them.
LEMMA NatsAreReached ==
    ASSUME NEW T, 0 \in T, \A n \in Nat : n \in T => n + 1 \in T
    PROVE  \A n \in Nat : n \in T
<1> DEFINE less == {p \in Nat \X Nat : p[1] < p[2]}
           missed == Nat \ T
<1>1. IsWellFoundedOn(less, Nat)
  BY NatLessThanWellFounded DEF OpToRel
<1> HIDE DEF less
<1>2. SUFFICES ASSUME missed # {} PROVE FALSE
  OBVIOUS
<1>3. PICK x \in missed : \A y \in missed : ~ (<<y, x>> \in less)
  <2>1. missed \subseteq Nat
    OBVIOUS
  <2> HIDE DEF missed
  <2> QED
    BY <1>1, <1>2, <2>1, WFMin
<1>4. x \in Nat /\ x # 0 /\ x \notin T
  OBVIOUS
<1>5. x - 1 \in Nat /\ x = (x - 1) + 1
  BY <1>4
<1>6. x - 1 \in missed
  BY <1>4, <1>5
<1>7. <<x - 1, x>> \in less
  BY <1>4, <1>5 DEF less
<1> QED
  BY <1>3, <1>6, <1>7

\* The elements of S that come before p.
Below(S, R, p) == {q \in S : <<q, p>> \in R}

\* R puts the elements of S in a strict order.
Orders(R, S) ==
    /\ \A p \in S : <<p, p>> \notin R
    /\ \A p, q, r \in S : <<p, q>> \in R /\ <<q, r>> \in R => <<p, r>> \in R

\* Those with fewer than k elements before them.
FirstOnes(S, R, k) == {p \in S : Cardinality(Below(S, R, p)) < k}

\* A set of numbers that is not empty has a least one.
LEMMA OneIsLeast ==
    ASSUME NEW F \in SUBSET Nat, F # {}
    PROVE  \E a \in F : \A b \in F : a <= b
<1> DEFINE less == {p \in Nat \X Nat : p[1] < p[2]}
<1>1. IsWellFoundedOn(less, Nat)
  BY NatLessThanWellFounded DEF OpToRel
<1> HIDE DEF less
<1>2. PICK x \in F : \A y \in F : ~ (<<y, x>> \in less)
  BY <1>1, WFMin
<1>3. \A y \in F : ~ (y < x)
  BY <1>2 DEF less
<1> QED
  BY <1>3

\* An element of a part has the fewest elements of the whole before it.
LEMMA OneIsFirst ==
    ASSUME NEW S, IsFiniteSet(S), NEW R, NEW T \in SUBSET S, T # {}
    PROVE  \E m \in T : \A t \in T :
                Cardinality(Below(S, R, m)) <= Cardinality(Below(S, R, t))
<1> DEFINE rank(p) == Cardinality(Below(S, R, p))
           F == {rank(p) : p \in T}
<1>1. \A p \in T : rank(p) \in Nat
  <2> SUFFICES ASSUME NEW p \in T PROVE rank(p) \in Nat
    OBVIOUS
  <2>1. Below(S, R, p) \subseteq S
    BY DEF Below
  <2> QED
    BY <2>1, FS_Subset, FS_CardinalityType
<1> HIDE DEF rank
<1>2. F \in SUBSET Nat /\ F # {}
  BY <1>1
<1>3. PICK a \in F : \A b \in F : a <= b
  <2> HIDE DEF F
  <2> QED
    BY <1>2, OneIsLeast
<1>4. PICK m \in T : a = rank(m)
  OBVIOUS
<1>5. \A t \in T : rank(m) <= rank(t)
  BY <1>3, <1>4
<1> QED
  BY <1>5 DEF rank

\* Whoever comes before has fewer before it.
LEMMA BeforeIsLower ==
    ASSUME NEW S, IsFiniteSet(S), NEW R, Orders(R, S),
           NEW p \in S, NEW q \in S, <<q, p>> \in R
    PROVE  Cardinality(Below(S, R, q)) < Cardinality(Below(S, R, p))
<1>1. Below(S, R, q) \subseteq Below(S, R, p) \ {q} /\ q \in Below(S, R, p)
  BY DEF Below, Orders
<1>2. Below(S, R, p) \subseteq S
  BY DEF Below
<1>3. IsFiniteSet(Below(S, R, p))
  BY <1>2, FS_Subset
<1>4. /\ IsFiniteSet(Below(S, R, p) \ {q})
      /\ Cardinality(Below(S, R, p) \ {q}) = Cardinality(Below(S, R, p)) - 1
  BY <1>1, <1>3, FS_RemoveElement
<1>5. Cardinality(Below(S, R, q)) <= Cardinality(Below(S, R, p) \ {q})
  BY <1>1, <1>4, FS_Subset
<1>6. /\ Cardinality(Below(S, R, p)) \in Nat
      /\ IsFiniteSet(Below(S, R, q)) /\ Cardinality(Below(S, R, q)) \in Nat
  BY <1>1, <1>3, <1>4, FS_Subset, FS_CardinalityType
<1> QED
  BY <1>4, <1>5, <1>6

\* There are at least k elements with fewer than k before them.
LEMMA RanksFill ==
    ASSUME NEW S, IsFiniteSet(S), NEW R, Orders(R, S),
           NEW k \in Nat, k <= Cardinality(S)
    PROVE  Cardinality(FirstOnes(S, R, k)) >= k
<1> DEFINE T == {n \in Nat : n <= Cardinality(S) => Cardinality(FirstOnes(S, R, n)) >= n}
<1>0. \A n \in Nat : /\ FirstOnes(S, R, n) \subseteq S /\ IsFiniteSet(FirstOnes(S, R, n))
                     /\ Cardinality(FirstOnes(S, R, n)) \in Nat
  <2> SUFFICES ASSUME NEW n \in Nat
               PROVE  /\ FirstOnes(S, R, n) \subseteq S /\ IsFiniteSet(FirstOnes(S, R, n))
                      /\ Cardinality(FirstOnes(S, R, n)) \in Nat
    OBVIOUS
  <2>1. FirstOnes(S, R, n) \subseteq S
    BY DEF FirstOnes
  <2> QED
    BY <2>1, FS_Subset, FS_CardinalityType
<1>1. 0 \in T
  BY <1>0
<1>2. ASSUME NEW n \in Nat, n \in T PROVE n + 1 \in T
  <2> SUFFICES ASSUME n + 1 <= Cardinality(S)
               PROVE  Cardinality(FirstOnes(S, R, n + 1)) >= n + 1
    OBVIOUS
  <2> DEFINE A == FirstOnes(S, R, n)
             B == FirstOnes(S, R, n + 1)
             rank(p) == Cardinality(Below(S, R, p))
  <2>0. Cardinality(S) \in Nat
    BY FS_CardinalityType
  <2>1. \A p \in S : rank(p) \in Nat
    <3> SUFFICES ASSUME NEW p \in S PROVE rank(p) \in Nat
      OBVIOUS
    <3>1. Below(S, R, p) \subseteq S
      BY DEF Below
    <3> QED
      BY <3>1, FS_Subset, FS_CardinalityType
  <2>2. A = {p \in S : rank(p) < n} /\ B = {p \in S : rank(p) < n + 1}
    BY DEF FirstOnes
  <2>3. A \subseteq B
    BY <2>1, <2>2
  <2>4. /\ IsFiniteSet(A) /\ Cardinality(A) \in Nat /\ IsFiniteSet(B) /\ Cardinality(B) \in Nat
        /\ A \subseteq S /\ Cardinality(A) >= n
    BY <1>0, <1>2, <2>0
  <2>5. CASE Cardinality(A) >= n + 1
    <3>1. Cardinality(A) <= Cardinality(B)
      BY <2>3, <2>4, FS_Subset
    <3> QED
      BY <2>4, <2>5, <3>1
  <2>6. CASE Cardinality(A) = n
    <3>1. S \ A # {}
      BY <2>0, <2>4, <2>6, FS_Subset
    <3>2. PICK m \in S \ A : \A t \in S \ A : rank(m) <= rank(t)
      BY <3>1, OneIsFirst
    <3>3. Below(S, R, m) \subseteq A
      <4> SUFFICES ASSUME NEW q \in S, <<q, m>> \in R PROVE q \in A
        BY DEF Below
      <4>1. rank(q) < rank(m)
        BY BeforeIsLower
      <4> QED
        BY <2>1, <3>2, <4>1
    <3>4. rank(m) <= n
      BY <2>4, <2>6, <3>3, FS_Subset
    <3>5. m \in B /\ m \notin A
      BY <2>1, <2>2, <3>2, <3>4
    <3>6. Cardinality(A \cup {m}) = n + 1
      BY <2>4, <2>6, <3>5, FS_AddElement
    <3>7. A \cup {m} \subseteq B
      BY <2>3, <3>5
    <3> QED
      BY <2>4, <3>6, <3>7, FS_Subset
  <2> QED
    BY <2>4, <2>5, <2>6
<1> HIDE DEF T
<1>3. k \in T
  BY <1>1, <1>2, NatsAreReached
<1> QED
  BY <1>3 DEF T

-----------------------------------------------------------------------------
(* The proof: what each pass makes of a body, then one lemma per action *)

\* A set of numbers that has a bound has a greatest one.
LEMMA OneIsGreatest ==
    ASSUME NEW n \in Nat, NEW F \in SUBSET (1 .. n), F # {}
    PROVE  \E a \in F : \A b \in F : b <= a
<1> DEFINE G == {n - a : a \in F}
<1>0. \A a \in F : a \in 1 .. n /\ n - a \in Nat
  OBVIOUS
<1>1. G \in SUBSET Nat /\ G # {}
  BY <1>0
<1>2. PICK g \in G : \A h \in G : g <= h
  <2> HIDE DEF G
  <2> QED
    BY <1>1, OneIsLeast
<1>3. PICK a \in F : g = n - a
  OBVIOUS
<1>4. ASSUME NEW b \in F PROVE b <= a
  <2>1. g <= n - b
    BY <1>2
  <2> QED
    BY <1>3, <2>1
<1> QED
  BY <1>4

\* LastOf and FirstOf find an element where there is one.
LEMMA LastIs ==
    ASSUME NEW n \in Nat, NEW F \in SUBSET (1 .. n)
    PROVE  LastOf(F) \in F \cup {0} /\ LastOf(F) \in 0 .. n
<1>1. CASE F = {}
  BY <1>1 DEF LastOf
<1>2. CASE F # {}
  <2>1. \E a \in F : \A b \in F : b <= a
    BY <1>2, OneIsGreatest
  <2>2. LastOf(F) \in F
    BY <1>2, <2>1 DEF LastOf
  <2>3. \A i \in F : i \in 0 .. n
    OBVIOUS
  <2> QED
    BY <2>2, <2>3
<1> QED
  BY <1>1, <1>2

\* The same of the first.
LEMMA FirstIs ==
    ASSUME NEW n \in Nat, NEW F \in SUBSET (1 .. n)
    PROVE  FirstOf(F) \in F \cup {0} /\ FirstOf(F) \in 0 .. n /\ (F # {} => FirstOf(F) \in F)
<1>1. CASE F = {}
  BY <1>1 DEF FirstOf
<1>2. CASE F # {}
  <2>1. F \in SUBSET Nat
    OBVIOUS
  <2>2. \E a \in F : \A b \in F : a <= b
    BY <1>2, <2>1, OneIsLeast
  <2>3. FirstOf(F) \in F
    BY <1>2, <2>2 DEF FirstOf
  <2>4. \A i \in F : i \in 0 .. n
    OBVIOUS
  <2> QED
    BY <2>3, <2>4
<1> QED
  BY <1>1, <1>2

\* The parts of a body.
LEMMA BodiesAre ==
    ASSUME NEW b \in Body
    PROVE  /\ b = [tools |-> b.tools, system |-> b.system, messages |-> b.messages]
           /\ b.tools \in Seq(Blocks) /\ b.system \in Seq(Blocks) /\ b.messages \in Seq(Messages)
           /\ \A m \in 1 .. Len(b.messages) :
                /\ b.messages[m] \in Messages /\ b.messages[m].blocks \in Seq(Blocks)
                /\ b.messages[m] = [role |-> b.messages[m].role, blocks |-> b.messages[m].blocks]
<1>1. /\ b = [tools |-> b.tools, system |-> b.system, messages |-> b.messages]
      /\ b.tools \in Seq(Blocks) /\ b.system \in Seq(Blocks) /\ b.messages \in Seq(Messages)
  BY DEF Body
<1>2. \A m \in 1 .. Len(b.messages) : b.messages[m] \in Messages
  BY <1>1
<1>3. \A x \in Messages : x.blocks \in Seq(Blocks) /\ x = [role |-> x.role, blocks |-> x.blocks]
  BY DEF Messages
<1> QED
  BY <1>1, <1>2, <1>3

\* The places of a block of a part.
LEMMA PlacesAre ==
    ASSUME NEW b
    PROVE  /\ \A i \in 1 .. Len(b.tools) : <<0, 1, i>> \in Places(b)
           /\ \A i \in 1 .. Len(b.system) : <<1, 1, i>> \in Places(b)
           /\ \A m \in 1 .. Len(b.messages) : \A i \in 1 .. Len(b.messages[m].blocks) :
                    <<2, m, i>> \in Places(b)
           /\ \A p \in Places(b) :
                \/ \E i \in 1 .. Len(b.tools) : p = <<0, 1, i>>
                \/ \E i \in 1 .. Len(b.system) : p = <<1, 1, i>>
                \/ \E m \in 1 .. Len(b.messages) : \E i \in 1 .. Len(b.messages[m].blocks) :
                        p = <<2, m, i>>
<1>1. \A p : p \in Places(b) <=>
            \/ p \in {<<0, 1, i>> : i \in 1 .. Len(b.tools)}
            \/ p \in {<<1, 1, i>> : i \in 1 .. Len(b.system)}
            \/ \E m \in 1 .. Len(b.messages) :
                    p \in {<<2, m, i>> : i \in 1 .. Len(b.messages[m].blocks)}
  BY Zenon DEF Places
<1> QED
  BY <1>1, Zenon

\* What a function makes of finitely many things is finite.
LEMMA ImageIsFinite ==
    ASSUME NEW S, IsFiniteSet(S), NEW f, DOMAIN f = S
    PROVE  IsFiniteSet({f[x] : x \in S})
<1> DEFINE T == {f[x] : x \in S}
           g == [x \in S |-> f[x]]
<1>1. g \in [S -> T] /\ \A t \in T : \E x \in S : g[x] = t
  OBVIOUS
<1>2. g \in Surjection(S, T)
  BY <1>1 DEF Surjection
<1> HIDE DEF g, T
<1>3. IsFiniteSet(T)
  BY <1>2, FS_Surjection
<1> QED
  BY <1>3 DEF T

\* A body has finitely many places; each is a triple of numbers with a mark.
LEMMA PlacesAreMarked ==
    ASSUME NEW b \in Body
    PROVE  /\ IsFiniteSet(Places(b)) /\ Places(b) \subseteq Nat \X Nat \X Nat
           /\ \A p \in Places(b) : MarkAt(b, p) \in Marks
<1> DEFINE T == {<<0, 1, i>> : i \in 1 .. Len(b.tools)}
           S == {<<1, 1, i>> : i \in 1 .. Len(b.system)}
           M(m) == {<<2, m, i>> : i \in 1 .. Len(b.messages[m].blocks)}
           All == {M(m) : m \in 1 .. Len(b.messages)}
<1>1. /\ Len(b.tools) \in Nat /\ Len(b.system) \in Nat /\ Len(b.messages) \in Nat
      /\ \A m \in 1 .. Len(b.messages) : Len(b.messages[m].blocks) \in Nat
  BY BodiesAre
<1>2. \A n \in Nat : IsFiniteSet(1 .. n)
  BY FS_Interval
<1>3. IsFiniteSet(T) /\ IsFiniteSet(S)
  <2>1. IsFiniteSet(1 .. Len(b.tools)) /\ IsFiniteSet(1 .. Len(b.system))
    BY <1>1, <1>2
  <2> QED
    <3> DEFINE f == [i \in 1 .. Len(b.tools) |-> <<0, 1, i>>]
               g == [i \in 1 .. Len(b.system) |-> <<1, 1, i>>]
    <3>1. T = {f[i] : i \in 1 .. Len(b.tools)} /\ S = {g[i] : i \in 1 .. Len(b.system)}
      OBVIOUS
    <3>2. DOMAIN f = 1 .. Len(b.tools) /\ DOMAIN g = 1 .. Len(b.system)
      OBVIOUS
    <3> HIDE DEF f, g, T, S
    <3> QED
      BY <2>1, <3>1, <3>2, ImageIsFinite
<1>4. IsFiniteSet(UNION All)
  <2>1. \A m \in 1 .. Len(b.messages) : IsFiniteSet(M(m))
    <3> SUFFICES ASSUME NEW m \in 1 .. Len(b.messages) PROVE IsFiniteSet(M(m))
      OBVIOUS
    <3>1. IsFiniteSet(1 .. Len(b.messages[m].blocks))
      BY <1>1, <1>2
    <3> DEFINE f == [i \in 1 .. Len(b.messages[m].blocks) |-> <<2, m, i>>]
    <3>2. M(m) = {f[i] : i \in 1 .. Len(b.messages[m].blocks)}
          /\ DOMAIN f = 1 .. Len(b.messages[m].blocks)
      OBVIOUS
    <3> HIDE DEF f, M
    <3> QED
      BY <3>1, <3>2, ImageIsFinite
  <2>2. IsFiniteSet(All)
    <3>1. IsFiniteSet(1 .. Len(b.messages))
      BY <1>1, <1>2
    <3> DEFINE f == [m \in 1 .. Len(b.messages) |-> M(m)]
    <3>2. All = {f[m] : m \in 1 .. Len(b.messages)} /\ DOMAIN f = 1 .. Len(b.messages)
      <4> HIDE DEF M
      <4> QED
        OBVIOUS
    <3> HIDE DEF f, All
    <3> QED
      BY <3>1, <3>2, ImageIsFinite
  <2> HIDE DEF M
  <2> QED
    BY <2>1, <2>2, FS_UNION
<1>5. Places(b) = (T \cup S) \cup UNION All
  BY DEF Places
<1>6. IsFiniteSet(Places(b))
  <2> HIDE DEF T, S, All
  <2> QED
    BY ZenonT(40), <1>3, <1>4, <1>5, FS_Union
<1>7. Places(b) \subseteq Nat \X Nat \X Nat
  <2> SUFFICES ASSUME NEW p \in Places(b) PROVE p \in Nat \X Nat \X Nat
    OBVIOUS
  <2> QED
    BY <1>1, PlacesAre
<1> HIDE DEF T, S, M, All
<1>8. ASSUME NEW p \in Places(b) PROVE MarkAt(b, p) \in Marks
  <2>1. CASE \E i \in 1 .. Len(b.tools) : p = <<0, 1, i>>
    <3>1. PICK i \in 1 .. Len(b.tools) : p = <<0, 1, i>>
      BY <2>1
    <3>2. b.tools[i] \in Blocks /\ MarkAt(b, p) = b.tools[i].mark
      BY <3>1, BodiesAre DEF MarkAt
    <3> QED
      BY <3>2 DEF Blocks
  <2>2. CASE \E i \in 1 .. Len(b.system) : p = <<1, 1, i>>
    <3>1. PICK i \in 1 .. Len(b.system) : p = <<1, 1, i>>
      BY <2>2
    <3>2. b.system[i] \in Blocks /\ MarkAt(b, p) = b.system[i].mark
      BY <3>1, BodiesAre DEF MarkAt
    <3> QED
      BY <3>2 DEF Blocks
  <2>3. CASE \E m \in 1 .. Len(b.messages) : \E i \in 1 .. Len(b.messages[m].blocks) :
                p = <<2, m, i>>
    <3>0. PICK m \in 1 .. Len(b.messages) : \E i \in 1 .. Len(b.messages[m].blocks) :
                p = <<2, m, i>>
      BY <2>3
    <3>1. PICK i \in 1 .. Len(b.messages[m].blocks) : p = <<2, m, i>>
      BY <3>0
    <3>2. b.messages[m].blocks[i] \in Blocks
      <4>1. b.messages[m].blocks \in Seq(Blocks)
        BY BodiesAre
      <4> QED
        BY <4>1
    <3>3. MarkAt(b, p) = b.messages[m].blocks[i].mark
      BY <3>1 DEF MarkAt
    <3> QED
      BY <3>2, <3>3 DEF Blocks
  <2> QED
    BY <2>1, <2>2, <2>3, PlacesAre
<1> QED
  BY <1>6, <1>7, <1>8

\* Marks for a sequence of blocks.
LEMMA BlocksRemarked ==
    ASSUME NEW seq \in Seq(Blocks), NEW marks, NEW part, NEW m,
           \A i \in 1 .. Len(seq) : marks[<<part, m, i>>] \in Marks
    PROVE  LET new == [i \in 1 .. Len(seq) |-> [seq[i] EXCEPT !.mark = marks[<<part, m, i>>]]]
           IN /\ new \in Seq(Blocks) /\ Len(new) = Len(seq)
              /\ \A i \in 1 .. Len(seq) : new[i].mark = marks[<<part, m, i>>]
<1> DEFINE new == [i \in 1 .. Len(seq) |-> [seq[i] EXCEPT !.mark = marks[<<part, m, i>>]]]
<1>1. ASSUME NEW i \in 1 .. Len(seq)
      PROVE  new[i] \in Blocks /\ new[i].mark = marks[<<part, m, i>>]
  <2>1. seq[i] \in Blocks /\ marks[<<part, m, i>>] \in Marks
    OBVIOUS
  <2> DEFINE k == marks[<<part, m, i>>]
  <2>2. new[i] = [seq[i] EXCEPT !.mark = k]
    OBVIOUS
  <2> HIDE DEF k, new
  <2>3. new[i] \in Blocks /\ new[i].mark = k
    BY <2>1, <2>2 DEF Blocks, k
  <2> QED
    BY <2>3 DEF k
<1>2. new = [i \in 1 .. Len(seq) |-> new[i]] /\ Len(seq) \in Nat
  OBVIOUS
<1> HIDE DEF new
<1>3. new \in [1 .. Len(seq) -> Blocks]
  BY <1>1, <1>2
<1>4. new \in Seq(Blocks) /\ Len(new) = Len(seq)
  BY <1>2, <1>3
<1> QED
  BY <1>1, <1>4 DEF new

\* Remarked changes the marks and nothing else.
LEMMA RemarkedIs ==
    ASSUME NEW b \in Body, NEW marks, \A p \in Places(b) : marks[p] \in Marks
    PROVE  /\ Remarked(b, marks) \in Body
           /\ Places(Remarked(b, marks)) = Places(b)
           /\ \A p \in Places(b) : MarkAt(Remarked(b, marks), p) = marks[p]
<1> DEFINE blocks(seq, part, m) ==
             [i \in 1 .. Len(seq) |-> [seq[i] EXCEPT !.mark = marks[<<part, m, i>>]]]
           new == Remarked(b, marks)
           msgs == [m \in 1 .. Len(b.messages) |->
                        [b.messages[m] EXCEPT !.blocks = blocks(@, 2, m)]]
<1>0. new = [tools |-> blocks(b.tools, 0, 1), system |-> blocks(b.system, 1, 1), messages |-> msgs]
  BY DEF Remarked
<1>01. \A seq \in Seq(Blocks) : \A part, m :
          (\A i \in 1 .. Len(seq) : marks[<<part, m, i>>] \in Marks)
          => /\ blocks(seq, part, m) \in Seq(Blocks) /\ Len(blocks(seq, part, m)) = Len(seq)
             /\ \A i \in 1 .. Len(seq) : blocks(seq, part, m)[i].mark = marks[<<part, m, i>>]
  BY BlocksRemarked
<1> HIDE DEF blocks
<1>1. /\ blocks(b.tools, 0, 1) \in Seq(Blocks) /\ Len(blocks(b.tools, 0, 1)) = Len(b.tools)
      /\ \A i \in 1 .. Len(b.tools) : blocks(b.tools, 0, 1)[i].mark = marks[<<0, 1, i>>]
  <2>1. b.tools \in Seq(Blocks) /\ \A i \in 1 .. Len(b.tools) : marks[<<0, 1, i>>] \in Marks
    BY BodiesAre, PlacesAre
  <2> QED
    BY <1>01, <2>1
<1>2. /\ blocks(b.system, 1, 1) \in Seq(Blocks) /\ Len(blocks(b.system, 1, 1)) = Len(b.system)
      /\ \A i \in 1 .. Len(b.system) : blocks(b.system, 1, 1)[i].mark = marks[<<1, 1, i>>]
  <2>1. b.system \in Seq(Blocks) /\ \A i \in 1 .. Len(b.system) : marks[<<1, 1, i>>] \in Marks
    BY BodiesAre, PlacesAre
  <2> QED
    BY <1>01, <2>1
<1>3. ASSUME NEW m \in 1 .. Len(b.messages)
      PROVE  LET old == b.messages[m].blocks
             IN /\ blocks(old, 2, m) \in Seq(Blocks) /\ Len(blocks(old, 2, m)) = Len(old)
                /\ \A i \in 1 .. Len(old) : blocks(old, 2, m)[i].mark = marks[<<2, m, i>>]
  <2>1. /\ b.messages[m].blocks \in Seq(Blocks)
        /\ \A i \in 1 .. Len(b.messages[m].blocks) : marks[<<2, m, i>>] \in Marks
    BY BodiesAre, PlacesAre
  <2> QED
    BY <1>01, <2>1
<1>4. ASSUME NEW m \in 1 .. Len(b.messages)
      PROVE  msgs[m] \in Messages /\ msgs[m].blocks = blocks(b.messages[m].blocks, 2, m)
  <2>1. b.messages[m] = [role |-> b.messages[m].role, blocks |-> b.messages[m].blocks]
        /\ b.messages[m] \in Messages
    BY BodiesAre
  <2>2. msgs[m] = [role |-> b.messages[m].role, blocks |-> blocks(b.messages[m].blocks, 2, m)]
    BY <2>1
  <2> QED
    BY <1>3, <2>1, <2>2 DEF Messages
<1>5. msgs \in Seq(Messages) /\ Len(msgs) = Len(b.messages)
  <2>1. msgs = [m \in 1 .. Len(b.messages) |-> msgs[m]] /\ Len(b.messages) \in Nat
    BY BodiesAre
  <2> HIDE DEF msgs
  <2>2. msgs \in [1 .. Len(b.messages) -> Messages]
    BY <1>4, <2>1
  <2> QED
    BY <2>1, <2>2
<1> HIDE DEF msgs, new
<1>6. new \in Body
  BY <1>0, <1>1, <1>2, <1>5 DEF Body
<1>7. /\ new.tools = blocks(b.tools, 0, 1) /\ new.system = blocks(b.system, 1, 1)
      /\ new.messages = msgs
  BY <1>0
<1>8. /\ Len(new.tools) = Len(b.tools) /\ Len(new.system) = Len(b.system)
      /\ Len(new.messages) = Len(b.messages)
      /\ \A m \in 1 .. Len(b.messages) : Len(new.messages[m].blocks) = Len(b.messages[m].blocks)
  BY <1>1, <1>2, <1>3, <1>4, <1>5, <1>7
<1>9. Places(new) = Places(b)
  <2>1. {{<<2, m, i>> : i \in 1 .. Len(new.messages[m].blocks)} : m \in 1 .. Len(b.messages)}
        = {{<<2, m, i>> : i \in 1 .. Len(b.messages[m].blocks)} : m \in 1 .. Len(b.messages)}
    <3> DEFINE A(m) == {<<2, m, i>> : i \in 1 .. Len(new.messages[m].blocks)}
               B(m) == {<<2, m, i>> : i \in 1 .. Len(b.messages[m].blocks)}
    <3>1. \A m \in 1 .. Len(b.messages) : A(m) = B(m)
      BY <1>8
    <3> HIDE DEF A, B
    <3>2. {A(m) : m \in 1 .. Len(b.messages)} = {B(m) : m \in 1 .. Len(b.messages)}
      BY <3>1
    <3> QED
      BY <3>2 DEF A, B
  <2> QED
    BY <1>8, <2>1 DEF Places
<1>10. ASSUME NEW p \in Places(b) PROVE MarkAt(new, p) = marks[p]
  <2>1. CASE \E i \in 1 .. Len(b.tools) : p = <<0, 1, i>>
    <3>1. PICK i \in 1 .. Len(b.tools) : p = <<0, 1, i>>
      BY <2>1
    <3>2. MarkAt(new, p) = new.tools[i].mark
      BY <3>1 DEF MarkAt
    <3> QED
      BY <1>1, <1>7, <3>1, <3>2
  <2>2. CASE \E i \in 1 .. Len(b.system) : p = <<1, 1, i>>
    <3>1. PICK i \in 1 .. Len(b.system) : p = <<1, 1, i>>
      BY <2>2
    <3>2. MarkAt(new, p) = new.system[i].mark
      BY <3>1 DEF MarkAt
    <3> QED
      BY <1>2, <1>7, <3>1, <3>2
  <2>3. CASE \E m \in 1 .. Len(b.messages) : \E i \in 1 .. Len(b.messages[m].blocks) :
                p = <<2, m, i>>
    <3>0. PICK m \in 1 .. Len(b.messages) : \E i \in 1 .. Len(b.messages[m].blocks) :
                p = <<2, m, i>>
      BY <2>3
    <3>1. PICK i \in 1 .. Len(b.messages[m].blocks) : p = <<2, m, i>>
      BY <3>0
    <3>2. MarkAt(new, p) = new.messages[m].blocks[i].mark
      BY <3>1 DEF MarkAt
    <3> QED
      BY <1>3, <1>4, <1>7, <3>1, <3>2
  <2> QED
    BY <2>1, <2>2, <2>3, PlacesAre
<1> QED
  BY <1>6, <1>9, <1>10 DEF new

\* The order of the places is one.
LEMMA PlacesAreOrdered ==
    /\ \A p \in Nat \X Nat \X Nat : ~ Ahead(p, p)
    /\ \A p, q, r \in Nat \X Nat \X Nat : Ahead(p, q) /\ Ahead(q, r) => Ahead(p, r)
<1>1. \A p \in Nat \X Nat \X Nat : p[1] \in Nat /\ p[2] \in Nat /\ p[3] \in Nat
  OBVIOUS
<1> QED
  BY <1>1 DEF Ahead

\* A ttl that is lengthened to.
Ttls == {"", "5m", "1h"}

\* normalizeClaudeCacheControlTtls: an order that the provider accepts, with no
\* mark where there was none.
LEMMA NormalizedIs ==
    ASSUME NEW b \in Body, NEW ttl \in Ttls
    PROVE  /\ Normalized(b, ttl) \in Body
           /\ MarkedPlaces(Normalized(b, ttl)) = MarkedPlaces(b)
           /\ OrderIsLegal(Normalized(b, ttl))
<1> DEFINE long == Lengthened(b, ttl)
           marks == Shortened(long)
           new == Normalized(b, ttl)
<1>1. /\ Places(b) \subseteq Nat \X Nat \X Nat
      /\ \A p \in Places(b) : MarkAt(b, p) \in Marks
  BY PlacesAreMarked
<1>2. /\ DOMAIN long = Places(b)
      /\ \A p \in Places(b) : long[p] \in Marks /\ (long[p] = "none" <=> MarkAt(b, p) = "none")
  BY <1>1 DEF Lengthened, Ttls, Marks
<1> HIDE DEF long
<1>3. \A p \in Places(b) : /\ marks[p] \in Marks /\ (marks[p] = "none" <=> long[p] = "none")
                           /\ marks[p] = IF long[p] = "1h" /\ \E q \in Places(b) :
                                                Ahead(q, p) /\ long[q] \in {"bare", "5m"}
                                         THEN "bare" ELSE long[p]
  BY <1>2 DEF Shortened, Marks
<1> HIDE DEF marks
<1>4. /\ new \in Body /\ Places(new) = Places(b)
      /\ \A p \in Places(b) : MarkAt(new, p) = marks[p]
  <2>1. new = Remarked(b, marks)
    BY DEF Normalized, marks, long
  <2> QED
    BY <1>3, <2>1, RemarkedIs
<1> HIDE DEF new
<1>5. MarkedPlaces(new) = MarkedPlaces(b)
  BY <1>2, <1>3, <1>4 DEF MarkedPlaces
<1>6. OrderIsLegal(new)
  <2> SUFFICES ASSUME NEW p \in Places(b), NEW q \in Places(b), Ahead(p, q),
                      marks[p] \in {"bare", "5m"}, marks[q] = "1h"
               PROVE  FALSE
    BY <1>4 DEF OrderIsLegal
  <2>1. long[q] = "1h" /\ ~ \E r \in Places(b) : Ahead(r, q) /\ long[r] \in {"bare", "5m"}
    BY <1>3
  <2>2. long[p] = "1h" /\ \E r \in Places(b) : Ahead(r, p) /\ long[r] \in {"bare", "5m"}
    BY <1>3, <2>1
  <2>3. PICK r \in Places(b) : Ahead(r, p) /\ long[r] \in {"bare", "5m"}
    BY <2>2
  <2>4. Ahead(r, q)
    BY <1>1, <2>3, PlacesAreOrdered
  <2> QED
    BY <2>1, <2>3, <2>4
<1> QED
  BY <1>4, <1>5, <1>6 DEF new

\* The marks of a body are finitely many.
LEMMA MarksAreFinite ==
    ASSUME NEW b \in Body
    PROVE  IsFiniteSet(MarkedPlaces(b)) /\ Count(b) \in Nat
<1>1. MarkedPlaces(b) \subseteq Places(b)
  BY DEF MarkedPlaces
<1>2. IsFiniteSet(MarkedPlaces(b))
  BY <1>1, PlacesAreMarked, FS_Subset
<1> QED
  BY <1>2, FS_CardinalityType DEF Count

\* The order in which marks are removed.
Removals(b) ==
    {e \in MarkedPlaces(b) \X MarkedPlaces(b) :
        Round(b, e[1]) < Round(b, e[2])
        \/ (Round(b, e[1]) = Round(b, e[2]) /\ Ahead(e[1], e[2]))}

\* It is one, and says which marks go sooner.
LEMMA RemovalsAreOrdered ==
    ASSUME NEW b \in Body
    PROVE  /\ Orders(Removals(b), MarkedPlaces(b))
           /\ \A p \in MarkedPlaces(b) :
                Sooner(b, p) = Below(MarkedPlaces(b), Removals(b), p)
<1>1. MarkedPlaces(b) \subseteq Nat \X Nat \X Nat
  BY PlacesAreMarked DEF MarkedPlaces
<1>2. \A p : Round(b, p) \in Nat
  BY DEF Round
<1>3. \A p, q \in MarkedPlaces(b) :
          <<p, q>> \in Removals(b) <=>
            (Round(b, p) < Round(b, q) \/ (Round(b, p) = Round(b, q) /\ Ahead(p, q)))
  BY DEF Removals
<1>4. \A p \in MarkedPlaces(b) : <<p, p>> \notin Removals(b)
  BY <1>1, <1>2, <1>3, PlacesAreOrdered
<1>5. ASSUME NEW p \in MarkedPlaces(b), NEW q \in MarkedPlaces(b), NEW r \in MarkedPlaces(b),
             <<p, q>> \in Removals(b), <<q, r>> \in Removals(b)
      PROVE  <<p, r>> \in Removals(b)
  <2>1. /\ Round(b, p) \in Nat /\ Round(b, q) \in Nat /\ Round(b, r) \in Nat
        /\ Round(b, p) <= Round(b, q) /\ Round(b, q) <= Round(b, r)
        /\ Round(b, p) = Round(b, q) => Ahead(p, q)
        /\ Round(b, q) = Round(b, r) => Ahead(q, r)
    BY <1>2, <1>3, <1>5
  <2>2. Ahead(p, q) /\ Ahead(q, r) => Ahead(p, r)
    BY <1>1, PlacesAreOrdered
  <2>3. Round(b, p) < Round(b, r) \/ (Round(b, p) = Round(b, r) /\ Ahead(p, r))
    BY <2>1, <2>2
  <2> QED
    BY <1>3, <2>3
<1>6. \A p \in MarkedPlaces(b) : Sooner(b, p) = Below(MarkedPlaces(b), Removals(b), p)
  BY <1>3 DEF Sooner, Below
<1> QED
  BY <1>4, <1>5, <1>6 DEF Orders

\* enforceClaudeCacheControlLimit: no more marks than the limit are left, and none
\* is new.
LEMMA EnforcedIs ==
    ASSUME MarksAssumption, NEW b \in Body
    PROVE  /\ Enforced(b) \in Body /\ MarkedPlaces(Enforced(b)) \subseteq MarkedPlaces(b)
           /\ Count(Enforced(b)) <= Limit
<1> DEFINE S == MarkedPlaces(b)
           gone == {p \in S : Limit + Cardinality(Sooner(b, p)) < Count(b)}
           marks == [p \in Places(b) |-> IF p \in gone THEN "none" ELSE MarkAt(b, p)]
           new == Enforced(b)
<1>1. IsFiniteSet(S) /\ Count(b) \in Nat /\ Count(b) = Cardinality(S) /\ Limit \in Nat
  BY MarksAreFinite DEF Count, MarksAssumption
<1>2. \A p \in Places(b) : marks[p] \in Marks
  BY PlacesAreMarked DEF Marks
<1>3. new \in Body /\ Places(new) = Places(b) /\ \A p \in Places(b) : MarkAt(new, p) = marks[p]
  <2>1. new = Remarked(b, marks)
    BY DEF Enforced, WithoutMarks
  <2> HIDE DEF marks, new
  <2> QED
    BY <1>2, <2>1, RemarkedIs
<1> HIDE DEF new
<1>4. MarkedPlaces(new) = S \ gone
  BY <1>3 DEF MarkedPlaces
<1>5. Cardinality(S \ gone) <= Limit
  <2>1. CASE Count(b) <= Limit
    <3>1. S \ gone \subseteq S
      OBVIOUS
    <3>2. Cardinality(S \ gone) <= Cardinality(S) /\ Cardinality(S \ gone) \in Nat
      <4> HIDE DEF gone, S
      <4> QED
        BY <1>1, <3>1, FS_Subset, FS_CardinalityType
    <3> QED
      BY <1>1, <2>1, <3>2
  <2>2. CASE Count(b) > Limit
    <3> DEFINE k == Count(b) - Limit
               first == FirstOnes(S, Removals(b), k)
    <3>1. k \in Nat /\ k <= Cardinality(S)
      BY <1>1, <2>2
    <3>2. Cardinality(first) >= k
      <4> HIDE DEF k, S
      <4> QED
        BY <1>1, <3>1, RemovalsAreOrdered, RanksFill DEF S
    <3>3. first \subseteq gone
      <4> SUFFICES ASSUME NEW p \in S, Cardinality(Below(S, Removals(b), p)) < k
                   PROVE  Limit + Cardinality(Sooner(b, p)) < Count(b)
        BY DEF FirstOnes
      <4>1. Sooner(b, p) = Below(S, Removals(b), p) /\ Sooner(b, p) \subseteq S
        BY RemovalsAreOrdered DEF Sooner
      <4>2. Cardinality(Sooner(b, p)) \in Nat
        BY <1>1, <4>1, FS_Subset, FS_CardinalityType
      <4> QED
        BY <1>1, <4>1, <4>2
    <3>4. gone \subseteq S
      OBVIOUS
    <3> HIDE DEF first, gone, S, k
    <3>5. IsFiniteSet(gone) /\ Cardinality(first) <= Cardinality(gone) /\ Cardinality(gone) \in Nat
          /\ Cardinality(first) \in Nat
      BY <1>1, <3>3, <3>4, FS_Subset, FS_CardinalityType
    <3>6. Cardinality(S \ gone) = Cardinality(S) - Cardinality(S \cap gone)
      BY <1>1, FS_Difference
    <3>7. S \cap gone = gone
      BY <3>4
    <3>8. k = Cardinality(S) - Limit
      BY <1>1 DEF k
    <3> QED
      <4>1. Cardinality(S) \in Nat /\ Limit \in Nat
        BY <1>1
      <4>2. Cardinality(S \ gone) = Cardinality(S) - Cardinality(gone)
        BY <3>6, <3>7
      <4>3. Cardinality(gone) >= Cardinality(S) - Limit
        BY <3>1, <3>2, <3>5, <3>8, <4>1
      <4> QED
        BY <3>5, <4>1, <4>2, <4>3
  <2> QED
    BY <1>1, <2>1, <2>2
<1> QED
  BY <1>3, <1>4, <1>5 DEF new, Count

\* ensureClaudeCacheControls marks one block of a sequence.
LEMMA WithMarkIs ==
    ASSUME NEW seq \in Seq(Blocks), NEW i \in 1 .. Len(seq), NEW ttl \in Ttls
    PROVE  /\ WithMark(seq, i, ttl) \in Seq(Blocks) /\ Len(WithMark(seq, i, ttl)) = Len(seq)
           /\ \A j \in 1 .. Len(seq) : j # i => WithMark(seq, i, ttl)[j] = seq[j]
<1> DEFINE k == IF seq[i].mark \in {"none", "bare"} THEN IF ttl = "" THEN "bare" ELSE ttl
                ELSE seq[i].mark
           block == [seq[i] EXCEPT !.mark = k]
<1>1. seq[i] \in Blocks
  OBVIOUS
<1>2. k \in Marks
  BY <1>1 DEF Blocks, Marks, Ttls
<1>3. WithMark(seq, i, ttl) = [seq EXCEPT ![i] = block]
  BY DEF WithMark
<1> HIDE DEF k
<1>4. block \in Blocks
  BY <1>1, <1>2 DEF Blocks
<1> HIDE DEF block
<1> QED
  BY <1>3, <1>4

\* Other blocks for a message.
LEMMA MessageWithBlocks ==
    ASSUME NEW messages \in Seq(Messages), NEW m \in 1 .. Len(messages), NEW new \in Seq(Blocks)
    PROVE  LET then == [messages EXCEPT ![m].blocks = new]
           IN /\ then \in Seq(Messages) /\ Len(then) = Len(messages)
              /\ then[m].blocks = new
              /\ \A n \in 1 .. Len(messages) : n # m => then[n] = messages[n]
<1> DEFINE message == [messages[m] EXCEPT !.blocks = new]
           then == [messages EXCEPT ![m].blocks = new]
<1>1. messages[m] \in Messages
  OBVIOUS
<1>2. message \in Messages /\ message.blocks = new
  BY <1>1 DEF Messages
<1>3. then = [messages EXCEPT ![m] = message]
  OBVIOUS
<1> HIDE DEF message, then
<1>4. /\ then \in Seq(Messages) /\ Len(then) = Len(messages)
      /\ then[m].blocks = new
      /\ \A n \in 1 .. Len(messages) : n # m => then[n] = messages[n]
  BY <1>2, <1>3
<1> QED
  BY <1>4 DEF then

\* A body that is the same but for a block here and a block there has few marks
\* when it had none.
LEMMA TwoAreMarked ==
    ASSUME MarksAssumption, NEW n \in Body, NEW x, NEW y, MarkedPlaces(n) \subseteq {x, y}
    PROVE  Count(n) <= Limit
<1>1. IsFiniteSet({x, y}) /\ Cardinality({x, y}) <= 2
  <2>1. IsFiniteSet({x}) /\ Cardinality({x}) = 1
    BY FS_Singleton
  <2>2. {x, y} = {x} \cup {y}
    OBVIOUS
  <2>3. /\ IsFiniteSet({x} \cup {y})
        /\ Cardinality({x} \cup {y}) = IF y \in {x} THEN Cardinality({x}) ELSE Cardinality({x}) + 1
    BY <2>1, FS_AddElement
  <2> QED
    BY <2>1, <2>2, <2>3
<1>2. Cardinality(MarkedPlaces(n)) <= Cardinality({x, y}) /\ Cardinality({x, y}) \in Nat
  BY <1>1, FS_Subset, FS_CardinalityType
<1> QED
  BY <1>1, <1>2, MarksAreFinite DEF Count, MarksAssumption

\* ensureClaudeCacheControls: an order that the provider accepts, and no more than
\* two marks when there was none.
LEMMA EnsuredIs ==
    ASSUME MarksAssumption, NEW b \in Body, NEW ttl \in Ttls
    PROVE  /\ Ensured(b, ttl) \in Body /\ OrderIsLegal(Ensured(b, ttl))
           /\ MarkedPlaces(b) = {} => Count(Ensured(b, ttl)) <= Limit
<1>1. /\ b.tools \in Seq(Blocks) /\ b.system \in Seq(Blocks) /\ b.messages \in Seq(Messages)
      /\ Len(b.tools) \in Nat /\ Len(b.messages) \in Nat
      /\ \A m \in 1 .. Len(b.messages) : b.messages[m].blocks \in Seq(Blocks)
  <2>1. /\ b.tools \in Seq(Blocks) /\ b.system \in Seq(Blocks) /\ b.messages \in Seq(Messages)
        /\ \A m \in 1 .. Len(b.messages) : b.messages[m].blocks \in Seq(Blocks)
    BY BodiesAre
  <2> QED
    BY <2>1
<1> DEFINE tool == LastOf({i \in 1 .. Len(b.tools) : b.tools[i].kind # "deferred"})
           tools == IF b.system = <<>> /\ tool > 0 /\ NoneMarked(b.tools)
                    THEN WithMark(b.tools, tool, ttl) ELSE b.tools
           system == IF b.system # <<>> /\ NoneMarked(b.system)
                     THEN WithMark(b.system, Len(b.system), ttl) ELSE b.system
           final == Len(b.messages)
           eligible == LastOf({i \in 1 .. final :
                         LET m == b.messages[i]
                         IN /\ m.role # "system" /\ m.blocks # <<>>
                            /\ ~(m.role = "assistant"
                                    /\ m.blocks[Len(m.blocks)].kind = "thinking")})
           finalSystem ==
               /\ final > 0 /\ b.messages[final].role = "system"
               /\ b.messages[final].blocks # <<>> /\ b.messages[final].blocks[1].kind = "string"
           chosen == IF eligible > 0 /\ finalSystem THEN final ELSE eligible
           last == Len(b.messages[chosen].blocks)
           messages == IF chosen > 0 /\ NoneMarked(b.messages[chosen].blocks)
                       THEN [b.messages EXCEPT ![chosen].blocks = WithMark(@, Len(@), ttl)]
                       ELSE b.messages
           n == [tools |-> tools, system |-> system, messages |-> messages]
<1>0. Ensured(b, ttl) = Normalized(n, ttl)
  BY DEF Ensured
<1>2. /\ tools \in Seq(Blocks) /\ Len(tools) = Len(b.tools)
      /\ b.system # <<>> => tools = b.tools
      /\ \A j \in 1 .. Len(b.tools) : j # tool => tools[j] = b.tools[j]
  <2> DEFINE F == {i \in 1 .. Len(b.tools) : b.tools[i].kind # "deferred"}
  <2>1. F \in SUBSET (1 .. Len(b.tools))
    OBVIOUS
  <2>2. LastOf(F) \in 0 .. Len(b.tools)
    BY <1>1, <2>1, LastIs
  <2>3. tool \in 0 .. Len(b.tools)
    BY <2>2
  <2> HIDE DEF tool
  <2>4. CASE b.system = <<>> /\ tool > 0 /\ NoneMarked(b.tools)
    <3>1. tool \in 1 .. Len(b.tools) /\ tools = WithMark(b.tools, tool, ttl)
      BY <2>3, <2>4
    <3> HIDE DEF tools
    <3> QED
      BY <1>1, <2>4, <3>1, WithMarkIs
  <2> QED
    BY <1>1, <2>4
<1> HIDE DEF tool, tools
<1>3. /\ system \in Seq(Blocks) /\ Len(system) = Len(b.system)
      /\ \A j \in 1 .. Len(b.system) : j # Len(b.system) => system[j] = b.system[j]
  <2>1. CASE b.system # <<>> /\ NoneMarked(b.system)
    <3>1. Len(b.system) \in 1 .. Len(b.system) /\ system = WithMark(b.system, Len(b.system), ttl)
      BY <1>1, <2>1
    <3> HIDE DEF system
    <3> QED
      BY <1>1, <3>1, WithMarkIs
  <2> QED
    BY <1>1, <2>1
<1>4. b.system = <<>> => system = b.system
  OBVIOUS
<1> HIDE DEF system
<1>5. chosen \in 0 .. final /\ (chosen > 0 => b.messages[chosen].blocks # <<>>)
  <2> DEFINE F == {i \in 1 .. final :
                    LET m == b.messages[i]
                    IN /\ m.role # "system" /\ m.blocks # <<>>
                       /\ ~(m.role = "assistant" /\ m.blocks[Len(m.blocks)].kind = "thinking")}
  <2>1. F \in SUBSET (1 .. final) /\ \A i \in F : b.messages[i].blocks # <<>>
    OBVIOUS
  <2> HIDE DEF F
  <2>2. LastOf(F) \in F \cup {0} /\ LastOf(F) \in 0 .. final
    BY <1>1, <2>1, LastIs
  <2>3. eligible \in 0 .. final /\ (eligible > 0 => b.messages[eligible].blocks # <<>>)
    <3>1. eligible = LastOf(F)
      BY DEF F
    <3> HIDE DEF eligible
    <3> QED
      BY <2>1, <2>2, <3>1
  <2> HIDE DEF eligible
  <2> QED
    BY <1>1, <2>3
<1> HIDE DEF chosen
<1>6. /\ messages \in Seq(Messages) /\ Len(messages) = Len(b.messages)
      /\ \A m \in 1 .. Len(b.messages) :
            /\ Len(messages[m].blocks) = Len(b.messages[m].blocks)
            /\ \A i \in 1 .. Len(b.messages[m].blocks) :
                    ~ (m = chosen /\ i = last) =>
                        messages[m].blocks[i] = b.messages[m].blocks[i]
  <2>1. CASE chosen > 0 /\ NoneMarked(b.messages[chosen].blocks)
    <3> DEFINE old == b.messages[chosen].blocks
               new == WithMark(old, Len(old), ttl)
    <3>1. chosen \in 1 .. Len(b.messages) /\ old \in Seq(Blocks) /\ old # <<>>
      BY <1>1, <1>5, <2>1
    <3>2. Len(old) \in 1 .. Len(old)
      BY <3>1
    <3> HIDE DEF old
    <3>3. /\ new \in Seq(Blocks) /\ Len(new) = Len(old)
          /\ \A j \in 1 .. Len(old) : j # Len(old) => new[j] = old[j]
      BY <3>1, <3>2, WithMarkIs
    <3>4. messages = [b.messages EXCEPT ![chosen].blocks = new]
      BY <2>1, <3>1 DEF old
    <3> HIDE DEF new, messages
    <3>5. /\ messages \in Seq(Messages) /\ Len(messages) = Len(b.messages)
          /\ messages[chosen].blocks = new
          /\ \A m \in 1 .. Len(b.messages) : m # chosen => messages[m] = b.messages[m]
      <4> DEFINE then == [b.messages EXCEPT ![chosen].blocks = new]
      <4>1. /\ then \in Seq(Messages) /\ Len(then) = Len(b.messages)
            /\ then[chosen].blocks = new
            /\ \A m \in 1 .. Len(b.messages) : m # chosen => then[m] = b.messages[m]
        BY <1>1, <3>1, <3>3, MessageWithBlocks
      <4>2. messages = then
        BY <3>4
      <4> HIDE DEF then
      <4> QED
        BY <4>1, <4>2
    <3> QED
      BY <3>3, <3>5 DEF old
  <2>2. CASE ~ (chosen > 0 /\ NoneMarked(b.messages[chosen].blocks))
    <3>1. messages = b.messages
      BY <2>2
    <3> HIDE DEF messages
    <3> QED
      BY <1>1, <3>1
  <2> QED
    BY <2>1, <2>2
<1> HIDE DEF messages, final
<1>7. n \in Body
  BY <1>2, <1>3, <1>6 DEF Body
<1>8. /\ Normalized(n, ttl) \in Body /\ OrderIsLegal(Normalized(n, ttl))
      /\ MarkedPlaces(Normalized(n, ttl)) = MarkedPlaces(n)
  <2> HIDE DEF n
  <2> QED
    BY <1>7, NormalizedIs
<1>9. ASSUME MarkedPlaces(b) = {} PROVE Count(Normalized(n, ttl)) <= Limit
  <2> DEFINE x == IF b.system = <<>> THEN <<0, 1, tool>> ELSE <<1, 1, Len(b.system)>>
             y == <<2, chosen, last>>
  <2>0. n.tools = tools /\ n.system = system /\ n.messages = messages
    OBVIOUS
  <2> HIDE DEF n
  <2>1. \A p \in Places(b) : MarkAt(b, p) = "none"
    BY <1>9 DEF MarkedPlaces
  <2>2. MarkedPlaces(n) \subseteq {x, y}
    <3> SUFFICES ASSUME NEW p \in Places(n), p # x, p # y PROVE MarkAt(n, p) = "none"
      BY DEF MarkedPlaces
    <3>1. CASE \E i \in 1 .. Len(n.tools) : p = <<0, 1, i>>
      <4>1. PICK i \in 1 .. Len(n.tools) : p = <<0, 1, i>>
        BY <3>1
      <4>2. p \in Places(b) /\ i \in 1 .. Len(b.tools)
        BY <1>2, <2>0, <4>1, PlacesAre
      <4>3. tools[i] = b.tools[i]
        <5>1. b.system = <<>> => i # tool
          BY <4>1
        <5>2. b.system # <<>> => tools[i] = b.tools[i]
          BY <1>2
        <5> QED
          BY <1>2, <4>2, <5>1, <5>2
      <4>4. MarkAt(n, p) = tools[i].mark /\ MarkAt(b, p) = b.tools[i].mark
        BY <2>0, <4>1 DEF MarkAt
      <4> QED
        BY <2>1, <4>2, <4>3, <4>4
    <3>2. CASE \E i \in 1 .. Len(n.system) : p = <<1, 1, i>>
      <4>1. PICK i \in 1 .. Len(n.system) : p = <<1, 1, i>>
        BY <3>2
      <4>2. p \in Places(b) /\ i \in 1 .. Len(b.system)
        BY <1>3, <2>0, <4>1, PlacesAre
      <4>3. system[i] = b.system[i]
        <5>1. b.system # <<>> => i # Len(b.system)
          BY <4>1
        <5> QED
          BY <1>3, <1>4, <4>2, <5>1
      <4>4. MarkAt(n, p) = system[i].mark /\ MarkAt(b, p) = b.system[i].mark
        BY <2>0, <4>1 DEF MarkAt
      <4> QED
        BY <2>1, <4>2, <4>3, <4>4
    <3>3. CASE \E m \in 1 .. Len(n.messages) : \E i \in 1 .. Len(n.messages[m].blocks) :
                  p = <<2, m, i>>
      <4>0. PICK m \in 1 .. Len(n.messages) : \E i \in 1 .. Len(n.messages[m].blocks) :
                  p = <<2, m, i>>
        BY <3>3
      <4>1. PICK i \in 1 .. Len(n.messages[m].blocks) : p = <<2, m, i>>
        BY <4>0
      <4>2. p \in Places(b) /\ m \in 1 .. Len(b.messages) /\ i \in 1 .. Len(b.messages[m].blocks)
        BY <1>6, <2>0, <4>1, PlacesAre
      <4>3. messages[m].blocks[i] = b.messages[m].blocks[i]
        <5>1. ~ (m = chosen /\ i = last)
          BY <4>1
        <5> HIDE DEF last
        <5> QED
          BY <1>6, <4>2, <5>1 DEF last
      <4>4. MarkAt(n, p) = messages[m].blocks[i].mark
        BY <2>0, <4>1 DEF MarkAt
      <4>5. MarkAt(b, p) = b.messages[m].blocks[i].mark
        BY <4>1 DEF MarkAt
      <4> QED
        BY <2>1, <4>2, <4>3, <4>4, <4>5
    <3> QED
      BY <3>1, <3>2, <3>3, PlacesAre
  <2> HIDE DEF x, y
  <2> QED
    BY <1>8, <2>2, TwoAreMarked
<1> QED
  BY <1>0, <1>8, <1>9

\* New blocks go in behind the results.
LEMMA InsertedIs ==
    ASSUME NEW blocks \in Seq(Blocks), NEW new \in Seq(Blocks)
    PROVE  Inserted(blocks, new) \in Seq(Blocks)
<1> DEFINE F == {i \in 1 .. Len(blocks) : blocks[i].kind # "result"} \cup {Len(blocks) + 1}
           at == AfterResults(blocks)
<1>1. Len(blocks) \in Nat /\ Len(blocks) + 1 \in Nat
  OBVIOUS
<1>2. F \in SUBSET (1 .. Len(blocks) + 1) /\ F # {}
  BY <1>1
<1> HIDE DEF F
<1>3. FirstOf(F) \in F
  BY <1>1, <1>2, FirstIs
<1>4. at \in 1 .. Len(blocks) + 1
  <2>1. at = FirstOf(F)
    BY DEF AfterResults, F
  <2> QED
    BY <1>2, <1>3, <2>1
<1>5. Inserted(blocks, new) = (SubSeq(blocks, 1, at - 1) \o new) \o SubSeq(blocks, at, Len(blocks))
  BY DEF Inserted
<1> HIDE DEF at
<1>6. SubSeq(blocks, 1, at - 1) \in Seq(Blocks)
  BY <1>1, <1>4
<1>7. SubSeq(blocks, at, Len(blocks)) \in Seq(Blocks)
  BY <1>1, <1>4
<1>8. SubSeq(blocks, 1, at - 1) \o new \in Seq(Blocks)
  BY <1>6
<1> QED
  BY <1>5, <1>7, <1>8

\* Where there is a first message of a user, it is a message.
LEMMA FirstUserIs ==
    ASSUME NEW messages \in Seq(Messages)
    PROVE  FirstUser(messages) \in 0 .. Len(messages)
<1> DEFINE F == {i \in 1 .. Len(messages) : messages[i].role = "user"}
<1>1. Len(messages) \in Nat /\ F \in SUBSET (1 .. Len(messages))
  OBVIOUS
<1>2. FirstOf(F) \in 0 .. Len(messages)
  <2> HIDE DEF F
  <2> QED
    BY <1>1, FirstIs
<1> QED
  BY <1>2 DEF FirstUser

\* relocateClaudeSystemPrompt makes messages of the messages.
LEMMA RelocatedIs ==
    ASSUME NEW messages \in Seq(Messages), NEW system \in Seq(Blocks), NEW legacy \in BOOLEAN
    PROVE  Relocated(messages, system, legacy) \in Seq(Messages)
<1> DEFINE first == FirstUser(messages)
           after == {i \in first .. Len(messages) :
                        \A j \in first .. i : messages[j].role = "user"}
           at == LastOf(after)
           reminders == [i \in 1 .. Len(system) |-> Block("reminder", "none")]
           told == [i \in 1 .. Len(system) |->
                        [role |-> "system", blocks |-> <<Block("text", "bare")>>]]
<1>1. Len(messages) \in Nat /\ Len(system) \in Nat /\ first \in 0 .. Len(messages)
  BY FirstUserIs
<1> HIDE DEF first
<1>2. CASE system = <<>> \/ first = 0
  <2>1. Relocated(messages, system, legacy) = messages
    BY <1>2 DEF Relocated, first
  <2> QED
    BY <2>1
<1>3. CASE ~ (system = <<>> \/ first = 0) /\ legacy
  <2> DEFINE new == Inserted(messages[first].blocks, reminders)
  <2>1. first \in 1 .. Len(messages)
    BY <1>1, <1>3
  <2>2. messages[first].blocks \in Seq(Blocks)
    <3>1. messages[first] \in Messages
      BY <2>1
    <3> QED
      BY <3>1 DEF Messages
  <2>3. reminders \in Seq(Blocks)
    <3>1. Block("reminder", "none") \in Blocks
      BY DEF Block, Blocks, Kinds, Marks
    <3> QED
      BY <1>1, <3>1
  <2>4. new \in Seq(Blocks)
    <3> HIDE DEF reminders
    <3> QED
      BY <2>2, <2>3, InsertedIs
  <2>5. Relocated(messages, system, legacy) = [messages EXCEPT ![first].blocks = new]
    BY <1>3 DEF Relocated, first
  <2> HIDE DEF new
  <2>6. [messages EXCEPT ![first].blocks = new] \in Seq(Messages)
    BY <2>1, <2>4, MessageWithBlocks
  <2> QED
    BY <2>5, <2>6
<1>4. CASE ~ (system = <<>> \/ first = 0) /\ ~ legacy
  <2>1. at \in 0 .. Len(messages)
    <3>1. after \in SUBSET (1 .. Len(messages))
      BY <1>1, <1>4
    <3> HIDE DEF after
    <3> QED
      BY <1>1, <3>1, LastIs
  <2>2. told \in Seq(Messages)
    <3>1. Block("text", "bare") \in Blocks
      BY DEF Block, Blocks, Kinds, Marks
    <3>2. <<Block("text", "bare")>> \in Seq(Blocks)
      BY <3>1
    <3>3. [role |-> "system", blocks |-> <<Block("text", "bare")>>] \in Messages
      BY <3>2 DEF Messages
    <3> QED
      BY <1>1, <3>3
  <2>3. Relocated(messages, system, legacy) =
            (SubSeq(messages, 1, at) \o told) \o SubSeq(messages, at + 1, Len(messages))
    BY <1>4 DEF Relocated, first
  <2> HIDE DEF told, at
  <2>4. SubSeq(messages, 1, at) \in Seq(Messages)
    BY <1>1, <2>1
  <2>5. SubSeq(messages, at + 1, Len(messages)) \in Seq(Messages)
    BY <1>1, <2>1
  <2>6. SubSeq(messages, 1, at) \o told \in Seq(Messages)
    BY <2>2, <2>4
  <2> QED
    BY <2>3, <2>5, <2>6
<1> QED
  BY <1>2, <1>3, <1>4

\* injectClaudeCurrentDate makes messages of the messages.
LEMMA DatedIs ==
    ASSUME NEW messages \in Seq(Messages)
    PROVE  Dated(messages) \in Seq(Messages)
<1> DEFINE first == FirstUser(messages)
           blocks == messages[first].blocks
           F == {i \in 1 .. Len(blocks) : blocks[i].kind \in {"text", "string"}}
           text == FirstOf(F)
           marked == IF text = 0 THEN blocks ELSE [blocks EXCEPT ![text].mark = "bare"]
           date == <<Block("reminder", "none")>>
           new == Inserted(marked, date)
<1>1. first \in 0 .. Len(messages) /\ Len(messages) \in Nat
  BY FirstUserIs
<1>2. Dated(messages) = IF first = 0 THEN messages ELSE [messages EXCEPT ![first].blocks = new]
  BY DEF Dated
<1> HIDE DEF first
<1>3. CASE first # 0
  <2>1. first \in 1 .. Len(messages)
    BY <1>1, <1>3
  <2>2. blocks \in Seq(Blocks) /\ Len(blocks) \in Nat
    <3>1. messages[first] \in Messages
      BY <2>1
    <3>2. messages[first].blocks \in Seq(Blocks)
      BY <3>1 DEF Messages
    <3> QED
      BY <3>2
  <2> HIDE DEF blocks
  <2>3. text \in 0 .. Len(blocks)
    <3>1. F \in SUBSET (1 .. Len(blocks))
      OBVIOUS
    <3> HIDE DEF F
    <3> QED
      BY <2>2, <3>1, FirstIs
  <2> HIDE DEF text
  <2>4. marked \in Seq(Blocks)
    <3>1. CASE text # 0
      <4> DEFINE block == [blocks[text] EXCEPT !.mark = "bare"]
      <4>1. text \in 1 .. Len(blocks) /\ blocks[text] \in Blocks
        BY <2>2, <2>3, <3>1
      <4>2. block \in Blocks
        BY <4>1 DEF Blocks, Marks
      <4>3. marked = [blocks EXCEPT ![text] = block]
        BY <3>1
      <4> HIDE DEF block
      <4> QED
        BY SMTT(30), <2>2, <4>1, <4>2, <4>3
    <3> QED
      BY <2>2, <3>1
  <2>5. date \in Seq(Blocks)
    <3>1. Block("reminder", "none") \in Blocks
      BY DEF Block, Blocks, Kinds, Marks
    <3> QED
      BY <3>1
  <2> HIDE DEF marked, date
  <2>6. new \in Seq(Blocks)
    BY <2>4, <2>5, InsertedIs
  <2> HIDE DEF new
  <2>7. [messages EXCEPT ![first].blocks = new] \in Seq(Messages)
    BY <2>1, <2>6, MessageWithBlocks
  <2> QED
    BY <1>2, <1>3, <2>7
<1> QED
  BY <1>2, <1>3

\* shapeClaudeOAuthBody makes a body of a body.
LEMMA ShapedIs ==
    ASSUME MarksAssumption, NEW b \in Body, NEW legacy \in BOOLEAN, NEW ttl \in Ttls
    PROVE  Shaped(b, legacy, ttl) \in Body
<1> DEFINE relocated == IF path = "strict" THEN b.messages
                        ELSE Relocated(b.messages, b.system, legacy)
           new == [tools |-> b.tools, system |-> ClaudeCodeSystem, messages |-> Dated(relocated)]
<1>1. /\ b.tools \in Seq(Blocks) /\ b.system \in Seq(Blocks) /\ b.messages \in Seq(Messages)
  BY BodiesAre
<1>2. relocated \in Seq(Messages)
  BY <1>1, RelocatedIs
<1>3. ClaudeCodeSystem \in Seq(Blocks)
  <2>1. Block("text", "none") \in Blocks /\ Block("text", "bare") \in Blocks
    BY DEF Block, Blocks, Kinds, Marks
  <2> QED
    BY <2>1 DEF ClaudeCodeSystem
<1>4. Shaped(b, legacy, ttl) = Enforced(Ensured(new, ttl))
  BY DEF Shaped
<1> HIDE DEF relocated
<1>5. Dated(relocated) \in Seq(Messages)
  BY <1>2, DatedIs
<1>6. new \in Body
  BY <1>1, <1>3, <1>5 DEF Body
<1> HIDE DEF new
<1>7. Ensured(new, ttl) \in Body
  BY <1>6, EnsuredIs
<1> QED
  BY <1>4, <1>7, EnforcedIs

\* A body is what was sent at first.
LEMMA MarksBegin ==
    ASSUME MarksAssumption, Init
    PROVE  MarksInv
BY DEF MarksAssumption, Init, MarksInv, TypeOK, MarksAreLegal

\* No marks are none to count.
LEMMA NoneIsZero ==
    ASSUME NEW b \in Body
    PROVE  Count(b) = 0 <=> MarkedPlaces(b) = {}
BY MarksAreFinite, FS_EmptySet DEF Count

\* With one mark, or none, the order is one that the provider accepts.
LEMMA OneIsOrdered ==
    ASSUME NEW b \in Body, NEW x, MarkedPlaces(b) \subseteq {x}
    PROVE  OrderIsLegal(b)
<1> SUFFICES ASSUME NEW p \in Places(b), NEW q \in Places(b), Ahead(p, q),
                    MarkAt(b, p) \in {"bare", "5m"}, MarkAt(b, q) = "1h"
             PROVE  FALSE
  BY DEF OrderIsLegal
<1>1. p \in MarkedPlaces(b) /\ q \in MarkedPlaces(b)
  BY DEF MarkedPlaces
<1>2. p = q
  BY <1>1
<1> QED
  BY <1>2

\* prepareClaudeRequestBody up to the operator's rules.
LEMMA ShapeKeeps ==
    ASSUME MarksAssumption, MarksInv, Shape
    PROVE  MarksInv'
<1>1. body \in Body /\ given \in Body /\ path \in Paths /\ stage = "received"
  BY DEF MarksInv, TypeOK, Shape
<1>2. stage' = "shaped" /\ path' = path /\ given' = given
  BY DEF Shape
<1>3. body' \in Body
  <2>1. CASE path = "plain"
    <3>1. body' = IF Count(body) = 0 THEN Ensured(body, "") ELSE body
      BY <2>1 DEF Shape
    <3>2. Ensured(body, "") \in Body
      BY <1>1, EnsuredIs DEF Ttls
    <3> QED
      BY <1>1, <3>1, <3>2
  <2>2. CASE path = "open"
    BY <1>1, <2>2 DEF Shape
  <2>3. CASE path \in {"cloaked", "strict"}
    <3>1. PICK legacy \in BOOLEAN, ttl \in {"", "1h"} : body' = Shaped(body, legacy, ttl)
      BY <2>3 DEF Shape
    <3>2. ttl \in Ttls
      BY DEF Ttls
    <3> QED
      BY <1>1, <3>1, <3>2, ShapedIs
  <2>4. CASE path = "count"
    <3>1. PICK legacy \in BOOLEAN :
            body' = [body EXCEPT !.system = <<>>, !.messages = Relocated(@, body.system, legacy)]
      BY <2>4 DEF Shape
    <3> DEFINE new == Relocated(body.messages, body.system, legacy)
    <3>2. /\ body = [tools |-> body.tools, system |-> body.system, messages |-> body.messages]
          /\ body.tools \in Seq(Blocks) /\ body.system \in Seq(Blocks)
          /\ body.messages \in Seq(Messages)
      BY <1>1, BodiesAre
    <3>3. body' = [tools |-> body.tools, system |-> <<>>, messages |-> new]
      BY <3>1, <3>2
    <3>4. new \in Seq(Messages) /\ <<>> \in Seq(Blocks)
      BY <3>2, RelocatedIs
    <3> HIDE DEF new
    <3> QED
      BY <3>2, <3>3, <3>4 DEF Body
  <2> QED
    BY <1>1, <2>1, <2>2, <2>3, <2>4 DEF Paths
<1>4. path = "open" /\ MarkedPlaces(given) = {} => body' = given'
  BY <1>1, <1>2 DEF Shape, MarksInv
<1>5. MarkedPlaces(given)' = MarkedPlaces(given)
  BY <1>2 DEF MarkedPlaces, Places, MarkAt
<1> QED
  BY <1>1, <1>2, <1>3, <1>4, <1>5 DEF MarksInv, TypeOK, MarksAreLegal

\* applyClaudePayloadConfig changes one mark.
LEMMA ConfigureKeeps ==
    ASSUME MarksAssumption, MarksInv, Configure
    PROVE  MarksInv'
<1>1. body \in Body /\ given \in Body /\ path \in Paths /\ stage = "shaped"
  BY DEF MarksInv, TypeOK, Configure
<1>2. stage' = "configured" /\ path' = path /\ given' = given
  BY DEF Configure
<1>3. body' \in Body /\ \E x : MarkedPlaces(body)' \subseteq MarkedPlaces(body) \cup {x}
  <2>1. CASE body' = body
    <3>1. MarkedPlaces(body)' = MarkedPlaces(body)
      BY <2>1 DEF MarkedPlaces, Places, MarkAt
    <3> QED
      BY <1>1, <2>1, <3>1
  <2>2. CASE body' # body
    <3>1. PICK p \in Places(body), mark \in {"none", "1h", "5m"} :
             body' = Remarked(body, [q \in Places(body) |->
                                        IF q = p THEN mark ELSE MarkAt(body, q)])
      BY <2>2 DEF Configure
    <3> DEFINE marks == [q \in Places(body) |-> IF q = p THEN mark ELSE MarkAt(body, q)]
               new == Remarked(body, marks)
    <3>2. \A q \in Places(body) : marks[q] \in Marks /\ (q # p => marks[q] = MarkAt(body, q))
      BY <1>1, PlacesAreMarked DEF Marks
    <3> HIDE DEF marks
    <3>3. /\ new \in Body /\ Places(new) = Places(body)
          /\ \A q \in Places(body) : MarkAt(new, q) = marks[q]
      BY <1>1, <3>2, RemarkedIs
    <3> HIDE DEF new
    <3>4. MarkedPlaces(new) \subseteq MarkedPlaces(body) \cup {p}
      BY <3>2, <3>3 DEF MarkedPlaces
    <3>5. body' = new
      BY <3>1 DEF new, marks
    <3>6. MarkedPlaces(body)' = MarkedPlaces(new)
      BY <3>5 DEF MarkedPlaces, Places, MarkAt
    <3> QED
      BY <3>3, <3>4, <3>5, <3>6
  <2> QED
    BY <2>1, <2>2
<1>4. ASSUME path = "open", MarkedPlaces(given) = {}
      PROVE  \E x : MarkedPlaces(body)' \subseteq {x}
  <2>1. body = given
    BY <1>1, <1>4 DEF MarksInv
  <2> QED
    BY <1>3, <1>4, <2>1
<1>5. MarkedPlaces(given)' = MarkedPlaces(given)
  BY <1>2 DEF MarkedPlaces, Places, MarkAt
<1> QED
  BY <1>1, <1>2, <1>3, <1>4, <1>5 DEF MarksInv, TypeOK, MarksAreLegal

\* What is repaired after the rules is legal.
LEMMA RepairKeeps ==
    ASSUME MarksAssumption, MarksInv, Repair
    PROVE  MarksInv'
<1>1. body \in Body /\ given \in Body /\ path \in Paths /\ stage = "configured"
  BY DEF MarksInv, TypeOK, Repair
<1>2. stage' = "sent" /\ path' = path /\ given' = given
  BY DEF Repair
<1> DEFINE Legal(b) ==
             /\ b \in Body
             /\ path \in {"cloaked", "strict", "count"} => Count(b) <= Limit
             /\ path \in {"cloaked", "strict"} => OrderIsLegal(b)
             /\ path = "open" /\ Count(given) = 0 => Count(b) <= Limit /\ OrderIsLegal(b)
<1>3. \E b : body' = b /\ Legal(b)
  <2>1. CASE path = "plain"
    <3>1. body' = body
      BY <2>1 DEF Repair
    <3> QED
      BY <1>1, <2>1, <3>1
  <2>2. CASE path = "open"
    <3>1. PICK ttl \in {"", "1h"} : body' = IF Count(body) = 0 THEN Ensured(body, ttl) ELSE body
      BY <2>2 DEF Repair
    <3>2. ttl \in Ttls
      BY DEF Ttls
    <3>3. CASE Count(body) = 0
      <4>1. MarkedPlaces(body) = {}
        BY <1>1, <3>3, NoneIsZero
      <4>2. /\ Ensured(body, ttl) \in Body /\ OrderIsLegal(Ensured(body, ttl))
            /\ Count(Ensured(body, ttl)) <= Limit
        BY <1>1, <3>2, <4>1, EnsuredIs
      <4>3. body' = Ensured(body, ttl)
        BY <3>1, <3>3
      <4> QED
        BY <2>2, <4>2, <4>3
    <3>4. CASE Count(body) # 0
      <4>1. body' = body
        BY <3>1, <3>4
      <4>2. ASSUME Count(given) = 0 PROVE Count(body) <= Limit /\ OrderIsLegal(body)
        <5>1. MarkedPlaces(given) = {}
          BY <1>1, <4>2, NoneIsZero
        <5>2. PICK x : MarkedPlaces(body) \subseteq {x}
          BY <1>1, <2>2, <5>1 DEF MarksInv
        <5>3. MarkedPlaces(body) \subseteq {x, x}
          BY <5>2
        <5> QED
          BY <1>1, <5>2, <5>3, OneIsOrdered, TwoAreMarked
      <4> QED
        BY <1>1, <2>2, <4>1, <4>2
    <3> QED
      BY <3>3, <3>4
  <2>3. CASE path \in {"cloaked", "strict"}
    <3> DEFINE new == Enforced(body)
    <3>1. body' = Normalized(new, "")
      BY <2>3 DEF Repair
    <3>2. new \in Body /\ Count(new) <= Limit
      BY <1>1, EnforcedIs
    <3> HIDE DEF new
    <3>3. /\ Normalized(new, "") \in Body /\ OrderIsLegal(Normalized(new, ""))
          /\ MarkedPlaces(Normalized(new, "")) = MarkedPlaces(new)
      BY <3>2, NormalizedIs DEF Ttls
    <3>4. Count(Normalized(new, "")) = Count(new)
      BY <3>3 DEF Count
    <3> QED
      BY <2>3, <3>1, <3>2, <3>3, <3>4
  <2>4. CASE path = "count"
    <3>1. body' = Enforced(body)
      BY <2>4 DEF Repair
    <3>2. Enforced(body) \in Body /\ Count(Enforced(body)) <= Limit
      BY <1>1, EnforcedIs
    <3> QED
      BY <2>4, <3>1, <3>2
  <2> QED
    BY <1>1, <2>1, <2>2, <2>3, <2>4 DEF Paths
<1>4. PICK b : body' = b /\ Legal(b)
  BY <1>3
<1>5. Count(body)' = Count(b) /\ OrderIsLegal(body)' = OrderIsLegal(b)
      /\ Count(given)' = Count(given)
  <2>1. Count(body)' = Count(b)
    BY <1>4 DEF Count, MarkedPlaces, Places, MarkAt
  <2>2. Count(given)' = Count(given)
    BY <1>2 DEF Count, MarkedPlaces, Places, MarkAt
  <2>3. OrderIsLegal(body)' = OrderIsLegal(b)
    BY <1>4 DEF OrderIsLegal, Places, MarkAt
  <2> QED
    BY <2>1, <2>2, <2>3
<1>6. MarksAreLegal'
  BY <1>2, <1>4, <1>5 DEF MarksAreLegal
<1> QED
  BY <1>1, <1>2, <1>4, <1>6 DEF MarksInv, TypeOK

\* The marks go on as they are meant to.
LEMMA MarksGoOn ==
    ASSUME MarksAssumption, MarksInv, [Next]_vars
    PROVE  MarksInv'
<1>1. CASE UNCHANGED vars
  <2>1. /\ MarkedPlaces(given)' = MarkedPlaces(given) /\ MarkedPlaces(body)' = MarkedPlaces(body)
    BY <1>1 DEF vars, MarkedPlaces, Places, MarkAt
  <2>2. Count(body)' = Count(body) /\ Count(given)' = Count(given)
    BY <2>1 DEF Count
  <2>3. OrderIsLegal(body)' = OrderIsLegal(body)
    BY <1>1 DEF vars, OrderIsLegal, Places, MarkAt
  <2>4. MarksAreLegal'
    BY <1>1, <2>2, <2>3 DEF MarksInv, vars, MarksAreLegal
  <2> QED
    BY <1>1, <2>1, <2>4 DEF MarksInv, TypeOK, vars
<1> QED
  BY <1>1, ShapeKeeps, ConfigureKeeps, RepairKeeps DEF Next
=============================================================================
