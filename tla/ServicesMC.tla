----------------------------- MODULE ServicesMC -----------------------------
(***************************************************************************)
(* Small instances of the components that keep state between the awaits of *)
(* a request, of those that make its body fit to be read and sent, and of  *)
(* the accounts behind them, checked in one run: `part` says which         *)
(* component a behaviour is one of, and never changes.  The components do  *)
(* not share steps, so they share variables: x1, x2, ... stand for each    *)
(* component's variables in the order it declares them, and the rest stay  *)
(* Unused.                                                                 *)
(*                                                                         *)
(* The components whose lemmas are proved here come first, each with its   *)
(* lemmas; then the others, the composition with its properties and, last, *)
(* the theorems.                                                           *)
(***************************************************************************)
EXTENDS Integers, Sequences, FiniteSets, FiniteSetTheorems, TLC, TLAPS

CONSTANTS
    h1, h2, h3, l1, l2, a1, a2,             \* interchangeable members of sets
    None, Nothing,                          \* absent values
    \* The parameters of the parts that theorems are about
    CircuitAttempts, CircuitRoutes, CircuitModels, CircuitCooldowns,
    ProbeInterval, CircuitCooldown, CircuitLimit,                  \* Circuits
    HostRequests, Origins, FailureWindow, Cooldown, MaxEntries,    \* Hosts
    FailureThreshold, MaxTime, MaxGeneration,                      \* both
    MaxRestarts,
    Callers, CallerKinds, MaxAttempts, MaxReplacements, MaxFetches,      \* Tokens
    TurnKeys, Lanes, MaxItems, MaxReceipts, MaxGenerations,        \* Receipts
    TableRows, Transient, Values, Collection, MaxSteps,            \* Records
    MaxEvents,                                                     \* Streams
    CompatRequests, CompatShared, CompatKind, MaxPolls,            \* Compat
    RawRequests, RawShared,                                        \* Raw
    RelayAccounts, RelayShared, RelayTurns, RelayQueue, RelayResends, RelayConns,   \* Turns
    LaneResponses, LaneSteers, LaneTurns, LaneSockets, LaneControls, LaneReplacements,  \* Lane
    SessionAccounts, SessionRequests, SessionIds, AccountCapacity, AccountPriority,
    AccountQuota, PreferredAccounts, Strategies, Rotation, SessionCosts,
    SessionLimit, PinLimit, PinTtl, SessionTime, SessionChanges,           \* Sessions
    SpendingAttempts, AttemptCosts, SpendingCaps, SettlementWindow, DayLength, Retention,
    SpendingTime, CapChanges, MaxDeliveries,                               \* Spending
    LearningRequests, RejectedFields, PromotionCount, ObservationGap, FactTtl,
    ObservationLimit, LearningTime, LearningGenerations,                   \* Facts
    AccountTypes, QuotaInterval, QuotaOwners, QuotaTokens, QuotaTime,      \* Quotas
    CatalogAccounts, CatalogModels, CatalogRank, FreshTtl, ListingTtls, FailureSuppression,
    MaxCatalogs, MaxAggregations, MaxNegative,
    CatalogGenerations, CatalogRevisions, CatalogFetches, CatalogTime,     \* Catalogs
    ToolNames, PlainTools, AliasWords, NameHash, SanitizedName, AliasName, MaxTools,  \* Names
    MarkedBodies, MarkLimit,                                               \* Marks
    SuffixBudgets, TokenLimits, LeastBudget, DefaultTokens,                \* Parameters
    MaxCompressed, MaxDecompressed, MaxRatio, BodyDeadline, MaxBodySize,   \* Ingress
    BodyChunks, DecodedBytes, RejectedBytes, CollectedBytes,               \* Exchange
    ManagedIds, ManagedTypes, OperatorTokens, TokenPerson, TokenOwner, TokenAccount,
    TokenEpochs, TornAccounts                                              \* Managed

VARIABLES part, x1, x2, x3, x4, x5, x6, x7, x8, x9, x10, x11, x12, x13, x14, x15

-----------------------------------------------------------------------------
(* Sums over finite sets.                                                  *)

\* Induction on the naturals for a set of them.
LEMMA NatsAreReached ==
    ASSUME NEW T, 0 \in T, \A n \in Nat : n \in T => n + 1 \in T
    PROVE  \A n \in Nat : n \in T
<1> DEFINE less == {p \in Nat \X Nat : p[1] < p[2]}
           missed == Nat \ T
<1>1. IsWellFoundedOn(less, Nat)
  BY NatLessThanWellFounded DEF OpToRel
<1> HIDE DEF less
<1>2. SUFFICES ASSUME missed # {} PROVE FALSE
  OBVIOUS
<1>3. PICK x \in missed : \A y \in missed : ~ (<<y, x>> \in less)
  <2>1. missed \subseteq Nat
    OBVIOUS
  <2> HIDE DEF missed
  <2> QED
    BY <1>1, <1>2, <2>1, WFMin
<1>4. x \in Nat /\ x # 0 /\ x \notin T
  OBVIOUS
<1>5. x - 1 \in Nat /\ x = (x - 1) + 1
  BY <1>4
<1>6. x - 1 \in missed
  BY <1>4, <1>5
<1>7. <<x - 1, x>> \in less
  BY <1>4, <1>5 DEF less
<1> QED
  BY <1>3, <1>6, <1>7

\* A function is determined by its first value and by how it goes on: ...
GoesAlike(n, f, g) ==
    f[0] = g[0] /\ \A i \in 1 .. n : f[i - 1] = g[i - 1] => f[i] = g[i]

Alike(n, f, g) == \A i \in 0 .. n : f[i] = g[i]

\* Two that begin and go on alike are the same.
LEMMA GoOnAlike ==
    ASSUME NEW n \in Nat, NEW f, NEW g, GoesAlike(n, f, g)
    PROVE  Alike(n, f, g)
<1> DEFINE T == {i \in Nat : i <= n => f[i] = g[i]}
<1>1. 0 \in T
  BY DEF GoesAlike
<1>2. ASSUME NEW i \in Nat, i \in T PROVE i + 1 \in T
  <2> SUFFICES ASSUME i + 1 <= n PROVE f[i + 1] = g[i + 1]
    OBVIOUS
  <2>1. i + 1 \in 1 .. n /\ (i + 1) - 1 = i /\ f[i] = g[i]
    BY <1>2
  <2> QED
    BY <2>1 DEF GoesAlike
<1> HIDE DEF T
<1>3. \A i \in Nat : i \in T
  BY <1>1, <1>2, NatsAreReached
<1> QED
  BY <1>3 DEF T, Alike

\* ... and a function exists for each way of going on.
Runs(n, S, first, step) ==
    {f \in [0 .. n -> S] : f[0] = first /\ \A i \in 1 .. n : f[i] = step[i][f[i - 1]]}

\* From a first value and a way of going on there is a function.
LEMMA OneGoesOn ==
    ASSUME NEW n \in Nat, NEW S, NEW first \in S, NEW step,
           \A i \in 1 .. n : \A s \in S : step[i][s] \in S
    PROVE  Runs(n, S, first, step) # {}
<1> DEFINE Grows(m, f) == f[0] = first /\ \A i \in 1 .. m : f[i] = step[i][f[i - 1]]
           T == {m \in Nat : m <= n => \E f \in [0 .. m -> S] : Grows(m, f)}
<1>1. 0 \in T
  <2> DEFINE f == [i \in 0 .. 0 |-> first]
  <2>1. f \in [0 .. 0 -> S] /\ Grows(0, f)
    OBVIOUS
  <2> QED
    BY <2>1
<1>2. ASSUME NEW m \in Nat, m \in T PROVE m + 1 \in T
  <2> HIDE DEF Grows
  <2> SUFFICES ASSUME m + 1 <= n PROVE \E f \in [0 .. m + 1 -> S] : Grows(m + 1, f)
    <3>1. m + 1 \in Nat
      OBVIOUS
    <3> QED
      BY <3>1
  <2> USE DEF Grows
  <2>1. PICK f \in [0 .. m -> S] : Grows(m, f)
    BY <1>2
  <2> DEFINE next == step[m + 1][f[m]]
             g == [i \in 0 .. m + 1 |-> IF i <= m THEN f[i] ELSE next]
  <2>2. next \in S
    <3>1. m + 1 \in 1 .. n /\ f[m] \in S
      BY <2>1
    <3> QED
      BY <3>1
  <2> HIDE DEF next
  <2>3. g \in [0 .. m + 1 -> S]
    BY <2>1, <2>2
  <2>4. ASSUME NEW i \in 1 .. m + 1 PROVE g[i] = step[i][g[i - 1]]
    <3>1. CASE i <= m
      <4>1. g[i] = f[i] /\ g[i - 1] = f[i - 1] /\ i \in 1 .. m
        BY <3>1
      <4> QED
        BY <2>1, <4>1
    <3>2. CASE i = m + 1
      <4>1. g[i] = next /\ g[i - 1] = f[m]
        BY <3>2
      <4> QED
        BY <3>2, <4>1 DEF next
    <3> QED
      BY <3>1, <3>2
  <2>5. g[0] = first
    BY <2>1
  <2> QED
    BY <2>3, <2>4, <2>5
<1> HIDE DEF T
<1>3. n \in T
  BY <1>1, <1>2, NatsAreReached
<1> QED
  BY <1>3 DEF T, Runs

\* The element that is taken first.
Picked(s) == CHOOSE x \in s : TRUE

\* g sums f over every part of U, an element at a time.
Sums(g, f, U) ==
    g = [s \in SUBSET U |-> IF s = {} THEN 0 ELSE f[Picked(s)] + g[s \ {Picked(s)}]]

\* What MapThenSumSet of the community modules says of a function.
SumOver(f, S) == (CHOOSE g : Sums(g, f, S))[S]

\* It is in the set, and without it the set is smaller by one.
LEMMA PickedIs ==
    ASSUME NEW U, NEW s \in SUBSET U, s # {}, IsFiniteSet(U)
    PROVE  /\ Picked(s) \in s /\ s \ {Picked(s)} \in SUBSET U
           /\ \A x \in s : /\ IsFiniteSet(s) /\ Cardinality(s) \in Nat \ {0}
                           /\ Cardinality(s \ {x}) = Cardinality(s) - 1
<1>1. Picked(s) \in s
  BY DEF Picked
<1>2. IsFiniteSet(s) /\ Cardinality(s) \in Nat /\ Cardinality(s) # 0
  BY FS_Subset, FS_CardinalityType, FS_EmptySet
<1>3. \A x \in s : Cardinality(s \ {x}) = Cardinality(s) - 1
  BY <1>2, FS_RemoveElement
<1> QED
  BY <1>1, <1>2, <1>3

\* There is such a function, ...
LEMMA OneSums ==
    ASSUME NEW U, IsFiniteSet(U), NEW f, \A x \in U : f[x] \in Nat
    PROVE  \E g \in [SUBSET U -> Nat] : Sums(g, f, U)
<1> DEFINE n == Cardinality(U)
           tables == [SUBSET U -> Nat]
           Next1(h) == [s \in SUBSET U |->
                          IF s = {} THEN 0 ELSE f[Picked(s)] + h[s \ {Picked(s)}]]
           zero == [s \in SUBSET U |-> 0]
           step == [i \in 1 .. n |-> [h \in tables |-> Next1(h)]]
<1>1. n \in Nat
  BY FS_CardinalityType
<1>2. \A h \in tables : Next1(h) \in tables
  <2> SUFFICES ASSUME NEW h \in tables, NEW s \in SUBSET U, s # {}
               PROVE  f[Picked(s)] + h[s \ {Picked(s)}] \in Nat
    OBVIOUS
  <2>1. Picked(s) \in U /\ s \ {Picked(s)} \in SUBSET U
    BY PickedIs
  <2>2. f[Picked(s)] \in Nat /\ h[s \ {Picked(s)}] \in Nat
    BY <2>1
  <2> QED
    BY <2>2
<1>3. zero \in tables
  OBVIOUS
<1>4. ASSUME NEW h \in tables, NEW k \in tables, NEW s \in SUBSET U,
             s # {} => h[s \ {Picked(s)}] = k[s \ {Picked(s)}]
      PROVE  Next1(h)[s] = Next1(k)[s]
  BY <1>4
<1>5. \A h \in tables : \A s \in SUBSET U :
         Next1(h)[s] = IF s = {} THEN 0 ELSE f[Picked(s)] + h[s \ {Picked(s)}]
  OBVIOUS
<1>6. zero[{}] = 0 /\ \A h \in tables : Next1(h)[{}] = 0
  OBVIOUS
<1>u. \A h \in tables : \A k \in tables : (\A s \in SUBSET U : h[s] = k[s]) => h = k
  OBVIOUS
<1>7. \A h \in tables : Next1(h) = h => Sums(h, f, U)
  BY DEF Sums
<1> HIDE DEF n, tables, Next1, zero
<1>8. \A i \in 1 .. n : \A h \in tables : step[i][h] = Next1(h)
  OBVIOUS
<1>9. \A i \in 1 .. n : \A h \in tables : step[i][h] \in tables
  BY <1>2, <1>8
<1> HIDE DEF step
<1>10. PICK F \in [0 .. n -> tables] :
          F[0] = zero /\ \A i \in 1 .. n : F[i] = step[i][F[i - 1]]
  <2>1. Runs(n, tables, zero, step) # {}
    BY <1>1, <1>3, <1>9, OneGoesOn
  <2> QED
    BY <2>1 DEF Runs
<1>11. \A i \in 1 .. n : F[i - 1] \in tables /\ F[i] = Next1(F[i - 1])
  <2> SUFFICES ASSUME NEW i \in 1 .. n PROVE F[i - 1] \in tables /\ F[i] = Next1(F[i - 1])
    OBVIOUS
  <2>1. i - 1 \in 0 .. n
    BY <1>1
  <2> QED
    BY <1>8, <1>10, <2>1
\* What is small is settled early.
<1> DEFINE T == {i \in Nat : i <= n =>
                    \A s \in SUBSET U : Cardinality(s) <= i => Next1(F[i])[s] = F[i][s]}
<1>12. 0 \in T
  <2> SUFFICES ASSUME NEW s \in SUBSET U, Cardinality(s) <= 0
               PROVE  Next1(F[0])[s] = F[0][s]
    OBVIOUS
  <2>1. s = {}
    <3> SUFFICES ASSUME s # {} PROVE FALSE
      OBVIOUS
    <3>1. Cardinality(s) \in Nat \ {0} /\ Picked(s) \in s
      BY PickedIs
    <3> QED
      BY <3>1
  <2> QED
    BY <1>3, <1>6, <1>10, <2>1
<1>13. ASSUME NEW i \in Nat, i \in T PROVE i + 1 \in T
  <2> SUFFICES ASSUME i + 1 <= n, NEW s \in SUBSET U, Cardinality(s) <= i + 1
               PROVE  Next1(F[i + 1])[s] = F[i + 1][s]
    OBVIOUS
  <2>1. i + 1 \in 1 .. n /\ i + 1 \in 0 .. n /\ i \in 0 .. n /\ (i + 1) - 1 = i
    BY <1>1
  <2>2. F[i + 1] \in tables /\ F[i] \in tables /\ F[i + 1] = Next1(F[i])
    BY <1>10, <1>11, <2>1
  <2>3. ASSUME s # {} PROVE F[i + 1][s \ {Picked(s)}] = F[i][s \ {Picked(s)}]
    <3>1. /\ s \ {Picked(s)} \in SUBSET U /\ Cardinality(s) \in Nat
          /\ Cardinality(s \ {Picked(s)}) = Cardinality(s) - 1
      BY <2>3, PickedIs
    <3>2. Cardinality(s \ {Picked(s)}) <= i
      BY <3>1
    <3> QED
      BY <1>13, <2>1, <2>2, <3>1, <3>2
  <2>4. Next1(F[i + 1])[s] = Next1(F[i])[s]
    BY <1>4, <2>2, <2>3
  <2> QED
    BY <2>2, <2>4
<1>14. n \in T
  <2> HIDE DEF T
  <2> QED
    BY <1>1, <1>12, <1>13, NatsAreReached
<1>15. F[n] \in tables /\ Next1(F[n]) \in tables
  BY <1>1, <1>2, <1>10
<1>16. \A s \in SUBSET U : Next1(F[n])[s] = F[n][s]
  <2> TAKE s \in SUBSET U
  <2>1. Cardinality(s) <= n
    BY FS_Subset DEF n
  <2> QED
    BY <1>1, <1>14, <2>1
<1>17. Next1(F[n]) = F[n]
  BY <1>u, <1>15, <1>16
<1>18. Sums(F[n], f, U)
  BY <1>7, <1>15, <1>17
<1> QED
  BY <1>15, <1>18 DEF tables

\* ... and every one says the same of what two of them sum alike.
LEMMA SumsAgree ==
    ASSUME NEW U, IsFiniteSet(U), NEW V, NEW f, NEW e, NEW g, Sums(g, f, U), NEW h, Sums(h, e, V)
    PROVE  \A s \in (SUBSET U) \cap SUBSET V : (\A x \in s : f[x] = e[x]) => g[s] = h[s]
<1> DEFINE Both == (SUBSET U) \cap SUBSET V
           T == {n \in Nat : \A s \in Both :
                    (Cardinality(s) <= n /\ \A x \in s : f[x] = e[x]) => g[s] = h[s]}
<1>1. ASSUME NEW s \in Both, s # {}
      PROVE  /\ g[s] = f[Picked(s)] + g[s \ {Picked(s)}]
             /\ h[s] = e[Picked(s)] + h[s \ {Picked(s)}]
  BY <1>1 DEF Sums
<1>2. \A s \in Both : s = {} => g[s] = 0 /\ h[s] = 0
  BY DEF Sums
<1>3. ASSUME NEW s \in Both, s # {}
      PROVE  /\ Picked(s) \in s /\ s \ {Picked(s)} \in Both
             /\ Cardinality(s) \in Nat \ {0}
             /\ Cardinality(s \ {Picked(s)}) = Cardinality(s) - 1
  <2>1. Picked(s) \in s
    BY <1>3 DEF Picked
  <2> QED
    BY <1>3, <2>1, PickedIs
<1> HIDE DEF Both
<1>4. 0 \in T
  <2> SUFFICES ASSUME NEW s \in Both, Cardinality(s) <= 0 PROVE g[s] = h[s]
    OBVIOUS
  <2>1. s # {} => Cardinality(s) \in Nat \ {0}
    BY <1>3
  <2>2. s = {}
    BY <2>1
  <2> QED
    BY <1>2, <2>2
<1>5. ASSUME NEW n \in Nat, n \in T PROVE n + 1 \in T
  <2> SUFFICES ASSUME NEW s \in Both, Cardinality(s) <= n + 1, \A x \in s : f[x] = e[x]
               PROVE  g[s] = h[s]
    OBVIOUS
  <2>1. CASE s = {}
    BY <1>2, <2>1
  <2>2. CASE s # {}
    <3> DEFINE p == Picked(s)
               less == s \ {p}
    <3>1. p \in s /\ less \in Both /\ Cardinality(less) <= n
      BY <1>3, <2>2
    <3>2. f[p] = e[p] /\ \A x \in less : f[x] = e[x]
      BY <3>1
    <3>3. g[less] = h[less]
      BY <1>5, <3>1, <3>2
    <3> QED
      BY <1>1, <2>2, <3>2, <3>3
  <2> QED
    BY <2>1, <2>2
<1> HIDE DEF T
<1>6. \A n \in Nat : n \in T
  BY <1>4, <1>5, NatsAreReached
<1> SUFFICES ASSUME NEW s \in Both, \A x \in s : f[x] = e[x] PROVE g[s] = h[s]
  BY DEF Both
<1>7. CASE s = {}
  BY <1>2, <1>7
<1>8. CASE s # {}
  <2>1. Cardinality(s) \in Nat
    BY <1>3, <1>8
  <2> DEFINE n == Cardinality(s)
  <2>2. n \in T /\ n \in Nat
    BY <1>6, <2>1
  <2> QED
    BY <2>2 DEF T
<1> QED
  BY <1>7, <1>8

\* A sum an element at a time.
LEMMA SumIs ==
    ASSUME NEW S, IsFiniteSet(S), NEW f, \A x \in S : f[x] \in Nat
    PROVE  /\ SumOver(f, S) \in Nat
           /\ S = {} => SumOver(f, S) = 0
           /\ S # {} => SumOver(f, S) = f[Picked(S)] + SumOver(f, S \ {Picked(S)})
<1> DEFINE G(U) == CHOOSE g : Sums(g, f, U)
<1>1. PICK k \in [SUBSET S -> Nat] : Sums(k, f, S)
  BY OneSums
<1>2. Sums(G(S), f, S)
  BY <1>1
<1>3. SumOver(f, S) = G(S)[S]
  BY DEF SumOver
<1>4. S \in SUBSET S
  OBVIOUS
<1>5. G(S)[S] = k[S]
  <2> HIDE DEF G
  <2>1. \A s \in (SUBSET S) \cap SUBSET S : (\A x \in s : f[x] = f[x]) => G(S)[s] = k[s]
    BY <1>1, <1>2, SumsAgree
  <2> QED
    BY <2>1
<1>6. S = {} => k[S] = 0
  BY <1>1, <1>4 DEF Sums
<1>7. ASSUME S # {} PROVE SumOver(f, S) = f[Picked(S)] + SumOver(f, S \ {Picked(S)})
  <2> DEFINE less == S \ {Picked(S)}
  <2>1. less \in SUBSET S /\ IsFiniteSet(less)
    BY PickedIs, FS_Subset, <1>7
  <2>2. PICK j \in [SUBSET less -> Nat] : Sums(j, f, less)
    <3>1. \A x \in less : f[x] \in Nat
      OBVIOUS
    <3> HIDE DEF less
    <3> QED
      BY <2>1, <3>1, OneSums
  <2>3. Sums(G(less), f, less) /\ SumOver(f, less) = G(less)[less]
    <3>1. SumOver(f, less) = G(less)[less]
      BY DEF SumOver
    <3> QED
      BY <2>2, <3>1
  <2>4. G(less)[less] = k[less]
    <3> HIDE DEF G, less
    <3>1. \A s \in (SUBSET less) \cap SUBSET S :
             (\A x \in s : f[x] = f[x]) => G(less)[s] = k[s]
      BY <1>1, <2>1, <2>3, SumsAgree
    <3> QED
      BY <2>1, <3>1
  <2>5. k[S] = f[Picked(S)] + k[less]
    BY <1>1, <1>4, <1>7 DEF Sums
  <2> QED
    BY <1>3, <1>5, <2>3, <2>4, <2>5
<1> QED
  BY <1>1, <1>3, <1>4, <1>5, <1>6, <1>7

\* Functions that are the same on a set have the same sum over it.
LEMMA SumOfTheSame ==
    ASSUME NEW S, IsFiniteSet(S), NEW f, NEW e,
           \A x \in S : f[x] \in Nat /\ f[x] = e[x]
    PROVE  SumOver(f, S) = SumOver(e, S)
<1> DEFINE G == CHOOSE g : Sums(g, f, S)
           H == CHOOSE g : Sums(g, e, S)
<1>1. \E k \in [SUBSET S -> Nat] : Sums(k, f, S)
  BY OneSums
<1>2. \E k \in [SUBSET S -> Nat] : Sums(k, e, S)
  <2>1. \A x \in S : e[x] \in Nat
    OBVIOUS
  <2> QED
    BY <2>1, OneSums
<1>3. Sums(G, f, S) /\ Sums(H, e, S)
  BY <1>1, <1>2
<1>4. SumOver(f, S) = G[S] /\ SumOver(e, S) = H[S]
  BY DEF SumOver
<1> HIDE DEF G, H
<1>5. \A s \in (SUBSET S) \cap SUBSET S : (\A x \in s : f[x] = e[x]) => G[s] = H[s]
  BY SMTT(30), <1>3, SumsAgree
<1> QED
  BY <1>4, <1>5

\* Any element can be taken first, ...
LEMMA SumSplits ==
    ASSUME NEW U, IsFiniteSet(U), NEW f, \A x \in U : f[x] \in Nat
    PROVE  \A S \in SUBSET U : \A x \in S :
              /\ SumOver(f, S) \in Nat /\ SumOver(f, S \ {x}) \in Nat
              /\ SumOver(f, S) = f[x] + SumOver(f, S \ {x})
<1> DEFINE T == {n \in Nat : \A S \in SUBSET U : \A x \in S :
                    Cardinality(S) <= n => SumOver(f, S) = f[x] + SumOver(f, S \ {x})}
<1>1. \A S \in SUBSET U : /\ SumOver(f, S) \in Nat
                          /\ S # {} => SumOver(f, S) = f[Picked(S)] + SumOver(f, S \ {Picked(S)})
  <2> TAKE S \in SUBSET U
  <2>1. IsFiniteSet(S) /\ \A x \in S : f[x] \in Nat
    BY FS_Subset
  <2> QED
    BY <2>1, SumIs
<1>2. 0 \in T
  <2> SUFFICES ASSUME NEW S \in SUBSET U, NEW x \in S, Cardinality(S) <= 0 PROVE FALSE
    OBVIOUS
  <2>1. Cardinality(S) \in Nat \ {0}
    BY PickedIs
  <2> QED
    BY <2>1
<1>3. ASSUME NEW n \in Nat, n \in T PROVE n + 1 \in T
  <2> SUFFICES ASSUME NEW S \in SUBSET U, NEW x \in S, Cardinality(S) <= n + 1
               PROVE  SumOver(f, S) = f[x] + SumOver(f, S \ {x})
    OBVIOUS
  <2> DEFINE p == Picked(S)
  <2>1. p \in S /\ Cardinality(S) \in Nat
          /\ \A y \in S : Cardinality(S \ {y}) = Cardinality(S) - 1
    BY PickedIs
  <2>2. SumOver(f, S) = f[p] + SumOver(f, S \ {p})
    BY <1>1
  <2> HIDE DEF p
  <2>3. CASE x = p
    BY <2>2, <2>3
  <2>4. CASE x # p
    <3>1. /\ S \ {p} \in SUBSET U /\ x \in S \ {p} /\ Cardinality(S \ {p}) <= n
          /\ S \ {x} \in SUBSET U /\ p \in S \ {x} /\ Cardinality(S \ {x}) <= n
      BY <2>1, <2>4
    <3>2. /\ SumOver(f, S \ {p}) = f[x] + SumOver(f, (S \ {p}) \ {x})
          /\ SumOver(f, S \ {x}) = f[p] + SumOver(f, (S \ {x}) \ {p})
      BY <1>3, <3>1
    <3>3. (S \ {p}) \ {x} = (S \ {x}) \ {p} /\ (S \ {p}) \ {x} \in SUBSET U
      OBVIOUS
    <3>4. SumOver(f, (S \ {p}) \ {x}) \in Nat /\ f[x] \in Nat /\ f[p] \in Nat
      BY <1>1, <2>1, <3>3
    <3> DEFINE rest == SumOver(f, (S \ {p}) \ {x})
    <3>5. /\ SumOver(f, S \ {p}) = f[x] + rest /\ SumOver(f, S \ {x}) = f[p] + rest
          /\ rest \in Nat
      BY <3>2, <3>3, <3>4
    <3> HIDE DEF rest
    <3>6. SumOver(f, S) = f[p] + (f[x] + rest)
            /\ f[x] + SumOver(f, S \ {x}) = f[x] + (f[p] + rest)
      BY <2>2, <3>5
    <3> QED
      BY <3>4, <3>5, <3>6
  <2> QED
    BY <2>3, <2>4
<1> HIDE DEF T
<1>4. \A n \in Nat : n \in T
  BY <1>2, <1>3, NatsAreReached
<1> SUFFICES ASSUME NEW S \in SUBSET U, NEW x \in S
             PROVE  /\ SumOver(f, S) \in Nat /\ SumOver(f, S \ {x}) \in Nat
                    /\ SumOver(f, S) = f[x] + SumOver(f, S \ {x})
  OBVIOUS
<1>5. Cardinality(S) \in Nat
  BY PickedIs
<1>6. SumOver(f, S) = f[x] + SumOver(f, S \ {x})
  BY <1>4, <1>5 DEF T
<1> QED
  BY <1>1, <1>6

\* ... and a part comes to no more than the whole.
LEMMA SumGrows ==
    ASSUME NEW U, IsFiniteSet(U), NEW f, \A x \in U : f[x] \in Nat, NEW A \in SUBSET U
    PROVE  SumOver(f, A) \in Nat /\ SumOver(f, U) \in Nat /\ SumOver(f, A) <= SumOver(f, U)
<1> DEFINE T == {n \in Nat : \A B \in SUBSET U :
                    (Cardinality(B) <= n /\ A \subseteq B) => SumOver(f, A) <= SumOver(f, B)}
<1>1. \A B \in SUBSET U : /\ SumOver(f, B) \in Nat
                          /\ IsFiniteSet(B) /\ Cardinality(B) \in Nat
  <2> TAKE B \in SUBSET U
  <2>1. IsFiniteSet(B) /\ \A x \in B : f[x] \in Nat
    BY FS_Subset
  <2> QED
    BY <2>1, SumIs, FS_CardinalityType
<1>2. ASSUME NEW n \in Nat, NEW B \in SUBSET U, Cardinality(B) <= n, A \subseteq B, A # B,
             \A C \in SUBSET U : (Cardinality(C) < Cardinality(B) /\ A \subseteq C)
                                    => SumOver(f, A) <= SumOver(f, C)
      PROVE  SumOver(f, A) <= SumOver(f, B)
  <2>1. PICK x \in B : x \notin A
    BY <1>2
  <2>2. B \ {x} \in SUBSET U /\ A \subseteq B \ {x} /\ f[x] \in Nat
    BY <1>2, <2>1
  <2>3. Cardinality(B \ {x}) < Cardinality(B)
    <3>1. Cardinality(B \ {x}) = Cardinality(B) - 1
      BY PickedIs
    <3> QED
      BY <1>1, <3>1
  <2>4. SumOver(f, B) = f[x] + SumOver(f, B \ {x})
    BY SumSplits
  <2>5. SumOver(f, A) <= SumOver(f, B \ {x})
    BY <1>2, <2>2, <2>3
  <2> QED
    BY <1>1, <2>2, <2>4, <2>5
<1>3. 0 \in T
  <2> SUFFICES ASSUME NEW B \in SUBSET U, Cardinality(B) <= 0, A \subseteq B
               PROVE  SumOver(f, A) <= SumOver(f, B)
    OBVIOUS
  <2>1. A = B \/ \A C \in SUBSET U : ~ (Cardinality(C) < Cardinality(B))
    BY <1>1
  <2> QED
    BY <1>1, <1>2, <2>1
<1>4. ASSUME NEW n \in Nat, n \in T PROVE n + 1 \in T
  <2> SUFFICES ASSUME NEW B \in SUBSET U, Cardinality(B) <= n + 1, A \subseteq B
               PROVE  SumOver(f, A) <= SumOver(f, B)
    OBVIOUS
  <2>1. \A C \in SUBSET U : (Cardinality(C) < Cardinality(B) /\ A \subseteq C)
                               => SumOver(f, A) <= SumOver(f, C)
    <3> SUFFICES ASSUME NEW C \in SUBSET U, Cardinality(C) < Cardinality(B), A \subseteq C
                 PROVE  SumOver(f, A) <= SumOver(f, C)
      OBVIOUS
    <3>1. Cardinality(C) <= n
      BY <1>1
    <3> QED
      BY <1>4, <3>1
  <2> HIDE DEF T
  <2> QED
    BY <1>1, <1>2, <2>1
<1> HIDE DEF T
<1>5. \A n \in Nat : n \in T
  BY <1>3, <1>4, NatsAreReached
<1>6. U \in SUBSET U /\ A \subseteq U
  OBVIOUS
<1>7. SumOver(f, A) <= SumOver(f, U)
  BY <1>1, <1>5, <1>6 DEF T
<1> QED
  BY <1>1, <1>6, <1>7

-----------------------------------------------------------------------------
(* Parameters: the lemmas of ClaudeParameters' ParametersInv.  x1 is what  *)
(* was sent, x2 the body and x3 the stage.                                 *)

\* Budgets and limits around the least budget, which is also the default.
Parameters == INSTANCE ClaudeParameters WITH
    Budgets <- SuffixBudgets, Limits <- TokenLimits, Least <- LeastBudget,
    Default <- DefaultTokens,
    given <- x1, body <- x2, stage <- x3

ASSUME SuffixesFit == Parameters!ParametersAssumption

\* normalizeClaudeBody in four steps: the first, ...
LEMMA AdaptedIs ==
    ASSUME NEW b \in Parameters!Bodies
    PROVE  /\ Parameters!Adapted(b) \in Parameters!Bodies
                /\ Parameters!Adapted(b).thinking # "enabled"
           /\ Parameters!Adapted(b).forced = b.forced /\ Parameters!Adapted(b).max = b.max
<1>1. CASE b.thinking = "enabled"
  <2>1. Parameters!Adapted(b) = Parameters!Thinks(b, "adaptive", TRUE)
    BY <1>1 DEF Parameters!Adapted
  <2> QED
    BY <2>1 DEF Parameters!Thinks, Parameters!Bodies
<1>2. CASE b.thinking # "enabled"
  BY <1>2 DEF Parameters!Adapted
<1> QED
  BY <1>1, <1>2

\* ... the second, ...
LEMMA UnforcedIs ==
    ASSUME NEW b \in Parameters!Bodies, b.thinking # "enabled"
    PROVE  /\ Parameters!Unforced(b) \in Parameters!Bodies
                /\ Parameters!Unforced(b).thinking # "enabled"
           /\ Parameters!Unforced(b).forced = b.forced /\ Parameters!Unforced(b).max = b.max
           /\ b.forced
                => Parameters!Unforced(b).thinking = "absent" /\ ~ Parameters!Unforced(b).effort
<1>1. CASE b.forced
  <2>1. Parameters!Unforced(b) = Parameters!Thinks(b, "absent", FALSE)
    BY <1>1 DEF Parameters!Unforced
  <2> QED
    BY <2>1 DEF Parameters!Thinks, Parameters!Bodies
<1>2. CASE ~ b.forced
  BY <1>2 DEF Parameters!Unforced
<1> QED
  BY <1>1, <1>2

\* ... the third, ...
LEMMA SampledIs ==
    ASSUME NEW b \in Parameters!Bodies, b.thinking # "enabled",
           b.forced => b.thinking = "absent" /\ ~ b.effort
    PROVE  /\ Parameters!Sampled(b) \in Parameters!Bodies
                /\ Parameters!Sampled(b).thinking # "enabled"
           /\ Parameters!Sampled(b).forced = b.forced /\ Parameters!Sampled(b).max = b.max
           /\ Parameters!Unasked(Parameters!Sampled(b))
<1> DEFINE k == b.topK /\ b.thinking = "absent"
           p == b.topP /\ ~ b.temperature
<1>0. k \in BOOLEAN /\ p \in BOOLEAN
  OBVIOUS
<1>1. CASE ~ b.native
  <2>1. Parameters!Sampled(b) = [b EXCEPT !.temperature = FALSE, !.topP = FALSE, !.topK = k]
    BY <1>1 DEF Parameters!Sampled
  <2>2. b.thinking = "adaptive" => ~ k
    OBVIOUS
  <2> HIDE DEF k
  <2>3. /\ Parameters!Sampled(b) \in Parameters!Bodies
             /\ Parameters!Sampled(b).thinking = b.thinking
        /\ Parameters!Sampled(b).effort = b.effort /\ Parameters!Sampled(b).topK = k
        /\ Parameters!Sampled(b).temperature = FALSE
        /\ Parameters!Sampled(b).forced = b.forced /\ Parameters!Sampled(b).max = b.max
    BY <1>0, <2>1 DEF Parameters!Bodies
  <2> QED
    BY <2>2, <2>3, Zenon DEF Parameters!Unasked
<1>2. CASE b.native /\ b.thinking = "adaptive"
  <2>1. Parameters!Sampled(b) = [b EXCEPT !.temperature = FALSE, !.topP = FALSE, !.topK = FALSE]
    BY <1>2 DEF Parameters!Sampled
  <2>2. /\ Parameters!Sampled(b) \in Parameters!Bodies
             /\ Parameters!Sampled(b).thinking = b.thinking
        /\ Parameters!Sampled(b).effort = b.effort /\ Parameters!Sampled(b).topK = FALSE
        /\ Parameters!Sampled(b).temperature = FALSE
        /\ Parameters!Sampled(b).forced = b.forced /\ Parameters!Sampled(b).max = b.max
    BY <2>1 DEF Parameters!Bodies
  <2> QED
    BY <2>2, Zenon DEF Parameters!Unasked
<1>3. CASE b.native /\ b.thinking # "adaptive"
  <2>1. Parameters!Sampled(b) = [b EXCEPT !.topP = p]
    BY <1>3 DEF Parameters!Sampled
  <2> HIDE DEF p
  <2>2. /\ Parameters!Sampled(b) \in Parameters!Bodies
             /\ Parameters!Sampled(b).thinking = b.thinking
        /\ Parameters!Sampled(b).effort = b.effort
        /\ Parameters!Sampled(b).forced = b.forced /\ Parameters!Sampled(b).max = b.max
    BY <1>0, <2>1 DEF Parameters!Bodies
  <2> QED
    BY <1>3, <2>2, Zenon DEF Parameters!Unasked
<1> QED
  BY <1>1, <1>2, <1>3

\* ... and the last.
LEMMA LimitedIs ==
    ASSUME Parameters!ParametersAssumption, NEW b \in Parameters!Bodies
    PROVE  /\ Parameters!Limited(b) \in Parameters!Bodies
                /\ Parameters!Limited(b).thinking = b.thinking
           /\ Parameters!Limited(b).forced = b.forced
           /\ Parameters!Limited(b).max =
                IF b.max = Parameters!Absent THEN DefaultTokens ELSE b.max
           /\ Parameters!Unasked(b) => Parameters!Unasked(Parameters!Limited(b))
<1>1. CASE b.max = Parameters!Absent
  <2>1. Parameters!Limited(b) = [b EXCEPT !.max = DefaultTokens]
    BY <1>1 DEF Parameters!Limited
  <2>2. DefaultTokens \in Int
    BY DEF Parameters!ParametersAssumption
  <2>3. /\ Parameters!Limited(b) \in Parameters!Bodies
             /\ Parameters!Limited(b).thinking = b.thinking
        /\ Parameters!Limited(b).forced = b.forced /\ Parameters!Limited(b).effort = b.effort
        /\ Parameters!Limited(b).topK = b.topK
             /\ Parameters!Limited(b).temperature = b.temperature
        /\ Parameters!Limited(b).max = DefaultTokens
    BY <2>1, <2>2 DEF Parameters!Bodies
  <2> QED
    BY <1>1, <2>3, Zenon DEF Parameters!Unasked
<1>2. CASE b.max # Parameters!Absent
  BY <1>2 DEF Parameters!Limited
<1> QED
  BY <1>1, <1>2

\* What is sent at first is a body.
LEMMA RequestsAreBodies ==
    ASSUME Parameters!ParametersAssumption, NEW r \in Parameters!Requests
    PROVE  r \in Parameters!Bodies /\ r.max \in TokenLimits \cup {Parameters!Absent}
<1>1. Parameters!Absent \in Int /\ TokenLimits \subseteq Int
  BY DEF Parameters!Absent, Parameters!ParametersAssumption
<1> QED
  BY <1>1 DEF Parameters!Requests, Parameters!Bodies

\* What a client sends.
LEMMA ParametersBegin ==
    ASSUME Parameters!ParametersAssumption, Parameters!Init
    PROVE  Parameters!ParametersInv
BY RequestsAreBodies DEF Parameters!Init, Parameters!ParametersInv, Parameters!TypeOK

\* normalizeClaudeBody.
LEMMA Normalised ==
    ASSUME Parameters!ParametersAssumption, Parameters!ParametersInv, Parameters!Normalise
    PROVE  Parameters!ParametersInv'
<1>1. /\ x2 \in Parameters!Bodies /\ x1 \in Parameters!Requests /\ x2 = x1 /\ x1' = x1
      /\ x3' = "normalised"
      /\ x2' = Parameters!Limited(Parameters!Sampled(Parameters!Unforced(
                   Parameters!Adapted(x2))))
  BY DEF Parameters!ParametersInv, Parameters!TypeOK, Parameters!Normalise
<1> DEFINE a == Parameters!Adapted(x2)
           u == Parameters!Unforced(a)
           s == Parameters!Sampled(u)
<1>2. a \in Parameters!Bodies /\ a.thinking # "enabled" /\ a.forced = x2.forced /\ a.max = x2.max
  BY <1>1, AdaptedIs
<1> HIDE DEF a
<1>3. /\ u \in Parameters!Bodies /\ u.thinking # "enabled" /\ u.forced = x2.forced
           /\ u.max = x2.max
      /\ u.forced => u.thinking = "absent" /\ ~ u.effort
  BY <1>2, UnforcedIs
<1> HIDE DEF u
<1>4. /\ s \in Parameters!Bodies /\ s.thinking # "enabled" /\ s.forced = x2.forced
           /\ s.max = x2.max
      /\ Parameters!Unasked(s)
  BY <1>3, SampledIs
<1> HIDE DEF s
<1>5. x2' = Parameters!Limited(s)
  BY <1>1 DEF s, u, a
<1>6. /\ x2' \in Parameters!Bodies /\ x2'.thinking # "enabled" /\ x2'.forced = x1'.forced
      /\ x2'.max = (IF x1'.max = Parameters!Absent THEN DefaultTokens ELSE x1'.max)
      /\ Parameters!Unasked(x2')
  BY <1>1, <1>4, <1>5, LimitedIs
<1>7. Parameters!Unasked(x2)'
  BY <1>6 DEF Parameters!Unasked
<1> QED
  BY <1>1, <1>6, <1>7 DEF Parameters!ParametersInv, Parameters!TypeOK

\* A suffix that asks for a budget.
LEMMA BudgetFits ==
    ASSUME Parameters!ParametersAssumption, NEW b \in Parameters!Bodies, NEW n \in Nat,
           x1 \in Parameters!Requests,
           b.budget = n, b.max = IF x1.max = Parameters!Absent THEN DefaultTokens ELSE x1.max
    PROVE  /\ Parameters!BudgetWithin(b, n) \in Parameters!Bodies
                /\ Parameters!BudgetWithin(b, n).forced = b.forced
           /\ Parameters!BudgetWithin(b, n).budget < Parameters!BudgetWithin(b,
              n).max \/ x1.max \in 0 .. LeastBudget
<1>0. x1.max \in TokenLimits \cup {Parameters!Absent} /\ TokenLimits \subseteq Nat
        /\ LeastBudget \in Nat /\ LeastBudget > 0
  BY DEF Parameters!Requests, Parameters!ParametersAssumption
<1>1. CASE x1.max = Parameters!Absent
  <2>1. Parameters!BudgetWithin(b, n) = [b EXCEPT !.max = n + 1]
    BY <1>1 DEF Parameters!BudgetWithin
  <2>2. n + 1 \in Int
    OBVIOUS
  <2>3. /\ Parameters!BudgetWithin(b, n) \in Parameters!Bodies
             /\ Parameters!BudgetWithin(b, n).forced = b.forced
        /\ Parameters!BudgetWithin(b, n).budget = n /\ Parameters!BudgetWithin(b, n).max = n + 1
    BY <2>1, <2>2 DEF Parameters!Bodies
  <2> QED
    BY <2>3
<1>2. CASE x1.max # Parameters!Absent
  <2>1. b.max \in Nat /\ b.max = x1.max
    BY <1>0, <1>2
  <2>2. CASE b.max > 1 /\ n >= b.max /\ b.max - 1 >= LeastBudget
    <3>1. Parameters!BudgetWithin(b, n) = [b EXCEPT !.budget = b.max - 1]
      BY <1>2, <2>2 DEF Parameters!BudgetWithin
    <3>2. b.max - 1 \in Int
      BY <2>1
    <3>3. /\ Parameters!BudgetWithin(b, n) \in Parameters!Bodies
               /\ Parameters!BudgetWithin(b, n).forced = b.forced
          /\ Parameters!BudgetWithin(b, n).budget = b.max - 1
               /\ Parameters!BudgetWithin(b, n).max = b.max
      BY <3>1, <3>2 DEF Parameters!Bodies
    <3> QED
      BY <2>1, <3>3
  <2>3. CASE ~ (b.max > 1 /\ n >= b.max /\ b.max - 1 >= LeastBudget)
    <3>1. Parameters!BudgetWithin(b, n) = b
      BY <1>2, <2>3 DEF Parameters!BudgetWithin
    <3>2. n < b.max \/ b.max \in 0 .. LeastBudget
      BY <1>0, <2>1, <2>3
    <3> QED
      BY <2>1, <3>1, <3>2
  <2> QED
    BY <2>2, <2>3
<1> QED
  BY <1>1, <1>2

\* What a suffix consists of.
LEMMA SuffixIs ==
    ASSUME Parameters!ParametersAssumption, NEW s \in Parameters!Suffixes
    PROVE  /\ s = <<s[1], s[2]>> /\ s[2] \in Nat
           /\ s[1] \in {"", "none", "auto", "level", "budget"}
<1>1. CASE s \in {<<"", 0>>, <<"none", 0>>, <<"auto", 0>>, <<"level", 0>>}
  <2>1. PICK k \in {"", "none", "auto", "level"} : s = <<k, 0>>
    BY <1>1
  <2>2. s[1] = k /\ s[2] = 0
    BY <2>1
  <2> QED
    BY <2>1, <2>2
<1>2. CASE s \in {<<"budget", n>> : n \in SuffixBudgets}
  <2>1. PICK n \in SuffixBudgets : s = <<"budget", n>>
    BY <1>2
  <2>2. n \in Nat
    BY DEF Parameters!ParametersAssumption
  <2>3. s[1] = "budget" /\ s[2] = n
    BY <2>1
  <2> QED
    BY <2>1, <2>2, <2>3
<1> QED
  BY <1>1, <1>2 DEF Parameters!Suffixes

\* What each suffix does to a body.
LEMMA SuffixedIs ==
    ASSUME NEW b, NEW k \in {"", "none", "auto", "level", "budget"}, NEW n \in Nat
    PROVE  Parameters!Suffixed(b, <<k, n>>) =
             IF k = "" THEN b
             ELSE IF k = "none" \/ (k = "budget" /\ n = 0)
               THEN Parameters!Thinks(b, "disabled", FALSE)
             ELSE IF k = "auto" THEN Parameters!Thinks(b, "adaptive", FALSE)
             ELSE IF k = "level" THEN Parameters!Thinks(b, "adaptive", TRUE)
             ELSE Parameters!BudgetWithin([Parameters!Thinks(b, "enabled",
                 FALSE) EXCEPT !.budget = n], n)
<1> DEFINE s == <<k, n>>
<1>1. s[1] = k /\ s[2] = n /\ (s = <<"budget", 0>> <=> k = "budget" /\ n = 0)
  OBVIOUS
<1> HIDE DEF s
<1>2. CASE k = ""
  <2>1. Parameters!Suffixed(b, s) = b
    BY <1>1, <1>2 DEF Parameters!Suffixed
  <2> QED
    BY <1>2, <2>1 DEF s
<1>3. CASE k = "none" \/ (k = "budget" /\ n = 0)
  <2>1. Parameters!Suffixed(b, s) = Parameters!Thinks(b, "disabled", FALSE)
    BY <1>1, <1>3 DEF Parameters!Suffixed
  <2> QED
    BY <1>3, <2>1 DEF s
<1>4. CASE k = "auto"
  <2>1. Parameters!Suffixed(b, s) = Parameters!Thinks(b, "adaptive", FALSE)
    BY <1>1, <1>4 DEF Parameters!Suffixed
  <2> QED
    BY <1>4, <2>1 DEF s
<1>5. CASE k = "level"
  <2>1. Parameters!Suffixed(b, s) = Parameters!Thinks(b, "adaptive", TRUE)
    BY <1>1, <1>5 DEF Parameters!Suffixed
  <2> QED
    BY <1>5, <2>1 DEF s
<1>6. CASE k = "budget" /\ n # 0
  <2>1. Parameters!Suffixed(b, s) = Parameters!BudgetWithin([Parameters!Thinks(b, "enabled",
            FALSE) EXCEPT !.budget = n], n)
    BY <1>1, <1>6 DEF Parameters!Suffixed
  <2> QED
    BY <1>6, <2>1 DEF s
<1> QED
  BY <1>2, <1>3, <1>4, <1>5, <1>6

\* applyClaudeModelSuffix.
LEMMA SuffixKeeps ==
    ASSUME Parameters!ParametersAssumption, Parameters!ParametersInv, Parameters!Suffix
    PROVE  Parameters!ParametersInv'
<1>1. /\ x2 \in Parameters!Bodies /\ x1 \in Parameters!Requests /\ x1' = x1
      /\ x3' = "suffixed" /\ x2' = Parameters!Suffixed(x2, x1.suffix)
      /\ Parameters!Unasked(x2) /\ x2.thinking # "enabled" /\ x2.forced = x1.forced
      /\ x2.max = (IF x1.max = Parameters!Absent THEN DefaultTokens ELSE x1.max)
  BY DEF Parameters!ParametersInv, Parameters!TypeOK, Parameters!Suffix
<1>2. x1.suffix \in Parameters!Suffixes
  BY <1>1 DEF Parameters!Requests
<1> DEFINE k == x1.suffix[1]
           n == x1.suffix[2]
           budget == [Parameters!Thinks(x2, "enabled", FALSE) EXCEPT !.budget = n]
<1>3. x1.suffix = <<k, n>> /\ n \in Nat /\ k \in {"", "none", "auto", "level", "budget"}
  BY <1>2, SuffixIs
<1>3a. n \in Int /\ n \in Nat
  <2>1. x1.suffix[2] \in Nat
    BY <1>2, SuffixIs
  <2> QED
    BY <2>1 DEF n
<1> HIDE DEF k, n
<1>4. x2' = IF k = "" THEN x2
              ELSE IF k = "none" \/ (k = "budget" /\ n = 0)
                THEN Parameters!Thinks(x2, "disabled", FALSE)
              ELSE IF k = "auto" THEN Parameters!Thinks(x2, "adaptive", FALSE)
              ELSE IF k = "level" THEN Parameters!Thinks(x2, "adaptive", TRUE)
              ELSE Parameters!BudgetWithin(budget, n)
  <2>1. x2' = Parameters!Suffixed(x2, <<k, n>>)
    BY <1>1, <1>3
  <2>2. Parameters!Suffixed(x2, <<k, n>>) =
             IF k = "" THEN x2
             ELSE IF k = "none" \/ (k = "budget" /\ n = 0)
               THEN Parameters!Thinks(x2, "disabled", FALSE)
             ELSE IF k = "auto" THEN Parameters!Thinks(x2, "adaptive", FALSE)
             ELSE IF k = "level" THEN Parameters!Thinks(x2, "adaptive", TRUE)
             ELSE Parameters!BudgetWithin([Parameters!Thinks(x2, "enabled",
                 FALSE) EXCEPT !.budget = n], n)
    BY <1>3, SuffixedIs
  <2> QED
    BY <2>1, <2>2
<1>5. /\ x2' \in Parameters!Bodies /\ x2'.forced = x2.forced
      /\ x2'.thinking = "enabled" => x2'.budget < x2'.max \/ x1.max \in 0 .. LeastBudget
      /\ k = "" => x2' = x2
  <2>1. CASE k = ""
    <3>1. x2' = x2
      BY <1>4, <2>1
    <3> QED
      BY <1>1, <3>1
  <2>2. CASE k = "none" \/ (k = "budget" /\ n = 0)
    <3>1. x2' = Parameters!Thinks(x2, "disabled", FALSE) /\ k # ""
      BY <1>4, <2>2
    <3> QED
      BY <1>1, <3>1 DEF Parameters!Thinks, Parameters!Bodies
  <2>3. CASE k = "auto"
    <3>1. x2' = Parameters!Thinks(x2, "adaptive", FALSE) /\ k # ""
      BY <1>4, <2>3
    <3> QED
      BY <1>1, <3>1 DEF Parameters!Thinks, Parameters!Bodies
  <2>4. CASE k = "level"
    <3>1. x2' = Parameters!Thinks(x2, "adaptive", TRUE) /\ k # ""
      BY <1>4, <2>4
    <3> QED
      BY <1>1, <3>1 DEF Parameters!Thinks, Parameters!Bodies
  <2>5. CASE k = "budget" /\ n # 0
    <3> HIDE DEF budget
    <3>1. x2' = Parameters!BudgetWithin(budget, n) /\ k # ""
      BY <1>4, <2>5
    <3>2. /\ budget \in Parameters!Bodies /\ budget.budget = n /\ budget.max = x2.max
          /\ budget.forced = x2.forced
      <4> DEFINE b == Parameters!Thinks(x2, "enabled", FALSE)
      <4>1. b \in Parameters!Bodies /\ b.max = x2.max /\ b.forced = x2.forced
        BY <1>1 DEF Parameters!Thinks, Parameters!Bodies
      <4>2. n \in Int
        BY <1>3a
      <4>3. budget = [b EXCEPT !.budget = n]
        BY DEF budget
      <4> HIDE DEF b
      <4> QED
        BY <4>1, <4>2, <4>3 DEF Parameters!Bodies
    <3>3. /\ x2' \in Parameters!Bodies /\ x2'.forced = budget.forced
          /\ x2'.budget < x2'.max \/ x1.max \in 0 .. LeastBudget
      BY ZenonT(40), <1>1, <1>3, <3>1, <3>2, BudgetFits
    <3> QED
      BY <3>1, <3>2, <3>3
  <2> QED
    BY <1>3, <2>1, <2>2, <2>3, <2>4, <2>5
<1>6. k = "" => Parameters!Unasked(x2)'
  BY <1>1, <1>5 DEF Parameters!Unasked
<1>7. /\ x3' = "suffixed" /\ x2' \in Parameters!Bodies /\ x1' \in Parameters!Requests
      /\ x2'.forced = x1'.forced
      /\ x2'.thinking = "enabled" => x2'.budget < x2'.max \/ x1'.max \in 0 .. LeastBudget
      /\ x1'.suffix[1] = "" => Parameters!Unasked(x2)'
  BY <1>1, <1>5, <1>6 DEF k
<1> QED
  BY <1>7 DEF Parameters!ParametersInv, Parameters!TypeOK

\* What is sent.
LEMMA SendKeeps ==
    ASSUME Parameters!ParametersAssumption, Parameters!ParametersInv, Parameters!Send
    PROVE  Parameters!ParametersInv'
<1>1. /\ x2 \in Parameters!Bodies /\ x1 \in Parameters!Requests /\ x1' = x1 /\ x3' = "sent"
      /\ x2.forced = x1.forced
      /\ x2.thinking = "enabled" => x2.budget < x2.max \/ x1.max \in 0 .. LeastBudget
      /\ x1.suffix[1] = "" => Parameters!Unasked(x2)
  BY DEF Parameters!ParametersInv, Parameters!TypeOK, Parameters!Send
<1>2. CASE x1.count
  <2>1. x2' = [x2 EXCEPT !.thinking = "absent", !.budget = Parameters!Absent, !.effort = FALSE,
                             !.max = Parameters!Absent]
    BY <1>2 DEF Parameters!Send
  <2>2. Parameters!Absent \in Int
    BY DEF Parameters!Absent
  <2>3. /\ x2' \in Parameters!Bodies /\ x2'.forced = x2.forced /\ x2'.thinking = "absent"
        /\ x2'.effort = FALSE
    BY <1>1, <2>1, <2>2 DEF Parameters!Bodies
  <2>4. Parameters!Unasked(x2)'
    BY <2>3 DEF Parameters!Unasked
  <2> QED
    BY <1>1, <2>3, <2>4 DEF Parameters!ParametersInv, Parameters!TypeOK
<1>3. CASE ~ x1.count
  <2>1. x2' = x2
    BY <1>3 DEF Parameters!Send
  <2>2. x1.suffix[1] = "" => Parameters!Unasked(x2)'
    BY <1>1, <2>1 DEF Parameters!Unasked
  <2> QED
    BY <1>1, <2>1, <2>2 DEF Parameters!ParametersInv, Parameters!TypeOK
<1> QED
  BY <1>2, <1>3

\* Every step keeps the invariant.
LEMMA ParametersGoOn ==
    ASSUME Parameters!ParametersAssumption, Parameters!ParametersInv,
           [Parameters!Next]_(Parameters!vars)
    PROVE  Parameters!ParametersInv'
<1>1. CASE UNCHANGED Parameters!vars
  <2>1. Parameters!Unasked(x2)' = Parameters!Unasked(x2)
    BY <1>1 DEF Parameters!vars, Parameters!Unasked
  <2> QED
    BY <1>1, <2>1 DEF Parameters!ParametersInv, Parameters!TypeOK, Parameters!vars
<1> QED
  BY <1>1, Normalised, SuffixKeeps, SendKeeps DEF Parameters!Next

\* What the invariant says.
LEMMA ParametersAre ==
    Parameters!ParametersInv => Parameters!TypeOK /\ Parameters!ThinkingIsAcceptable
BY DEF Parameters!ParametersInv, Parameters!ThinkingIsAcceptable, Parameters!Unasked

-----------------------------------------------------------------------------
(* Spending: the lemmas of Usage's SpendingInv.  x1 is the time, x2 when   *)
(* each attempt started, x3 the cap, x4 its start, x5 what was spent, x6   *)
(* the settlements remembered, x7 the days, x8 the changes of the cap and  *)
(* x9 the deliveries.                                                      *)

\* Three attempts, a window of two, days of two ticks of which one is kept.
Spending == INSTANCE Usage WITH
    Attempts <- SpendingAttempts, Costs <- AttemptCosts, Caps <- SpendingCaps,
    Window <- SettlementWindow, MaxTime <- SpendingTime, MaxCaps <- CapChanges,
    now <- x1, started <- x2, cap <- x3, capStart <- x4, spent <- x5, settlements <- x6,
    days <- x7, caps <- x8, deliveries <- x9

ASSUME SpendingFits == Spending!SpendingAssumption

\* The parameters are numbers.
LEMMA SpendingNumbers ==
    /\ SettlementWindow \in Nat \ {0} /\ DayLength \in Nat \ {0} /\ SpendingTime \in Nat \ {0}
    /\ AttemptCosts \subseteq Nat /\ SpendingCaps \subseteq Nat /\ CapChanges \in Nat
         /\ MaxDeliveries \in Nat
BY SpendingFits DEF SpendingFits, Spending!SpendingAssumption

\* Counting, as the instance does it.
LEMMA SpendingCounts == \A S : Spending!Cardinality(S) = Cardinality(S)
  BY DEF Cardinality, Spending!Cardinality

\* ... and what is finite.
LEMMA SpendingFinite == \A S : Spending!IsFiniteSet(S) <=> IsFiniteSet(S)
  BY DEF IsFiniteSet, Spending!IsFiniteSet

\* What the account spent is compared with a sum.
LEMMA SpentIs ==
    ASSUME NEW f, NEW S
    PROVE  Spending!MapThenSumSet(LAMBDA a : f[a], S) = SumOver(f, S)
BY DEF Spending!MapThenSumSet, Spending!MapThenFoldSet, SumOver, Sums, Picked

\* The greater of two numbers, ...
LEMMA GreaterOfTwo ==
    ASSUME NEW m \in Int, NEW n \in Int
    PROVE  Spending!Max({m, n}) = IF m <= n THEN n ELSE m
<1> DEFINE v == IF m <= n THEN n ELSE m
<1>1. v \in {m, n} /\ v \in Int /\ \A y \in {m, n} : y <= v
  OBVIOUS
<1>2. \A x \in {m, n} : (\A y \in {m, n} : y <= x) => x = v
  <2> TAKE x \in {m, n}
  <2> HAVE \A y \in {m, n} : y <= x
  <2>1. v <= x /\ x <= v /\ x \in Int
    BY <1>1
  <2> QED
    BY <1>1, <2>1
<1> HIDE DEF v
<1>3. Spending!Max({m, n}) = v
  BY <1>1, <1>2 DEF Spending!Max
<1> QED
  BY <1>3 DEF v

\* ... and the lesser.
LEMMA LesserOfTwo ==
    ASSUME NEW m \in Int, NEW n \in Int
    PROVE  Spending!Min({m, n}) = IF m <= n THEN m ELSE n
<1> DEFINE v == IF m <= n THEN m ELSE n
<1>1. v \in {m, n} /\ v \in Int /\ \A y \in {m, n} : v <= y
  OBVIOUS
<1>2. \A x \in {m, n} : (\A y \in {m, n} : x <= y) => x = v
  <2> TAKE x \in {m, n}
  <2> HAVE \A y \in {m, n} : x <= y
  <2>1. v <= x /\ x <= v /\ x \in Int
    BY <1>1
  <2> QED
    BY <1>1, <2>1
<1> HIDE DEF v
<1>3. Spending!Min({m, n}) = v
  BY <1>1, <1>2 DEF Spending!Min
<1> QED
  BY <1>3 DEF v

\* pruneSettlements keeps a part, of the size of the window at most.
LEMMA KeptIsAPart ==
    ASSUME NEW table, IsFiniteSet(DOMAIN table), NEW kept \in Spending!Kept(table)
    PROVE  /\ kept \subseteq DOMAIN table /\ IsFiniteSet(kept)
           /\ Spending!Cardinality(kept) \in Nat /\ Spending!Cardinality(kept) <= SettlementWindow
<1>1. kept \in SUBSET DOMAIN table
        /\ Spending!Cardinality(kept) = Spending!Min({SettlementWindow,
           Spending!Cardinality(DOMAIN table)})
  BY DEF Spending!Kept
<1>2. Spending!Cardinality(DOMAIN table) \in Nat /\ IsFiniteSet(kept)
        /\ Spending!Cardinality(kept) \in Nat
  BY <1>1, FS_Subset, FS_CardinalityType, SpendingCounts
<1>3. Spending!Min({SettlementWindow, Spending!Cardinality(DOMAIN table)}) <= SettlementWindow
  <2> DEFINE n == Spending!Cardinality(DOMAIN table)
  <2>1. n \in Int /\ SettlementWindow \in Int
    BY <1>2, SpendingNumbers
  <2> HIDE DEF n
  <2>2. Spending!Min({SettlementWindow,
        n}) = IF SettlementWindow <= n THEN SettlementWindow ELSE n
    BY <2>1, LesserOfTwo
  <2>3. Spending!Min({SettlementWindow, n}) <= SettlementWindow
    BY <2>1, <2>2
  <2> QED
    BY <2>3 DEF n
<1> QED
  BY <1>1, <1>2, <1>3

\* An account that begins has spent nothing.
LEMMA SpendingBegins == Spending!Init => Spending!SpendingInv
<1> SUFFICES ASSUME Spending!Init PROVE Spending!SpendingInv
  OBVIOUS
<1>1. DOMAIN x6 = {} /\ IsFiniteSet({}) /\ Spending!Cardinality({}) = 0
  BY FS_EmptySet, SpendingCounts DEF Spending!Init
<1>2. Spending!NoDay \in Spending!Daily /\ Len(Spending!NoDay.seen) = 0
        /\ Spending!NoDay.requests = 0
  BY DEF Spending!NoDay, Spending!Daily
<1>3. DOMAIN x7 = Spending!Day(1) .. Spending!Day(SpendingTime)
        /\ \A d \in DOMAIN x7 : x7[d] = Spending!NoDay
  BY DEF Spending!Init
<1>4. Spending!TypeOK
  BY <1>1, <1>2, <1>3, SpendingNumbers DEF Spending!Init, Spending!TypeOK
<1>5. x3 = 0
  BY DEF Spending!Init
<1> QED
  BY <1>1, <1>4, <1>5, SpendingFinite DEF Spending!SpendingInv, Spending!SpentCoversTheWindow

\* The sum, as the invariant has it.
LEMMA CoversIs ==
    Spending!SpentCoversTheWindow <=>
      (x3 > 0 => x5 >= SumOver(x6,
                                   {a \in DOMAIN x6 : x2[a] >= x4}))
BY SpentIs DEF Spending!SpentCoversTheWindow

\* The same after a step.
LEMMA CoversNext ==
    Spending!SpentCoversTheWindow' <=>
      (x3' > 0 => x5' >= SumOver(x6',
                                     {a \in DOMAIN x6' : x2'[a] >= x4'}))
<1> DEFINE Covers == x3 > 0 => x5 >= SumOver(x6,
                                   {a \in DOMAIN x6 : x2[a] >= x4})
<1>1. Spending!SpentCoversTheWindow <=> Covers
  BY CoversIs
<1>2. Spending!SpentCoversTheWindow' <=> Covers'
  <2> HIDE DEF Covers
  <2> QED
    BY <1>1, PTL
<1> QED
  BY <1>2

\* recordUsage: what the account spent still covers what it remembers.
LEMMA UsageRecorded ==
    ASSUME Spending!SpendingInv, NEW a \in SpendingAttempts, x2[a] > 0, NEW cost \in AttemptCosts,
           Spending!RecordUsage(a, cost), UNCHANGED <<x2, x3, x4>>
    PROVE  /\ x5' \in Nat
           /\ DOMAIN x6' \subseteq SpendingAttempts /\ IsFiniteSet(DOMAIN x6')
           /\ Spending!Cardinality(DOMAIN x6') <= SettlementWindow
           /\ \A x \in DOMAIN x6' : x2[x] > 0 /\ x6'[x] \in Nat
           /\ x3 > 0 => x5' >= SumOver(x6',
                                           {x \in DOMAIN x6' : x2[x] >= x4})
<1> DEFINE known == DOMAIN x6
           all == known \cup {a}
           recorded == [x \in all |-> IF x = a THEN cost ELSE x6[x]]
           previous == IF a \in known THEN x6[a] ELSE 0
           InPeriod(S) == {x \in S : x2[x] >= x4}
           rest == InPeriod(all) \ {a}
<1>1. /\ x5' = IF Spending!Counted(a) THEN Spending!Max({0, x5 + (cost - previous)}) ELSE x5
      /\ \E kept \in Spending!Kept(recorded) : x6' = [x \in kept |-> recorded[x]]
  BY DEF Spending!RecordUsage
<1>2. PICK kept \in Spending!Kept(recorded) : x6' = [x \in kept |-> recorded[x]]
  BY <1>1
<1>3. /\ IsFiniteSet(known) /\ known \subseteq SpendingAttempts
      /\ \A x \in known : x2[x] > 0 /\ x6[x] \in Nat
      /\ x5 \in Nat /\ cost \in Nat /\ x3 \in Nat /\ x4 \in Nat /\ x2[a] \in Nat
  BY SpendingNumbers, SpendingFinite DEF Spending!SpendingInv, Spending!TypeOK
<1>4. DOMAIN recorded = all /\ IsFiniteSet(all)
  BY <1>3, FS_AddElement
<1>5. /\ \A x \in all : x2[x] > 0 /\ recorded[x] \in Nat
      /\ recorded[a] = cost /\ \A x \in all : x # a => recorded[x] = x6[x]
  BY <1>3
<1>6. kept \subseteq all /\ IsFiniteSet(kept) /\ Spending!Cardinality(kept) <= SettlementWindow
  <2> HIDE DEF recorded
  <2> QED
    BY <1>2, <1>4, KeptIsAPart
<1>7. DOMAIN x6' = kept /\ \A x \in kept : x6'[x] = recorded[x]
  BY <1>2
<1>8. previous \in Nat
  BY <1>3
<1>9. Spending!Max({0, x5 + (cost - previous)}) =
         IF 0 <= x5 + (cost - previous) THEN x5 + (cost - previous) ELSE 0
  <2>1. x5 + (cost - previous) \in Int
    BY <1>3, <1>8
  <2> HIDE DEF previous
  <2> QED
    BY <2>1, GreaterOfTwo
<1>10. /\ InPeriod(all) \subseteq all /\ IsFiniteSet(InPeriod(all))
       /\ InPeriod(known) \subseteq known /\ IsFiniteSet(InPeriod(known))
       /\ rest \subseteq InPeriod(known) /\ rest \subseteq InPeriod(all)
       /\ IsFiniteSet(rest) /\ InPeriod(kept) \subseteq InPeriod(all)
       /\ IsFiniteSet(InPeriod(kept)) /\ InPeriod(kept) \subseteq kept
  <2>1. /\ InPeriod(all) \subseteq all /\ InPeriod(known) \subseteq known /\ rest \subseteq known
        /\ rest \subseteq InPeriod(known) /\ rest \subseteq InPeriod(all)
        /\ InPeriod(kept) \subseteq InPeriod(all) /\ InPeriod(kept) \subseteq kept
    BY <1>6
  <2> HIDE DEF known, all, rest, InPeriod
  <2> QED
    BY <2>1, <1>3, <1>4, <1>6, FS_Subset
<1>11. ASSUME x3 > 0 PROVE x5' >= SumOver(x6', InPeriod(kept))
  <2>1. SumOver(x6', InPeriod(kept)) = SumOver(recorded, InPeriod(kept))
    <3>1. \A x \in InPeriod(kept) :
             x6'[x] \in Nat /\ x6'[x] = recorded[x]
      BY <1>5, <1>6, <1>7
    <3> HIDE DEF InPeriod, recorded
    <3> QED
      BY <1>10, <3>1, SumOfTheSame
  <2>2. /\ SumOver(recorded, InPeriod(kept)) \in Nat
        /\ SumOver(recorded, InPeriod(kept)) <= SumOver(recorded, InPeriod(all))
    <3>1. \A x \in InPeriod(all) : recorded[x] \in Nat
      BY <1>5
    <3>2. InPeriod(kept) \in SUBSET InPeriod(all)
      BY <1>10
    <3> HIDE DEF InPeriod, recorded, all
    <3> QED
      BY <1>10, <3>1, <3>2, SumGrows
  <2>3. SumOver(recorded, rest) = SumOver(x6, rest)
    <3>1. \A x \in rest : recorded[x] \in Nat /\ recorded[x] = x6[x]
      BY <1>5
    <3> HIDE DEF rest, recorded
    <3> QED
      BY <1>10, <3>1, SumOfTheSame
  <2>4. /\ SumOver(x6, rest) \in Nat /\ SumOver(x6, InPeriod(known)) \in Nat
        /\ SumOver(x6, rest) <= SumOver(x6, InPeriod(known))
    <3>1. \A x \in InPeriod(known) : x6[x] \in Nat
      BY <1>3
    <3>2. rest \in SUBSET InPeriod(known)
      BY <1>10
    <3> HIDE DEF InPeriod, known, rest
    <3> QED
      BY <1>10, <3>1, <3>2, SumGrows
  <2>5. x5 >= SumOver(x6, InPeriod(known))
    BY <1>11, CoversIs DEF Spending!SpendingInv
  <2>6. CASE Spending!Counted(a)
    <3>1. a \in InPeriod(all)
      BY <2>6 DEF Spending!Counted
    <3>2. SumOver(recorded, InPeriod(all)) = cost + SumOver(recorded, rest)
      <4>1. /\ \A x \in InPeriod(all) : recorded[x] \in Nat
            /\ InPeriod(all) \in SUBSET InPeriod(all) /\ recorded[a] = cost
        BY <1>5
      <4> HIDE DEF InPeriod, recorded, all
      <4>2. SumOver(recorded, InPeriod(all)) = recorded[a] + SumOver(recorded,
            InPeriod(all) \ {a})
        BY <1>10, <3>1, <4>1, SumSplits
      <4> QED
        BY <4>1, <4>2
    <3>3. previous + SumOver(x6, rest) <= x5
      <4>1. CASE a \in known
        <5>1. InPeriod(known) = InPeriod(all) /\ a \in InPeriod(known)
          BY <3>1, <4>1
        <5>2. SumOver(x6, InPeriod(known)) =
                 x6[a] + SumOver(x6, InPeriod(known) \ {a})
          <6>1. /\ \A x \in InPeriod(known) : x6[x] \in Nat
                /\ InPeriod(known) \in SUBSET InPeriod(known)
            BY <1>3
          <6>2. IsFiniteSet(InPeriod(known)) /\ a \in InPeriod(known)
            BY <1>10, <5>1
          <6> HIDE DEF InPeriod, known
          <6> QED
            BY <6>1, <6>2, SumSplits
        <5>3. previous = x6[a] /\ InPeriod(known) \ {a} = rest
          BY <4>1, <5>1
        <5> HIDE DEF InPeriod, known, rest, previous
        <5> QED
          BY <2>4, <2>5, <5>2, <5>3, <1>8, <1>3
      <4>2. CASE a \notin known
        <5>1. previous = 0
          BY <4>2
        <5> HIDE DEF InPeriod, known, rest, previous
        <5> QED
          BY <1>3, <2>4, <2>5, <5>1
      <4> QED
        BY <4>1, <4>2
    <3>4. x5' = Spending!Max({0, x5 + (cost - previous)})
      BY <1>1, <2>6
    <3> HIDE DEF InPeriod, known, rest, previous, recorded, all
    <3>5. x5' >= cost + SumOver(x6, rest)
      BY <1>3, <1>8, <1>9, <2>4, <3>3, <3>4
    <3> QED
      BY <1>3, <1>8, <1>9, <2>1, <2>2, <2>3, <2>4, <3>2, <3>4, <3>5
  <2>7. CASE ~ Spending!Counted(a)
    <3>1. InPeriod(all) = rest
      <4>1. x4 > 0
        BY <1>11 DEF Spending!SpendingInv
      <4>2. ~ (x2[a] >= x4)
        BY <1>11, <2>7, <4>1 DEF Spending!Counted
      <4> QED
        BY <4>2
    <3>2. x5' = x5
      BY <1>1, <2>7
    <3> HIDE DEF InPeriod, known, rest, previous, recorded, all
    <3> QED
      BY <1>3, <2>1, <2>2, <2>3, <2>4, <2>5, <3>1, <3>2
  <2> QED
    BY <2>6, <2>7
<1>12. x5' \in Nat
  <2> HIDE DEF previous
  <2>1. (IF 0 <= x5 + (cost - previous) THEN x5 + (cost - previous) ELSE 0) \in Nat
    BY <1>3, <1>8
  <2> QED
    BY <1>1, <1>3, <1>9, <2>1
<1>13. kept \subseteq SpendingAttempts /\ \A x \in kept : x2[x] > 0 /\ x6'[x] \in Nat
  BY <1>3, <1>5, <1>6, <1>7
<1> HIDE DEF recorded, all, known, rest, previous
<1> QED
  BY <1>6, <1>7, <1>11, <1>12, <1>13

\* addGatewayUsage: a day remembers no more attempts than it counted, and no
\* more than the window.
LEMMA DaysStay ==
    ASSUME Spending!SpendingInv, NEW a \in SpendingAttempts, NEW cost \in AttemptCosts,
           Spending!AddGatewayUsage(a, cost)
    PROVE  /\ DOMAIN x7' = DOMAIN x7
           /\ \A d \in DOMAIN x7' : /\ x7'[d] \in Spending!Daily
                                      /\ Len(x7'[d].seen) <= SettlementWindow
                                      /\ x7'[d].requests >= Len(x7'[d].seen)
<1> DEFINE today == Spending!Day(x2[a])
           live  == [d \in DOMAIN x7 |->
                       IF d < Spending!Day(x1) - Retention THEN Spending!NoDay ELSE x7[d]]
           entry == live[today]
           seen  == Append(entry.seen, a)
           cut   == SubSeq(seen, Spending!Max({1, Len(seen) - SettlementWindow + 1}), Len(seen))
           new   == [requests |-> entry.requests + 1, cost |-> entry.cost + cost, seen |-> cut]
           Good(e) == e \in Spending!Daily /\ Len(e.seen) <= SettlementWindow
             /\ e.requests >= Len(e.seen)
<1>1. x7' = IF a \in Spending!ToSet(entry.seen) THEN live ELSE [live EXCEPT ![today] = new]
  BY DEF Spending!AddGatewayUsage
<1>2. DOMAIN live = DOMAIN x7
  OBVIOUS
<1>3. \A d \in DOMAIN x7 : Good(live[d])
  <2>1. Good(Spending!NoDay)
    BY SpendingNumbers DEF Spending!NoDay, Spending!Daily
  <2>2. \A d \in DOMAIN x7 : Good(x7[d])
    BY DEF Spending!SpendingInv, Spending!TypeOK
  <2> HIDE DEF Good
  <2> QED
    BY <2>1, <2>2
<1>4. ASSUME today \in DOMAIN x7 PROVE Good(new)
  <2>1. Good(entry)
    BY <1>3, <1>4
  <2> HIDE DEF entry
  <2>2. /\ entry.requests \in Nat /\ entry.cost \in Nat /\ entry.seen \in Seq(SpendingAttempts)
        /\ Len(entry.seen) \in Nat /\ Len(entry.seen) <= SettlementWindow
        /\ entry.requests >= Len(entry.seen)
    BY <2>1 DEF Spending!Daily
  <2>3. seen \in Seq(SpendingAttempts) /\ Len(seen) = Len(entry.seen) + 1
    BY <2>2
  <2> DEFINE n == Len(seen)
             m == Spending!Max({1, Len(seen) - SettlementWindow + 1})
  <2>4. n \in Nat \ {0} /\ SettlementWindow \in Nat \ {0}
    BY <2>2, <2>3, SpendingNumbers
  <2>5. m = IF 1 <= n - SettlementWindow + 1 THEN n - SettlementWindow + 1 ELSE 1
    <3>1. n - SettlementWindow + 1 \in Int
      BY <2>4
    <3> HIDE DEF seen
    <3> QED
      BY <3>1, GreaterOfTwo
  <2>6. m \in 1 .. n /\ n - m + 1 <= SettlementWindow /\ n - m + 1 <= n /\ n - m + 1 \in Nat
    <3> HIDE DEF n, m
    <3> QED
      BY <2>4, <2>5
  <2>7. \A i \in m .. n : seen[i] \in SpendingAttempts
    <3>1. \A i \in 1 .. n : seen[i] \in SpendingAttempts
      <4> HIDE DEF seen
      <4> QED
        BY <2>3
    <3> HIDE DEF n, m, seen
    <3> QED
      BY <2>6, <3>1
  <2>8. cut \in Seq(SpendingAttempts) /\ Len(cut) = n - m + 1
    <3>1. m \in Int /\ n \in Int /\ m <= n
      BY <2>6
    <3> HIDE DEF seen
    <3>2. SubSeq(seen, m, n) \in Seq(SpendingAttempts)
            /\ Len(SubSeq(seen, m, n)) = IF m <= n THEN n - m + 1 ELSE 0
      <4> HIDE DEF m, n
      <4> QED
        BY <2>7, <3>1
    <3> QED
      BY <3>1, <3>2
  <2> HIDE DEF cut, n, m
  <2>9. cost \in Nat
    BY SpendingNumbers
  <2>10. n = Len(entry.seen) + 1
    BY <2>3 DEF n
  <2>11. /\ entry.requests + 1 \in Nat /\ entry.cost + cost \in Nat
         /\ Len(cut) <= SettlementWindow /\ entry.requests + 1 >= Len(cut)
    <3> HIDE DEF seen
    <3> QED
      BY SMTT(30), <2>2, <2>6, <2>8, <2>9, <2>10
  <2> HIDE DEF seen
  <2>12. new \in Spending!Daily
    BY <2>8, <2>11 DEF Spending!Daily
  <2>13. new.seen = cut /\ new.requests = entry.requests + 1
    OBVIOUS
  <2> HIDE DEF new
  <2> QED
    BY <2>11, <2>12, <2>13
<1> HIDE DEF live, entry, new, Good
<1>5. DOMAIN x7' = DOMAIN x7 /\ \A d \in DOMAIN x7' : Good(x7'[d])
  BY <1>1, <1>2, <1>3, <1>4
<1> QED
  BY <1>5 DEF Good

\* Every step keeps the invariant: one step per action.
LEMMA SpendingGoesOn ==
    Spending!SpendingInv /\ [Spending!Next]_(Spending!vars) => Spending!SpendingInv'
<1> SUFFICES ASSUME Spending!SpendingInv,
[Spending!Next]_(Spending!vars) PROVE Spending!SpendingInv'
  OBVIOUS
<1> USE SpendingNumbers
<1>0. Spending!TypeOK /\ Spending!SpentCoversTheWindow
  BY DEF Spending!SpendingInv
<1>1. ASSUME NEW a \in SpendingAttempts, Spending!Start(a) PROVE Spending!SpendingInv'
  <2>1. x2' \in [SpendingAttempts -> 0 .. SpendingTime] /\ \A x \in DOMAIN x6 : x2'[x] = x2[x]
    BY <1>0, <1>1 DEF Spending!Start, Spending!TypeOK, Spending!SpendingInv
  <2>2. Spending!TypeOK'
    BY <1>0, <1>1, <2>1 DEF Spending!Start, Spending!TypeOK
  <2>3. {x \in DOMAIN x6 : x2'[x] >= x4} =
           {x \in DOMAIN x6 : x2[x] >= x4}
    BY <2>1
  <2>4. Spending!SpentCoversTheWindow'
    BY <1>0, <1>1, <2>3, CoversIs, CoversNext DEF Spending!Start
  <2> QED
    BY <1>1, <2>1, <2>2, <2>4 DEF Spending!Start, Spending!SpendingInv
<1>2. ASSUME NEW a \in SpendingAttempts, NEW cost \in AttemptCosts, Spending!Settle(a,
      cost) PROVE Spending!SpendingInv'
  <2>1. /\ x2[a] > 0 /\ Spending!RecordUsage(a, cost) /\ Spending!AddGatewayUsage(a, cost)
        /\ UNCHANGED <<x1, x2, x3, x4, x8>>
        /\ x9' \in 0 .. MaxDeliveries
    BY <1>0, <1>2 DEF Spending!Settle, Spending!TypeOK
  <2>2. /\ x5' \in Nat
        /\ DOMAIN x6' \subseteq SpendingAttempts /\ IsFiniteSet(DOMAIN x6')
        /\ Spending!Cardinality(DOMAIN x6') <= SettlementWindow
        /\ \A x \in DOMAIN x6' : x2[x] > 0 /\ x6'[x] \in Nat
        /\ x3 > 0 => x5' >= SumOver(x6',
                                        {x \in DOMAIN x6' : x2[x] >= x4})
    BY <2>1, UsageRecorded
  <2>3. /\ DOMAIN x7' = DOMAIN x7
        /\ \A d \in DOMAIN x7' : /\ x7'[d] \in Spending!Daily
                                   /\ Len(x7'[d].seen) <= SettlementWindow
                                   /\ x7'[d].requests >= Len(x7'[d].seen)
    BY <2>1, DaysStay
  <2>4. Spending!TypeOK'
    BY <1>0, <2>1, <2>2, <2>3 DEF Spending!TypeOK
  <2>6. Spending!SpentCoversTheWindow'
    BY <2>1, <2>2, CoversNext
  <2> QED
    BY <2>1, <2>2, <2>4, <2>6, SpendingFinite DEF Spending!SpendingInv
<1>3. ASSUME NEW c \in SpendingCaps \cup {0}, Spending!SetCap(c) PROVE Spending!SpendingInv'
  <2>1. /\ x3' = c /\ x5' = 0 /\ x4' = IF c > 0 THEN x1 ELSE 0
        /\ x6' = << >> /\ x8' = x8 + 1 /\ x8 < CapChanges
        /\ UNCHANGED <<x1, x2, x7, x9>>
    BY <1>3 DEF Spending!SetCap, Spending!NewPeriod
  <2>2. DOMAIN x6' = {} /\ IsFiniteSet({}) /\ Spending!Cardinality({}) = 0
    BY <2>1, FS_EmptySet, SpendingCounts
  <2>3. Spending!TypeOK'
    BY <1>0, <2>1, <2>2 DEF Spending!TypeOK
  <2>4. {x \in DOMAIN x6' : x2'[x] >= x4'} = {}
    BY <2>2
  <2>5. SumOver(x6', {}) = 0
    BY <2>2, SumIs
  <2>7. Spending!SpentCoversTheWindow'
    BY <2>1, <2>4, <2>5, CoversNext
  <2>8. x3' > 0 => x4' > 0
    BY <1>0, <2>1 DEF Spending!TypeOK
  <2> QED
    BY <2>2, <2>3, <2>7, <2>8, SpendingFinite DEF Spending!SpendingInv
<1>4. ASSUME Spending!Tick PROVE Spending!SpendingInv'
  <2>1. x1' \in 1 .. SpendingTime
    BY <1>0, <1>4 DEF Spending!Tick, Spending!TypeOK
  <2>2. Spending!TypeOK' /\ Spending!SpentCoversTheWindow'
    BY <1>0, <1>4, <2>1, CoversIs, CoversNext DEF Spending!Tick, Spending!TypeOK
  <2> QED
    BY <1>4, <2>2 DEF Spending!Tick, Spending!SpendingInv
<1>5. ASSUME UNCHANGED Spending!vars PROVE Spending!SpendingInv'
  <2>1. Spending!TypeOK' /\ Spending!SpentCoversTheWindow'
    BY <1>0, <1>5, CoversIs, CoversNext DEF Spending!vars, Spending!TypeOK
  <2> QED
    BY <1>5, <2>1 DEF Spending!vars, Spending!SpendingInv
<1> QED
  BY <1>1, <1>2, <1>3, <1>4, <1>5 DEF Spending!Next

\* What the run asks of the spending is a part of it.
LEMMA SpendingIs == Spending!SpendingInv => Spending!TypeOK /\ Spending!SpentCoversTheWindow
BY DEF Spending!SpendingInv

-----------------------------------------------------------------------------
(* Lane: the lemmas of Steering's LaneInv.  x1 is the client, x2 the       *)
(* socket, x3 the connection's admission, x4 that of raw frames, x5 the    *)
(* lane, x6 the turns, x7 the epoch and x8 the controls sent.              *)

\* A native connection: two turns, two sockets, one steering control.
Lane == INSTANCE Steering WITH
    ResponseIds <- LaneResponses, None <- None, MaxPendingSteers <- LaneSteers,
    MaxTurns <- LaneTurns, MaxSockets <- LaneSockets, MaxSteers <- LaneControls,
    MaxReplacements <- LaneReplacements,
    client <- x1, socket <- x2, connection <- x3, raw <- x4, lane <- x5, turns <- x6, epoch <- x7,
    steers <- x8

ASSUME LaneFits == Lane!SteeringAssumption

\* Counting, as the instance does it.
LEMMA LaneCounts == \A S : Lane!Cardinality(S) = Cardinality(S)
  BY DEF Cardinality, Lane!Cardinality

\* What the library says of it.
LEMMA CountNothing == Lane!Cardinality({}) = 0
  BY LaneCounts, FS_EmptySet

\* The same of the first n numbers.
LEMMA CountTurns == ASSUME NEW n \in Nat PROVE IsFiniteSet(1..n) /\ Lane!Cardinality(1..n) = n
  BY LaneCounts, FS_Interval

\* The same of a subset.
LEMMA CountFew ==
    ASSUME NEW T, IsFiniteSet(T), NEW S, S \subseteq T
    PROVE  IsFiniteSet(S) /\ Lane!Cardinality(S) \in Nat
  BY LaneCounts, FS_Subset, FS_CardinalityType

\* The same of one more element.
LEMMA CountOneMore ==
    ASSUME NEW S, IsFiniteSet(S), NEW e, e \notin S
    PROVE  Lane!Cardinality(S \cup {e}) = Lane!Cardinality(S) + 1
<1>1. Cardinality(S \cup {e}) = Cardinality(S) + 1
  BY FS_AddElement
<1> QED
  BY <1>1, LaneCounts

\* The successors are finitely many, and turns that come later add their own.
LEMMA SuccessorsAreFew ==
    ASSUME Lane!LaneTyped, NEW r PROVE IsFiniteSet(Lane!Successors(r))
             /\ Lane!Cardinality(Lane!Successors(r)) \in Nat
<1>1. IsFiniteSet(Lane!Turns)
  BY CountTurns DEF Lane!LaneTyped
<1>2. Lane!Successors(r) \subseteq Lane!Turns
  BY DEF Lane!Successors
<1> QED
  BY <1>1, <1>2, CountFew

\* A connection that begins holds nothing.
LEMMA SteeringBegins == Lane!Init => Lane!LaneInv
<1> USE DEF Lane!Sockets, Lane!LaneStates
<1> SUFFICES ASSUME Lane!Init PROVE Lane!LaneInv
  OBVIOUS
<1>0. None \notin LaneResponses /\ LaneTurns \in Nat
  BY LaneFits DEF LaneFits, Lane!SteeringAssumption
<1>1. Lane!Turns = {}
  BY DEF Lane!Init, Lane!Turns
<1>2. Lane!Last = 0
  BY <1>1, CountNothing DEF Lane!Last
<1>3. Lane!LaneTyped
  <2>1. x5 \in Lane!LaneStates
    BY <1>0 DEF Lane!Init, Lane!NoPending, Lane!Nobody
  <2>2. x2 \in Lane!Sockets
    BY DEF Lane!Init, Lane!SocketStates
  <2>3. Lane!Turns = 1..Lane!Last
    BY <1>1, <1>2
  <2>4. /\ x3 \in BOOLEAN /\ x4 \in BOOLEAN /\ x7 \in Nat
        /\ x8 \in [LaneResponses -> Nat]
    BY DEF Lane!Init, Lane!NoPending
  <2> QED
    BY <1>1, <1>2, <2>1, <2>2, <2>3, <2>4 DEF Lane!LaneTyped
<1>4. \A r \in LaneResponses : Lane!Cardinality(Lane!Successors(r)) = 0
  BY <1>1, CountNothing DEF Lane!Successors
<1>5. Lane!ControlsAreSpent
  BY <1>4 DEF Lane!ControlsAreSpent, Lane!Allowed, Lane!Init, Lane!NoPending
<1>6. Lane!LastIsCurrent
  BY DEF Lane!Init, Lane!LastIsCurrent, Lane!Nobody
<1>7. Lane!TurnsFollow /\ Lane!SuccessorsAreSteered
  BY <1>1 DEF Lane!Init, Lane!TurnsFollow, Lane!SuccessorsAreSteered
<1>8. Lane!LaneGivesBack
  BY <1>1 DEF Lane!Init, Lane!LaneGivesBack
<1> QED
  BY <1>3, <1>5, <1>6, <1>7, <1>8 DEF Lane!LaneInv

\* What the connection does beside the lane.
LEMMA ConnectionMoves ==
    ASSUME Lane!LaneInv, UNCHANGED <<x5, x6, x8>>,
           x3' \in BOOLEAN, x4' \in BOOLEAN, ~ (x3' /\ x4'),
           \/ x1 = "open" /\ x1' = "open"
           \/ UNCHANGED <<x1, x3, x4>>,
           x2' \in Lane!Sockets,
           x2.epoch <= x2'.epoch, x2'.epoch <= x7', x7' \in Nat
    PROVE  Lane!LaneInv'
<1> USE DEF Lane!Sockets
<1> USE DEF Lane!LaneInv
<1>1. Lane!LaneTyped'
  BY DEF Lane!LaneTyped, Lane!Last, Lane!Turns
<1>2. Lane!LastIsCurrent'
  BY DEF Lane!LastIsCurrent, Lane!Last, Lane!Turns, Lane!Producer
<1>3. \A t \in Lane!Turns : x6[t].epoch \in Nat
  BY DEF Lane!LaneTyped, Lane!Turn
<1>4. x2.epoch \in Nat /\ x2'.epoch \in Nat
  BY DEF Lane!LaneTyped
<1>5. Lane!TurnsFollow'
  BY <1>3, <1>4 DEF Lane!TurnsFollow, Lane!Turns
<1>6. Lane!LaneGivesBack'
  BY DEF Lane!LaneGivesBack, Lane!Turns
<1>7. Lane!SuccessorsAreSteered'
  BY DEF Lane!SuccessorsAreSteered, Lane!Turns
<1>8. Lane!ControlsAreSpent'
  BY DEF Lane!ControlsAreSpent, Lane!Successors, Lane!Turns, Lane!Allowed, Lane!Producer
<1> QED
  BY <1>1, <1>2, <1>5, <1>6, <1>7, <1>8

\* fail: the books of one turn are closed, the rest of it stays.
LEMMA FailingCloses ==
    ASSUME Lane!LaneTyped, NEW t \in Lane!Turns, NEW f \in Lane!Failed(x6, t)
    PROVE  /\ DOMAIN f = Lane!Turns
           /\ \A u \in Lane!Turns :
                /\ f[u] \in Lane!Turn /\ (u # t => f[u] = x6[u])
                /\ f[u].response = x6[u].response /\ f[u].after = x6[u].after
                /\ f[u].epoch = x6[u].epoch /\ f[u].success = x6[u].success
           /\ f[t].admission = "settled" /\ f[t].share # "reserved"
<1>1. PICK how \in {"settled", "released"} :
          f = [x6 EXCEPT ![t].admission = "settled",
                            ![t].share = IF @ = "reserved" THEN how ELSE @]
  BY DEF Lane!Failed, Lane!Closings
<1>2. x6[t] \in Lane!Turn
  BY DEF Lane!LaneTyped
<1>3. f[t] = [x6[t] EXCEPT !.admission = "settled",
                              !.share = IF x6[t].share = "reserved" THEN how ELSE x6[t].share]
  BY <1>1, <1>2 DEF Lane!Turns, Lane!Turn
<1>4. DOMAIN f = Lane!Turns /\ \A u \in Lane!Turns : u # t => f[u] = x6[u]
  BY <1>1 DEF Lane!Turns
<1>5. f[t] \in Lane!Turn
  BY <1>2, <1>3 DEF Lane!Turn
<1>6. /\ f[t].response = x6[t].response /\ f[t].after = x6[t].after
      /\ f[t].epoch = x6[t].epoch /\ f[t].success = x6[t].success
      /\ f[t].admission = "settled" /\ f[t].share # "reserved"
  BY <1>2, <1>3 DEF Lane!Turn
<1> QED
  BY <1>4, <1>5, <1>6 DEF Lane!LaneTyped

\* Closing books disturbs no order of turns.
LEMMA ClosingKeepsOrder ==
    ASSUME Lane!LaneInv, DOMAIN x6' = DOMAIN x6, UNCHANGED <<x2, x7, x8>>,
           \A u \in Lane!Turns :
             /\ x6'[u].response = x6[u].response
             /\ x6'[u].after = x6[u].after
             /\ x6'[u].epoch = x6[u].epoch
             /\ x6[u].success => x6'[u].success
    PROVE  /\ Lane!TurnsFollow' /\ Lane!SuccessorsAreSteered' /\ Lane!Turns' = Lane!Turns
                /\ Lane!Last' = Lane!Last
           /\ \A r : Lane!Successors(r)' = Lane!Successors(r)
<1>1. Lane!Turns' = Lane!Turns /\ Lane!Last' = Lane!Last
  BY DEF Lane!Turns, Lane!Last
<1>2. Lane!TurnsFollow'
  BY <1>1 DEF Lane!TurnsFollow, Lane!LaneInv
<1>3. \A t \in Lane!Turns : x6[t].after # 0 => x6[t].after \in Lane!Turns
  BY DEF Lane!LaneInv, Lane!LaneTyped, Lane!TurnsFollow, Lane!Turn
<1>4. Lane!SuccessorsAreSteered'
  BY <1>1, <1>3 DEF Lane!SuccessorsAreSteered, Lane!LaneInv
<1>5. \A r : Lane!Successors(r)' = Lane!Successors(r)
  BY <1>1, <1>3 DEF Lane!Successors
<1> QED
  BY <1>1, <1>2, <1>4, <1>5

\* A lane that closes gives everything back.
LEMMA EverythingCloses == ASSUME Lane!LaneInv, Lane!CloseAll, Lane!Kept PROVE Lane!LaneInv'
<1> USE DEF Lane!Sockets, Lane!LaneStates
<1>1. x5' = [current |-> Lane!Nobody, predecessor |-> Lane!Nobody, accepted |-> FALSE,
          closed |-> TRUE,
               pending |-> Lane!NoPending]
  BY DEF Lane!CloseAll, Lane!LaneClosed
<1>2. /\ DOMAIN x6' = Lane!Turns
      /\ \A u \in Lane!Turns :
           /\ x6'[u] \in Lane!Turn
           /\ x6'[u].response = x6[u].response
           /\ x6'[u].after = x6[u].after
           /\ x6'[u].epoch = x6[u].epoch
           /\ x6[u].success => x6'[u].success
           /\ x6'[u].admission = "settled" /\ x6'[u].share # "reserved"
  <2>1. CASE x5.current = Lane!Nobody
    <3>1. x6' = x6
      BY <2>1 DEF Lane!CloseAll, Lane!LaneClosed
    <3>2. \A u \in Lane!Turns : u # x5.current
      BY <2>1 DEF Lane!LaneInv, Lane!LaneTyped, Lane!Nobody
    <3> QED
      BY <3>1, <3>2 DEF Lane!LaneInv, Lane!LaneTyped, Lane!LaneGivesBack, Lane!Turns
  <2>2. CASE x5.current # Lane!Nobody
    <3>1. x5.current \in Lane!Turns
      BY <2>2 DEF Lane!LaneInv, Lane!LaneTyped, Lane!LastIsCurrent, Lane!Nobody
    <3>2. x6' \in Lane!Failed(x6, x5.current)
      BY <2>2 DEF Lane!CloseAll, Lane!LaneClosed
    <3> QED
      <4>1. Lane!LaneTyped /\ \A u \in Lane!Turns : u # x5.current =>
                             x6[u].admission = "settled" /\ x6[u].share # "reserved"
        BY DEF Lane!LaneInv, Lane!LaneGivesBack
      <4>2. /\ DOMAIN x6' = Lane!Turns
            /\ \A u \in Lane!Turns :
                 /\ x6'[u] \in Lane!Turn /\ (u # x5.current => x6'[u] = x6[u])
                 /\ x6'[u].response = x6[u].response /\ x6'[u].after = x6[u].after
                 /\ x6'[u].epoch = x6[u].epoch /\ x6'[u].success = x6[u].success
            /\ x6'[x5.current].admission = "settled"
            /\ x6'[x5.current].share # "reserved"
        BY <3>1, <3>2, <4>1, FailingCloses
      <4> QED
        <5>1. \A u \in Lane!Turns : x6[u].success => x6'[u].success
          BY <4>2, Zenon
        <5>2. \A u \in Lane!Turns : x6'[u].admission = "settled" /\ x6'[u].share # "reserved"
          BY <4>1, <4>2
        <5> QED
          BY <4>2, <5>1, <5>2
  <2> QED
    BY <2>1, <2>2
<1>3. /\ x1' = "closed" /\ x3' = FALSE /\ x4' = FALSE
      /\ x2' = [x2 EXCEPT !.state = "none"] /\ UNCHANGED <<x7, x8>>
  BY DEF Lane!CloseAll, Lane!Kept
<1>4. x2'.epoch = x2.epoch
      /\ x2' \in Lane!Sockets
  <2>1. x2 \in Lane!Sockets
    BY DEF Lane!LaneInv, Lane!LaneTyped
  <2> QED
    BY <1>3, <2>1 DEF Lane!SocketStates
<1>5. Lane!Turns' = Lane!Turns /\ Lane!Last' = Lane!Last
        /\ \A r : Lane!Successors(r)' = Lane!Successors(r)
  <2>1. Lane!Turns' = Lane!Turns
    BY <1>2 DEF Lane!Turns
  <2>2. \A t \in Lane!Turns : x6[t].after # 0 => x6[t].after \in Lane!Turns
    BY DEF Lane!LaneInv, Lane!LaneTyped, Lane!TurnsFollow, Lane!Turn
  <2> QED
    BY <1>2, <2>1, <2>2 DEF Lane!Last, Lane!Successors
<1>6. Lane!LaneTyped'
  <2>1. x5' \in Lane!LaneStates
    BY <1>1, LaneFits DEF LaneFits, Lane!SteeringAssumption, Lane!NoPending, Lane!Nobody
  <2>2. Lane!Last \in Nat /\ Lane!Turns = 1..Lane!Last /\ x7 \in Nat
          /\ x8 \in [LaneResponses -> Nat]
    BY DEF Lane!LaneInv, Lane!LaneTyped
  <2> QED
    BY <1>2, <1>3, <1>4, <1>5, <2>1, <2>2 DEF Lane!LaneTyped
<1>7. Lane!LastIsCurrent'
  BY <1>1 DEF Lane!LastIsCurrent, Lane!Nobody
<1>8. Lane!TurnsFollow'
  BY <1>2, <1>3, <1>4, <1>5 DEF Lane!LaneInv, Lane!TurnsFollow
<1>9. Lane!LaneGivesBack'
  BY <1>1, <1>2, <1>3, <1>5 DEF Lane!LaneGivesBack, Lane!Nobody
<1>10. Lane!SuccessorsAreSteered'
  <2>1. \A t \in Lane!Turns : x6[t].after # 0 => x6[t].after \in Lane!Turns
    BY DEF Lane!LaneInv, Lane!LaneTyped, Lane!TurnsFollow, Lane!Turn
  <2> QED
    BY <1>2, <1>5, <2>1 DEF Lane!LaneInv, Lane!SuccessorsAreSteered
<1>11. Lane!ControlsAreSpent'
  <2>1. ASSUME NEW r \in LaneResponses
        PROVE  Lane!Cardinality(Lane!Successors(r)) + x5'.pending[r] + Lane!Allowed(r)' <= x8[r]
    <3>1. x5'.pending[r] = 0 /\ Lane!Allowed(r)' = 0
      BY <1>1, <2>1 DEF Lane!NoPending, Lane!Allowed
    <3>2. x5.pending[r] \in Nat /\ Lane!Allowed(r) \in Nat /\ x8[r] \in Nat
      BY <2>1 DEF Lane!LaneInv, Lane!LaneTyped, Lane!Allowed
    <3>3. Lane!Cardinality(Lane!Successors(r)) \in Nat
      BY SuccessorsAreFew DEF Lane!LaneInv
    <3>4. Lane!Cardinality(Lane!Successors(r)) + x5.pending[r] + Lane!Allowed(r) <= x8[r]
      BY <2>1 DEF Lane!LaneInv, Lane!ControlsAreSpent
    <3> QED
      BY <3>1, <3>2, <3>3, <3>4
  <2> QED
    BY <1>3, <1>5, <2>1 DEF Lane!ControlsAreSpent
<1> QED
  BY <1>6, <1>7, <1>8, <1>9, <1>10, <1>11 DEF Lane!LaneInv

\* open: the turn that comes after the others.
LEMMA OpeningAppends ==
    ASSUME Lane!LaneInv, NEW after \in 0..LaneTurns, Lane!RoomForATurn
    PROVE  /\ DOMAIN Lane!Opened(after) = 1..(Lane!Last + 1)
                /\ Lane!Cardinality(DOMAIN Lane!Opened(after)) = Lane!Last + 1
           /\ Lane!Last + 1 <= LaneTurns
           /\ \A t \in Lane!Turns : Lane!Opened(after)[t] = x6[t] /\ t # Lane!Last + 1
           /\ Lane!Opened(after)[Lane!Last + 1] =
                [response |-> None, admission |-> "open", share |-> "reserved",
                 success |-> FALSE, epoch |-> x2.epoch, after |-> after]
           /\ Lane!Opened(after)[Lane!Last + 1] \in Lane!Turn
<1>1. Lane!Last \in Nat /\ Lane!Turns = 1..Lane!Last /\ x2.epoch \in Nat /\ LaneTurns \in Nat
  BY LaneFits
     DEF LaneFits, Lane!SteeringAssumption, Lane!LaneInv, Lane!LaneTyped, Lane!Sockets,
         Lane!LaneStates
<1>2. DOMAIN Lane!Opened(after) = 1..(Lane!Last + 1)
  BY <1>1 DEF Lane!Opened, Lane!Last
<1>3. Lane!Cardinality(1..(Lane!Last + 1)) = Lane!Last + 1
  BY <1>1, CountTurns
<1>4. \A t \in Lane!Turns : Lane!Opened(after)[t] = x6[t] /\ t # Lane!Last + 1
  BY <1>1 DEF Lane!Opened, Lane!Last
<1>5. Lane!Last + 1 \notin Lane!Turns
  BY <1>1
<1>6. Lane!Opened(after)[Lane!Last + 1] =
        [response |-> None, admission |-> "open", share |-> "reserved",
         success |-> FALSE, epoch |-> x2.epoch, after |-> after]
  BY <1>5 DEF Lane!Opened, Lane!Last
<1>7. Lane!Opened(after)[Lane!Last + 1] \in Lane!Turn
  BY <1>1, <1>6 DEF Lane!Turn
<1>8. Lane!Last + 1 <= LaneTurns
  BY <1>1 DEF Lane!RoomForATurn, Lane!Last
<1> QED
  BY <1>2, <1>3, <1>4, <1>6, <1>7, <1>8

\* dispatch of response.create.
LEMMA CreatingBegins == ASSUME Lane!LaneInv, Lane!Create PROVE Lane!LaneInv'
<1> USE DEF Lane!LaneStates
<1> DEFINE fresh == [x5 EXCEPT !.accepted = FALSE, !.pending = Lane!NoPending]
<1>1. /\ x1 = "open" /\ x5.current = Lane!Nobody /\ ~ x5.accepted /\ Lane!RoomForATurn
      /\ UNCHANGED <<x1, x2, x3, x4, x7, x8>>
  BY DEF Lane!Create, Lane!Kept
<1>2. \/ /\ x6' = Lane!Opened(0)
         /\ x5' = [fresh EXCEPT !.current = Lane!Last + 1, !.predecessor = Lane!Nobody]
      \/ UNCHANGED x6 /\ x5' = fresh
  BY DEF Lane!Create, Lane!Last
<1>3. x5 \in Lane!LaneStates
  BY DEF Lane!LaneInv, Lane!LaneTyped
<1>4. /\ Lane!Last \in Nat /\ Lane!Turns = 1..Lane!Last /\ x2.epoch \in Nat /\ x7 \in Nat
      /\ x8 \in [LaneResponses -> Nat] /\ \A t \in Lane!Turns : x6[t] \in Lane!Turn
      /\ LaneTurns \in Nat
  BY LaneFits
     DEF LaneFits, Lane!SteeringAssumption, Lane!LaneInv, Lane!LaneTyped, Lane!Sockets,
         Lane!LaneStates
<1>5. Lane!NoPending \in [LaneResponses -> Nat]
  BY DEF Lane!NoPending
<1>6. /\ fresh.current = Lane!Nobody /\ fresh.predecessor = x5.predecessor
      /\ fresh.accepted = FALSE /\ fresh.pending = Lane!NoPending
      /\ fresh \in Lane!LaneStates
  BY <1>1, <1>3, <1>5
<1> HIDE DEF fresh
<1>7. \A r \in LaneResponses : Lane!Cardinality(Lane!Successors(r)) <= x8[r]
  <2> TAKE r \in LaneResponses
  <2>1. Lane!Cardinality(Lane!Successors(r)) \in Nat
    BY SuccessorsAreFew DEF Lane!LaneInv
  <2>2. x5.pending[r] \in Nat /\ Lane!Allowed(r) \in Nat /\ x8[r] \in Nat
    BY DEF Lane!LaneInv, Lane!LaneTyped, Lane!Allowed
  <2>3. Lane!Cardinality(Lane!Successors(r)) + x5.pending[r] + Lane!Allowed(r) <= x8[r]
    BY DEF Lane!LaneInv, Lane!ControlsAreSpent
  <2> QED
    BY <2>1, <2>2, <2>3
<1>8. ASSUME x5'.pending = Lane!NoPending, x5'.accepted = FALSE,
             \A r \in LaneResponses : Lane!Successors(r)' = Lane!Successors(r)
      PROVE  Lane!ControlsAreSpent'
  <2>1. ASSUME NEW r \in LaneResponses
        PROVE  Lane!Cardinality(Lane!Successors(r)') + x5'.pending[r] + Lane!Allowed(r)' <= x8[r]
    <3>1. x5'.pending[r] = 0 /\ Lane!Allowed(r)' = 0
      BY <1>8 DEF Lane!NoPending, Lane!Allowed
    <3>2. Lane!Cardinality(Lane!Successors(r)) \in Nat /\ x8[r] \in Nat
      BY <1>4, SuccessorsAreFew DEF Lane!LaneInv
    <3>3. Lane!Cardinality(Lane!Successors(r)) <= x8[r]
      BY <1>7
    <3> QED
      BY <1>8, <3>1, <3>2, <3>3
  <2> QED
    BY <1>1, <2>1 DEF Lane!ControlsAreSpent
<1>9. CASE UNCHANGED x6 /\ x5' = fresh
  <2>1. Lane!Turns' = Lane!Turns /\ Lane!Last' = Lane!Last
          /\ \A r : Lane!Successors(r)' = Lane!Successors(r)
    BY <1>9 DEF Lane!Turns, Lane!Last, Lane!Successors
  <2>2. Lane!LaneTyped'
    BY <1>1, <1>6, <1>9, <2>1 DEF Lane!LaneInv, Lane!LaneTyped
  <2>3. Lane!LastIsCurrent'
    BY <1>1, <1>6, <1>9, <2>1 DEF Lane!LaneInv, Lane!LastIsCurrent, Lane!Producer, Lane!Nobody
  <2>4. Lane!TurnsFollow' /\ Lane!SuccessorsAreSteered'
    BY <1>1, <1>9, <2>1 DEF Lane!LaneInv, Lane!TurnsFollow, Lane!SuccessorsAreSteered
  <2>5. Lane!LaneGivesBack'
    BY <1>1, <1>6, <1>9, <2>1 DEF Lane!LaneInv, Lane!LaneGivesBack, Lane!Nobody
  <2>6. Lane!ControlsAreSpent'
    BY <1>6, <1>8, <1>9, <2>1
  <2> QED
    BY <2>2, <2>3, <2>4, <2>5, <2>6 DEF Lane!LaneInv
<1>10. CASE /\ x6' = Lane!Opened(0)
            /\ x5' = [fresh EXCEPT !.current = Lane!Last + 1, !.predecessor = Lane!Nobody]
  <2>1. /\ DOMAIN x6' = 1..(Lane!Last + 1) /\ Lane!Cardinality(DOMAIN x6') = Lane!Last + 1
        /\ Lane!Last + 1 <= LaneTurns
        /\ \A t \in Lane!Turns : x6'[t] = x6[t] /\ t # Lane!Last + 1
        /\ x6'[Lane!Last + 1] =
             [response |-> None, admission |-> "open", share |-> "reserved",
              success |-> FALSE, epoch |-> x2.epoch, after |-> 0]
        /\ x6'[Lane!Last + 1] \in Lane!Turn
    BY <1>1, <1>4, <1>10, OpeningAppends
  <2>2. Lane!Turns' = 1..(Lane!Last + 1) /\ Lane!Last' = Lane!Last + 1
    BY <2>1 DEF Lane!Turns, Lane!Last
  <2>3. \A t \in Lane!Turns' : t \in Lane!Turns \/ t = Lane!Last + 1
    BY <1>4, <2>2
  <2>4. /\ x5'.current = Lane!Last + 1 /\ x5'.predecessor = Lane!Nobody /\ x5'.accepted = FALSE
        /\ x5'.pending = Lane!NoPending
        /\ x5' \in Lane!LaneStates
    <3>1. Lane!Last + 1 \in 0..LaneTurns /\ Lane!Nobody \in 0..LaneTurns
      BY <1>4, <2>1 DEF Lane!Nobody
    <3> QED
      BY <1>6, <1>10, <3>1
  <2>5. \A t \in Lane!Turns : x6[t].after < t /\ (x6[t].after # 0 => x6[t].after \in Lane!Turns)
    BY <1>4 DEF Lane!LaneInv, Lane!TurnsFollow, Lane!Turn
  <2>6. Lane!LaneTyped'
    <3>1. \A t \in Lane!Turns' : x6'[t] \in Lane!Turn
      BY <1>4, <2>1, <2>3
    <3>2. Lane!Last' \in Nat /\ Lane!Turns' = 1..Lane!Last'
      BY <1>4, <2>2
    <3> QED
      BY <1>1, <2>4, <3>1, <3>2 DEF Lane!LaneInv, Lane!LaneTyped
  <2>7. Lane!LastIsCurrent'
    BY <1>4, <2>2, <2>4 DEF Lane!LastIsCurrent, Lane!Nobody
  <2>8. Lane!TurnsFollow'
    BY <1>1, <1>4, <2>1, <2>2, <2>3 DEF Lane!LaneInv, Lane!TurnsFollow
  <2>9. Lane!LaneGivesBack'
    <3>1. \A t \in Lane!Turns : x6[t].admission = "settled" /\ x6[t].share # "reserved"
      BY <1>1, <1>4 DEF Lane!LaneInv, Lane!LaneGivesBack, Lane!Nobody
    <3> QED
      BY <1>1, <2>1, <2>3, <2>4, <3>1 DEF Lane!LaneInv, Lane!LaneGivesBack
  <2>10. Lane!SuccessorsAreSteered'
    BY <2>1, <2>3, <2>5 DEF Lane!LaneInv, Lane!SuccessorsAreSteered
  <2>11. \A r : Lane!Successors(r)' = Lane!Successors(r)
    BY <1>4, <2>1, <2>2, <2>3, <2>5 DEF Lane!Successors
  <2> QED
    BY <1>8, <2>4, <2>6, <2>7, <2>8, <2>9, <2>10, <2>11 DEF Lane!LaneInv
<1> QED
  BY <1>2, <1>9, <1>10

\* response.created of a successor uses up what allowed it.
LEMMA SucceedingSpends ==
    ASSUME Lane!LaneInv, NEW r \in LaneResponses, Lane!Succeeded(r) PROVE Lane!LaneInv'
<1> USE DEF Lane!LaneStates
<1> DEFINE p == x5.predecessor
<1>1. /\ x1 = "open" /\ x5.current = Lane!Nobody /\ x5.accepted /\ Lane!RoomForATurn
      /\ p # Lane!Nobody /\ x6[p].success /\ x6[p].response # r /\ x6[p].epoch = x7
      /\ UNCHANGED <<x1, x2, x3, x4, x7, x8>>
  BY DEF Lane!Succeeded, Lane!Kept, Lane!Listening, Lane!Expected, Lane!MayOpen
<1>2. /\ x6' = [Lane!Opened(p) EXCEPT ![Lane!Last + 1].response = r]
      /\ x5' = [x5 EXCEPT !.current = Lane!Last + 1, !.accepted = FALSE]
  BY DEF Lane!Succeeded, Lane!Last
<1>3. x5 \in Lane!LaneStates
  BY DEF Lane!LaneInv, Lane!LaneTyped
<1>4. /\ Lane!Last \in Nat /\ Lane!Turns = 1..Lane!Last /\ x2.epoch \in Nat /\ x7 \in Nat
      /\ x8 \in [LaneResponses -> Nat] /\ \A t \in Lane!Turns : x6[t] \in Lane!Turn
      /\ LaneTurns \in Nat
  BY LaneFits
     DEF LaneFits, Lane!SteeringAssumption, Lane!LaneInv, Lane!LaneTyped, Lane!Sockets,
         Lane!LaneStates
<1>5. p = Lane!Last /\ Lane!Producer = p /\ x6[p].response # None /\ p \in Lane!Turns
  BY <1>1, <1>4 DEF Lane!LaneInv, Lane!LastIsCurrent, Lane!Producer, Lane!Nobody
<1>6. x2.epoch = x6[p].epoch
  <2>1. x6[p].epoch <= x2.epoch /\ x2.epoch <= x7
    BY <1>5 DEF Lane!LaneInv, Lane!TurnsFollow
  <2> QED
    BY <1>1, <1>4, <2>1
<1>7. /\ DOMAIN x6' = 1..(Lane!Last + 1) /\ Lane!Cardinality(DOMAIN x6') = Lane!Last + 1
      /\ Lane!Last + 1 <= LaneTurns
      /\ \A t \in Lane!Turns : x6'[t] = x6[t] /\ t # Lane!Last + 1
      /\ x6'[Lane!Last + 1] =
           [response |-> r, admission |-> "open", share |-> "reserved",
            success |-> FALSE, epoch |-> x2.epoch, after |-> p]
  <2>1. /\ DOMAIN Lane!Opened(p) = 1..(Lane!Last + 1)
             /\ Lane!Cardinality(DOMAIN Lane!Opened(p)) = Lane!Last + 1
        /\ Lane!Last + 1 <= LaneTurns
        /\ \A t \in Lane!Turns : Lane!Opened(p)[t] = x6[t] /\ t # Lane!Last + 1
        /\ Lane!Opened(p)[Lane!Last + 1] =
             [response |-> None, admission |-> "open", share |-> "reserved",
              success |-> FALSE, epoch |-> x2.epoch, after |-> p]
    BY <1>1, <1>3, OpeningAppends
  <2>2. Lane!Last + 1 \in 1..(Lane!Last + 1)
    BY <1>4
  <2> HIDE DEF p
  <2>3. /\ DOMAIN x6' = DOMAIN Lane!Opened(p)
        /\ \A t \in Lane!Turns : x6'[t] = Lane!Opened(p)[t]
        /\ x6'[Lane!Last + 1] = [Lane!Opened(p)[Lane!Last + 1] EXCEPT !.response = r]
    BY <1>2, <1>4, <2>1, <2>2
  <2>4. x6'[Lane!Last + 1] =
             [response |-> r, admission |-> "open", share |-> "reserved",
              success |-> FALSE, epoch |-> x2.epoch, after |-> p]
    <3>1. x6'[Lane!Last + 1] =
            [[response |-> None, admission |-> "open", share |-> "reserved",
              success |-> FALSE, epoch |-> x2.epoch, after |-> p] EXCEPT !.response = r]
      BY <2>1, <2>3
    <3> QED
      BY <3>1
  <2> QED
    BY <2>1, <2>3, <2>4
<1>8. x6'[Lane!Last + 1] \in Lane!Turn
  BY <1>3, <1>4, <1>7 DEF Lane!Turn
<1>9. Lane!Turns' = 1..(Lane!Last + 1) /\ Lane!Last' = Lane!Last + 1
  BY <1>7 DEF Lane!Turns, Lane!Last
<1>10. \A t \in Lane!Turns' : t \in Lane!Turns \/ t = Lane!Last + 1
  BY <1>4, <1>9
<1>11. /\ x5'.current = Lane!Last + 1 /\ x5'.predecessor = p /\ x5'.accepted = FALSE
       /\ x5'.pending = x5.pending
       /\ x5' \in Lane!LaneStates
  <2>1. Lane!Last + 1 \in 0..LaneTurns
    BY <1>4, <1>7
  <2> QED
    BY <1>2, <1>3, <2>1
<1> HIDE DEF p
<1>12. \A t \in Lane!Turns :
         /\ x6[t].after < t /\ x6[t].after # p
         /\ x6[t].after # 0 => x6[t].after \in Lane!Turns
  BY <1>4, <1>5 DEF Lane!LaneInv, Lane!TurnsFollow, Lane!Turn
<1>13. Lane!LaneTyped'
  <2>1. \A t \in Lane!Turns' : x6'[t] \in Lane!Turn
    BY <1>4, <1>7, <1>8, <1>10
  <2>2. Lane!Last' \in Nat /\ Lane!Turns' = 1..Lane!Last'
    BY <1>4, <1>9
  <2> QED
    BY <1>1, <1>11, <2>1, <2>2 DEF Lane!LaneInv, Lane!LaneTyped
<1>14. Lane!LastIsCurrent'
  BY <1>4, <1>9, <1>11 DEF Lane!LastIsCurrent, Lane!Nobody
<1>15. Lane!TurnsFollow'
  <2>1. r # None /\ p < Lane!Last + 1
    BY <1>4, <1>5, LaneFits DEF LaneFits, Lane!SteeringAssumption
  <2> QED
    BY <1>1, <1>4, <1>7, <1>10, <2>1 DEF Lane!LaneInv, Lane!TurnsFollow
<1>16. Lane!LaneGivesBack'
  <2>1. \A t \in Lane!Turns : x6[t].admission = "settled" /\ x6[t].share # "reserved"
    BY <1>1, <1>4 DEF Lane!LaneInv, Lane!LaneGivesBack, Lane!Nobody
  <2> QED
    BY <1>1, <1>7, <1>10, <1>11, <2>1 DEF Lane!LaneInv, Lane!LaneGivesBack
<1>17. Lane!SuccessorsAreSteered'
  <2>1. Lane!SuccessorsAreSteered
    BY DEF Lane!LaneInv
  <2>2. ASSUME NEW t \in Lane!Turns, x6[t].after # 0
        PROVE  /\ x6'[x6'[t].after].success
               /\ x6'[x6'[t].after].response # x6'[t].response
               /\ x6'[x6'[t].after].epoch = x6'[t].epoch
               /\ \A u \in Lane!Turns' \ {t} : x6'[u].after # x6'[t].after
    BY <1>7, <1>10, <1>12, <2>1, <2>2 DEF Lane!SuccessorsAreSteered
  <2>3. /\ x6'[p].success /\ x6'[p].response # r
        /\ x6'[p].epoch = x6'[Lane!Last + 1].epoch /\ x6'[Lane!Last + 1].response = r
        /\ x6'[Lane!Last + 1].after = p
        /\ \A u \in Lane!Turns' \ {Lane!Last + 1} : x6'[u].after # p
    BY <1>1, <1>5, <1>6, <1>7, <1>10, <1>12
  <2> QED
    BY <1>7, <1>10, <2>2, <2>3 DEF Lane!SuccessorsAreSteered
<1>18. Lane!ControlsAreSpent'
  <2>1. ASSUME NEW q \in LaneResponses
        PROVE  Lane!Cardinality(Lane!Successors(q)') + x5'.pending[q] + Lane!Allowed(q)' <= x8[q]
    <3>1. /\ Lane!Cardinality(Lane!Successors(q)) \in Nat /\ IsFiniteSet(Lane!Successors(q))
          /\ x5.pending[q] \in Nat /\ x8[q] \in Nat
      BY <1>3, <1>4, SuccessorsAreFew DEF Lane!LaneInv
    <3>2. Lane!Cardinality(Lane!Successors(q)) + x5.pending[q] + Lane!Allowed(q) <= x8[q]
      BY DEF Lane!LaneInv, Lane!ControlsAreSpent
    <3>3. Lane!Allowed(q)' = 0 /\ x5'.pending[q] = x5.pending[q]
      BY <1>11 DEF Lane!Allowed
    <3>4. \A t \in Lane!Turns : (t \in Lane!Successors(q)') <=> (t \in Lane!Successors(q))
      BY <1>4, <1>7, <1>9, <1>12 DEF Lane!Successors
    <3>5. Lane!Last + 1 \in Lane!Successors(q)' <=> x6[p].response = q
      BY <1>4, <1>5, <1>7, <1>9 DEF Lane!Successors
    <3>6. Lane!Successors(q) \subseteq Lane!Turns
            /\ Lane!Successors(q)' \subseteq Lane!Turns' /\ Lane!Last + 1 \notin Lane!Turns
      BY <1>4 DEF Lane!Successors
    <3>7. CASE x6[p].response = q
      <4>1. Lane!Successors(q)' = Lane!Successors(q) \cup {Lane!Last + 1}
              /\ Lane!Last + 1 \notin Lane!Successors(q)
        BY <1>10, <3>4, <3>5, <3>6, <3>7
      <4>2. Lane!Cardinality(Lane!Successors(q)') = Lane!Cardinality(Lane!Successors(q)) + 1
        BY <3>1, <4>1, CountOneMore
      <4>3. Lane!Allowed(q) = 1
        BY <1>1, <1>5, <3>7 DEF Lane!Allowed
      <4> QED
        BY <3>1, <3>2, <3>3, <4>2, <4>3
    <3>8. CASE x6[p].response # q
      <4>1. Lane!Successors(q)' = Lane!Successors(q)
        BY <1>10, <3>4, <3>5, <3>6, <3>8
      <4>2. Lane!Allowed(q) \in Nat
        BY DEF Lane!Allowed
      <4> QED
        BY <3>1, <3>2, <3>3, <4>1, <4>2
    <3> QED
      BY <3>7, <3>8
  <2> QED
    BY <1>1, <2>1 DEF Lane!ControlsAreSpent
<1> QED
  BY <1>13, <1>14, <1>15, <1>16, <1>17, <1>18 DEF Lane!LaneInv

\* Terminal events close the books of the current turn.
LEMMA TerminalSettles == ASSUME Lane!LaneInv, Lane!Terminal PROVE Lane!LaneInv'
<1> USE DEF Lane!LaneStates
<1> DEFINE c == x5.current
<1>1. /\ x1 = "open" /\ c # Lane!Nobody /\ x4' = FALSE
      /\ UNCHANGED <<x1, x2, x3, x7, x8>>
  BY DEF Lane!Terminal, Lane!Kept, Lane!Listening
<1>2. x5 \in Lane!LaneStates
  BY DEF Lane!LaneInv, Lane!LaneTyped
<1>3. /\ Lane!Last \in Nat /\ Lane!Turns = 1..Lane!Last /\ x8 \in [LaneResponses -> Nat]
      /\ \A t \in Lane!Turns : x6[t] \in Lane!Turn
  BY DEF Lane!LaneInv, Lane!LaneTyped
<1>4. c = Lane!Last /\ c \in Lane!Turns /\ Lane!Producer = c
  BY <1>1, <1>3 DEF Lane!LaneInv, Lane!LastIsCurrent, Lane!Producer, Lane!Nobody
<1>5. /\ DOMAIN x6' = Lane!Turns
      /\ \A u \in Lane!Turns :
           /\ x6'[u] \in Lane!Turn /\ (u # c => x6'[u] = x6[u])
           /\ x6'[u].response = x6[u].response
           /\ x6'[u].after = x6[u].after
           /\ x6'[u].epoch = x6[u].epoch
           /\ x6[u].success => x6'[u].success
      /\ x6'[c].admission = "settled" /\ x6'[c].share # "reserved"
  <2>1. CASE x6' = [x6 EXCEPT ![c].admission = "settled", ![c].share = "settled",
                                    ![c].success = TRUE]
    <3>1. x6[c] \in Lane!Turn
      BY <1>3, <1>4
    <3>2. x6'[c] = [x6[c] EXCEPT !.admission = "settled", !.share = "settled",
                                       !.success = TRUE]
      BY <1>4, <2>1, <3>1 DEF Lane!Turns, Lane!Turn
    <3>3. DOMAIN x6' = Lane!Turns /\ \A u \in Lane!Turns : u # c => x6'[u] = x6[u]
      BY <2>1 DEF Lane!Turns
    <3>4. x6'[c] \in Lane!Turn
      BY <3>1, <3>2 DEF Lane!Turn
    <3>5. /\ x6'[c].response = x6[c].response /\ x6'[c].after = x6[c].after
          /\ x6'[c].epoch = x6[c].epoch /\ x6'[c].success = TRUE
          /\ x6'[c].admission = "settled" /\ x6'[c].share = "settled"
      BY <3>1, <3>2 DEF Lane!Turn
    <3> QED
      BY <1>3, <3>3, <3>4, <3>5
  <2>2. CASE x6' \in Lane!Failed(x6, c)
    <3>1. /\ DOMAIN x6' = Lane!Turns
          /\ \A u \in Lane!Turns :
               /\ x6'[u] \in Lane!Turn /\ (u # c => x6'[u] = x6[u])
               /\ x6'[u].response = x6[u].response /\ x6'[u].after = x6[u].after
               /\ x6'[u].epoch = x6[u].epoch /\ x6'[u].success = x6[u].success
          /\ x6'[c].admission = "settled" /\ x6'[c].share # "reserved"
      BY <1>4, <2>2, FailingCloses DEF Lane!LaneInv
    <3>2. \A u \in Lane!Turns : x6[u].success => x6'[u].success
      BY <3>1, Zenon
    <3> QED
      BY <3>1, <3>2
  <2> QED
    BY <2>1, <2>2 DEF Lane!Terminal
<1>6. \/ x5' = [x5 EXCEPT !.current = Lane!Nobody, !.predecessor = c]
      \/ x5' = [x5 EXCEPT !.current = Lane!Nobody, !.predecessor = c, !.accepted = FALSE]
  BY DEF Lane!Terminal
<1>7. /\ x5'.current = Lane!Nobody /\ x5'.predecessor = c /\ x5'.pending = x5.pending
      /\ x5'.accepted => x5.accepted
      /\ x5' \in Lane!LaneStates
  <2>1. Lane!Nobody \in 0..LaneTurns
    BY <1>2, LaneFits DEF LaneFits, Lane!SteeringAssumption, Lane!Nobody
  <2>2. c \in 0..LaneTurns
    BY <1>2
  <2> HIDE DEF c
  <2>3. CASE x5' = [x5 EXCEPT !.current = Lane!Nobody, !.predecessor = c]
    BY <1>2, <2>1, <2>2, <2>3
  <2>4. CASE x5' = [x5 EXCEPT !.current = Lane!Nobody, !.predecessor = c, !.accepted = FALSE]
    BY <1>2, <2>1, <2>2, <2>4
  <2> QED
    BY <1>6, <2>3, <2>4
<1> HIDE DEF c
<1>8. /\ Lane!TurnsFollow' /\ Lane!SuccessorsAreSteered' /\ Lane!Turns' = Lane!Turns
           /\ Lane!Last' = Lane!Last
      /\ \A r : Lane!Successors(r)' = Lane!Successors(r)
  <2>1. DOMAIN x6' = DOMAIN x6
    BY <1>5 DEF Lane!Turns
  <2>2. \A u \in Lane!Turns :
          /\ x6'[u].response = x6[u].response
          /\ x6'[u].after = x6[u].after
          /\ x6'[u].epoch = x6[u].epoch
          /\ x6[u].success => x6'[u].success
    BY <1>5
  <2> QED
    BY <1>1, <2>1, <2>2, ClosingKeepsOrder
<1>9. Lane!Producer' = c /\ c # 0 /\ x6'[c].response = x6[c].response
  BY <1>1, <1>4, <1>5, <1>7 DEF Lane!Producer, Lane!Nobody
<1>10. Lane!LaneTyped'
  BY <1>1, <1>3, <1>5, <1>7, <1>8 DEF Lane!LaneInv, Lane!LaneTyped
<1>11. Lane!LastIsCurrent'
  BY <1>4, <1>7, <1>8, <1>9 DEF Lane!LaneInv, Lane!LastIsCurrent, Lane!Nobody
<1>12. Lane!LaneGivesBack'
  <2>1. \A t \in Lane!Turns : t # c => x6[t].admission = "settled" /\ x6[t].share # "reserved"
    BY DEF Lane!LaneInv, Lane!LaneGivesBack, c
  <2>2. \A t \in Lane!Turns : x6'[t].admission = "settled" /\ x6'[t].share # "reserved"
    BY <1>5, <2>1
  <2> QED
    BY <1>1, <1>8, <2>2 DEF Lane!LaneInv, Lane!LaneGivesBack
<1>13. Lane!ControlsAreSpent'
  <2>1. ASSUME NEW r \in LaneResponses
        PROVE  Lane!Cardinality(Lane!Successors(r)) + x5'.pending[r] + Lane!Allowed(r)' <= x8[r]
    <3>1. Lane!Cardinality(Lane!Successors(r)) \in Nat /\ x5.pending[r] \in Nat /\ x8[r] \in Nat
      BY <1>2, <1>3, SuccessorsAreFew DEF Lane!LaneInv
    <3>2. Lane!Cardinality(Lane!Successors(r)) + x5.pending[r] + Lane!Allowed(r) <= x8[r]
      BY DEF Lane!LaneInv, Lane!ControlsAreSpent
    <3>3. Lane!Allowed(r)' <= Lane!Allowed(r) /\ Lane!Allowed(r)' \in Nat
            /\ Lane!Allowed(r) \in Nat
      BY <1>4, <1>7, <1>9 DEF Lane!Allowed
    <3> QED
      BY <1>7, <3>1, <3>2, <3>3
  <2> QED
    BY <1>1, <1>8, <2>1 DEF Lane!ControlsAreSpent
<1> QED
  BY <1>8, <1>10, <1>11, <1>12, <1>13 DEF Lane!LaneInv

\* response.created names the current turn.
LEMMA CreatedNames ==
    ASSUME Lane!LaneInv, NEW r \in LaneResponses, Lane!Created(r) PROVE Lane!LaneInv'
<1> DEFINE c == x5.current
<1>1. /\ c # Lane!Nobody /\ x6[c].response \in {None, r}
      /\ x6' = [x6 EXCEPT ![c].response = r]
      /\ UNCHANGED <<x1, x2, x3, x4, x5, x7, x8>>
  BY DEF Lane!Created, Lane!Kept
<1>2. /\ Lane!Last \in Nat /\ Lane!Turns = 1..Lane!Last
           /\ \A t \in Lane!Turns : x6[t] \in Lane!Turn
  BY DEF Lane!LaneInv, Lane!LaneTyped
<1>3. c = Lane!Last /\ c \in Lane!Turns /\ Lane!Producer = c /\ Lane!Producer' = c
  BY <1>1, <1>2 DEF Lane!LaneInv, Lane!LastIsCurrent, Lane!Producer, Lane!Nobody
<1>4. /\ DOMAIN x6' = Lane!Turns /\ \A u \in Lane!Turns : u # c => x6'[u] = x6[u]
      /\ x6'[c] = [x6[c] EXCEPT !.response = r]
  BY <1>1, <1>2, <1>3 DEF Lane!Turns
<1>5. r # None
  BY LaneFits DEF LaneFits, Lane!SteeringAssumption
<1> HIDE DEF c
<1>6. /\ x6'[c] \in Lane!Turn /\ x6'[c].response = r
      /\ x6'[c].after = x6[c].after /\ x6'[c].epoch = x6[c].epoch
      /\ x6'[c].success = x6[c].success /\ x6'[c].admission = x6[c].admission
      /\ x6'[c].share = x6[c].share
  <2>1. x6[c] \in Lane!Turn
    BY <1>2, <1>3
  <2> QED
    BY <1>4, <2>1 DEF Lane!Turn
<1>7. \A u \in Lane!Turns : x6'[u].after = x6[u].after /\ x6'[u].epoch = x6[u].epoch
  BY <1>4, <1>6
<1>8. \A t \in Lane!Turns : x6[t].after # 0 => x6[t].after \in Lane!Turns /\ x6[t].after # c
  BY <1>2, <1>3 DEF Lane!LaneInv, Lane!TurnsFollow, Lane!Turn
<1>9. x6[c].after # 0 => x6[c].response = r
  BY <1>1, <1>3 DEF Lane!LaneInv, Lane!TurnsFollow, c
<1>10. Lane!Turns' = Lane!Turns /\ Lane!Last' = Lane!Last
  BY <1>4 DEF Lane!Turns, Lane!Last
<1>11. \A q : Lane!Successors(q)' = Lane!Successors(q)
  BY <1>4, <1>7, <1>8, <1>10 DEF Lane!Successors
<1>12. Lane!LaneTyped'
  BY <1>1, <1>2, <1>4, <1>6, <1>10 DEF Lane!LaneInv, Lane!LaneTyped
<1>13. Lane!LastIsCurrent'
  BY <1>1, <1>3, <1>5, <1>6, <1>10 DEF Lane!LaneInv, Lane!LastIsCurrent, c
<1>14. Lane!TurnsFollow'
  BY <1>1, <1>4, <1>5, <1>6, <1>7, <1>10 DEF Lane!LaneInv, Lane!TurnsFollow
<1>15. Lane!LaneGivesBack'
  BY <1>1, <1>4, <1>10 DEF Lane!LaneInv, Lane!LaneGivesBack, c
<1>16. Lane!SuccessorsAreSteered'
  <2>1. \A t \in Lane!Turns : x6[t].after # 0 => x6'[t].response = x6[t].response
    BY <1>4, <1>6, <1>9
  <2> QED
    BY <1>4, <1>7, <1>8, <1>10, <2>1 DEF Lane!LaneInv, Lane!SuccessorsAreSteered
<1>17. Lane!ControlsAreSpent'
  <2>1. ASSUME NEW q \in LaneResponses PROVE Lane!Allowed(q)' = Lane!Allowed(q)
    <3>1. x5.accepted => x6[c].response = r
      BY <1>1, <1>3 DEF Lane!LaneInv, Lane!LastIsCurrent, c
    <3> QED
      BY <1>1, <1>3, <1>6, <3>1 DEF Lane!Allowed
  <2> QED
    BY <1>1, <1>11, <2>1 DEF Lane!LaneInv, Lane!ControlsAreSpent
<1> QED
  BY <1>12, <1>13, <1>14, <1>15, <1>16, <1>17 DEF Lane!LaneInv

\* A control is counted, and its answer used once.
LEMMA ControlsMove ==
    ASSUME Lane!LaneInv, NEW r \in LaneResponses,
           Lane!Steer(r) \/ \E accepts \in BOOLEAN : Lane!SteerAnswered(r, accepts)
    PROVE  Lane!LaneInv'
<1> USE DEF Lane!LaneStates
<1>1. /\ UNCHANGED <<x1, x2, x3, x4, x6, x7>>
  BY DEF Lane!Steer, Lane!SteerAnswered, Lane!Kept
<1>2. x5 \in Lane!LaneStates
      /\ x8 \in [LaneResponses -> Nat]
  BY DEF Lane!LaneInv, Lane!LaneTyped
<1>3. /\ x5'.current = x5.current /\ x5'.predecessor = x5.predecessor
      /\ x5' \in Lane!LaneStates
      /\ x8' \in [LaneResponses -> Nat]
      /\ \A q \in LaneResponses \ {r} : x5'.pending[q] = x5.pending[q] /\ x8'[q] = x8[q]
      /\ \/ /\ x5'.accepted = x5.accepted
            /\ \/ x5'.pending[r] = x5.pending[r] + 1 /\ x8'[r] = x8[r] + 1
               \/ x5'.pending[r] <= x5.pending[r] /\ x8'[r] = x8[r]
         \/ /\ x5'.accepted = TRUE /\ Lane!Accepted(r) /\ x5'.pending[r] = x5.pending[r] - 1
            /\ x8'[r] = x8[r]
  <2>1. CASE Lane!Steer(r)
    <3>1. /\ x5' = [x5 EXCEPT !.pending = [x5.pending EXCEPT ![r] = @ + 1]]
          /\ x8' = [x8 EXCEPT ![r] = @ + 1]
      BY <2>1 DEF Lane!Steer
    <3>2. [x5.pending EXCEPT ![r] = @ + 1] \in [LaneResponses -> Nat]
      BY <1>2
    <3> QED
      BY <1>2, <3>1, <3>2
  <2>2. ASSUME NEW accepts \in BOOLEAN, Lane!SteerAnswered(r, accepts)
        PROVE  /\ x5' = [x5 EXCEPT
                    !.pending = [x5.pending EXCEPT ![r] = IF @ > 0 THEN @ - 1 ELSE 0],
                    !.accepted = x5.accepted \/ (accepts /\ Lane!Accepted(r))]
               /\ x8' = x8
    BY <2>2 DEF Lane!SteerAnswered, Lane!Kept
  <2>3. CASE \E accepts \in BOOLEAN : Lane!SteerAnswered(r, accepts)
    <3>1. PICK accepts \in BOOLEAN : Lane!SteerAnswered(r, accepts)
      BY <2>3
    <3> DEFINE now == x5.accepted \/ (accepts /\ Lane!Accepted(r))
               left == [x5.pending EXCEPT ![r] = IF @ > 0 THEN @ - 1 ELSE 0]
    <3>2. x5' = [x5 EXCEPT !.pending = left, !.accepted = now] /\ x8' = x8
      BY <2>2, <3>1
    <3>3. left \in [LaneResponses -> Nat] /\ now \in BOOLEAN
      BY <1>2
    <3>4. /\ left[r] = IF x5.pending[r] > 0 THEN x5.pending[r] - 1 ELSE 0
          /\ \A q \in LaneResponses \ {r} : left[q] = x5.pending[q]
      BY <1>2
    <3>5. now = x5.accepted \/ (now = TRUE /\ Lane!Accepted(r))
      <4>1. x5.accepted \in BOOLEAN /\ accepts \in BOOLEAN
        BY <1>2
      <4> QED
        BY <4>1, Zenon
    <3>6. x5.pending[r] \in Nat
      BY <1>2
    <3>7. left[r] <= x5.pending[r] /\ (Lane!Accepted(r) => left[r] = x5.pending[r] - 1)
      BY <3>4, <3>6 DEF Lane!Accepted
    <3> HIDE DEF now, left
    <3>8. /\ x5'.current = x5.current /\ x5'.predecessor = x5.predecessor
          /\ x5'.pending = left /\ x5'.accepted = now
          /\ x5' \in Lane!LaneStates
      BY <1>2, <3>2, <3>3
    <3> QED
      BY <1>2, <3>2, <3>4, <3>5, <3>7, <3>8
  <2> QED
    BY <2>1, <2>3
<1>4. Lane!Turns' = Lane!Turns /\ Lane!Last' = Lane!Last /\ Lane!Producer' = Lane!Producer
      /\ \A q : Lane!Successors(q)' = Lane!Successors(q)
  BY <1>1, <1>3 DEF Lane!Turns, Lane!Last, Lane!Producer, Lane!Successors
<1>5. Lane!LaneTyped'
  BY <1>1, <1>3, <1>4 DEF Lane!LaneInv, Lane!LaneTyped
<1>6. Lane!LastIsCurrent'
  <2>1. Lane!Accepted(r) => Lane!Producer # Lane!Nobody /\ x6[Lane!Producer].response # None
    BY LaneFits DEF LaneFits, Lane!SteeringAssumption, Lane!Accepted
  <2>2. x5'.accepted => x5.accepted \/ Lane!Accepted(r)
    BY <1>3
  <2> QED
    BY <1>1, <1>3, <1>4, <2>1, <2>2 DEF Lane!LaneInv, Lane!LastIsCurrent
<1>7. Lane!TurnsFollow' /\ Lane!SuccessorsAreSteered'
  BY <1>1, <1>4 DEF Lane!LaneInv, Lane!TurnsFollow, Lane!SuccessorsAreSteered
<1>8. Lane!LaneGivesBack'
  BY <1>1, <1>3, <1>4 DEF Lane!LaneInv, Lane!LaneGivesBack
<1>9. Lane!ControlsAreSpent'
  <2>1. ASSUME NEW q \in LaneResponses
        PROVE  Lane!Cardinality(Lane!Successors(q)) + x5'.pending[q] + Lane!Allowed(q)' <= x8'[q]
    <3>1. Lane!Cardinality(Lane!Successors(q)) \in Nat /\ x5.pending[q] \in Nat /\ x8[q] \in Nat
          /\ x5'.pending[q] \in Nat
      BY <1>2, <1>3, SuccessorsAreFew DEF Lane!LaneInv
    <3>2. Lane!Cardinality(Lane!Successors(q)) + x5.pending[q] + Lane!Allowed(q) <= x8[q]
      BY DEF Lane!LaneInv, Lane!ControlsAreSpent
    <3>3. Lane!Allowed(q) \in {0, 1} /\ Lane!Allowed(q)' \in {0, 1}
      BY DEF Lane!Allowed
    <3>4. x5'.accepted = x5.accepted => Lane!Allowed(q)' = Lane!Allowed(q)
      BY <1>1, <1>4 DEF Lane!Allowed
    <3>5. Lane!Accepted(r) /\ q # r => Lane!Allowed(q)' = 0
      BY <1>1, <1>4 DEF Lane!Allowed, Lane!Accepted
    <3> QED
      BY <1>3, <3>1, <3>2, <3>3, <3>4, <3>5
  <2> QED
    BY <1>4, <2>1 DEF Lane!ControlsAreSpent
<1> QED
  BY <1>5, <1>6, <1>7, <1>8, <1>9 DEF Lane!LaneInv

\* Every step keeps the lane's books: one step per action.
LEMMA SteeringGoesOn == Lane!LaneInv /\ [Lane!Next]_(Lane!vars) => Lane!LaneInv'
<1> USE DEF Lane!Sockets
<1> SUFFICES ASSUME Lane!LaneInv, [Lane!Next]_(Lane!vars) PROVE Lane!LaneInv'
  OBVIOUS
<1>1. /\ x2 \in Lane!Sockets
      /\ x3 \in BOOLEAN /\ x4 \in BOOLEAN /\ x7 \in Nat /\ x2.epoch <= x7
      /\ ~ (x3 /\ x4)
  BY DEF Lane!LaneInv, Lane!LaneTyped, Lane!TurnsFollow, Lane!LaneGivesBack
<1>2. CASE UNCHANGED Lane!vars
  BY <1>1, <1>2, ConnectionMoves DEF Lane!vars
<1>3. ASSUME x1 = "open", UNCHANGED <<x1, x5, x6, x7, x8>>,
             x3' \in BOOLEAN, x4' \in BOOLEAN, ~ (x3' /\ x4'),
             x2' \in Lane!Sockets,
             x2'.epoch = x2.epoch \/ x2'.epoch = x7
      PROVE  Lane!LaneInv'
  BY <1>1, <1>3, ConnectionMoves
<1>4. CASE Lane!Connect \/ Lane!Relocate
  <2>1. x2' = [state |-> "connecting", nth |-> x2.nth + 1, epoch |-> x7,
                   retried |-> FALSE]
    BY <1>4 DEF Lane!Connect, Lane!Relocate
  <2>2. /\ x2' \in Lane!Sockets
        /\ x2'.epoch = x7
    BY <1>1, <2>1 DEF Lane!SocketStates
  <2>3. x3' \in BOOLEAN /\ x4' \in BOOLEAN /\ ~ (x3' /\ x4')
    <3>1. CASE Lane!Connect
      <4>1. x3' = (x3 \/ ~ x4) /\ x4' = x4
        BY <3>1 DEF Lane!Connect
      <4>2. x3' \in BOOLEAN /\ x4' \in BOOLEAN
        BY <1>1, <4>1
      <4>3. ~ (x3' /\ x4')
        BY <1>1, <4>1, Zenon
      <4> QED
        BY <4>2, <4>3
    <3>2. CASE Lane!Relocate
      BY <3>2 DEF Lane!Relocate
    <3> QED
      BY <1>4, <3>1, <3>2
  <2> QED
    BY <1>3, <1>4, <2>2, <2>3 DEF Lane!Connect, Lane!Relocate, Lane!Kept
<1>5. CASE Lane!SocketOpened \/ Lane!Unauthorized \/ Lane!Reauthenticated \/ Lane!SocketLost
  <2>1. \/ \E s \in Lane!SocketStates : x2' = [x2 EXCEPT !.state = s]
        \/ x2' = [x2 EXCEPT !.state = "connecting", !.nth = @ + 1, !.retried = TRUE]
    BY <1>5
       DEF Lane!SocketOpened, Lane!Unauthorized, Lane!Reauthenticated, Lane!SocketLost,
           Lane!SocketStates
  <2>2. /\ x2' \in Lane!Sockets
        /\ x2'.epoch = x2.epoch
    <3>1. "connecting" \in Lane!SocketStates
      BY DEF Lane!SocketStates
    <3>2. ASSUME NEW s \in Lane!SocketStates, x2' = [x2 EXCEPT !.state = s]
          PROVE  /\ x2' \in Lane!Sockets
                 /\ x2'.epoch = x2.epoch
      BY <1>1, <3>2
    <3>3. CASE x2' = [x2 EXCEPT !.state = "connecting", !.nth = @ + 1, !.retried = TRUE]
      <4>1. x2.nth + 1 \in Nat
        BY <1>1
      <4>2. x2' = [x2 EXCEPT !.state = "connecting", !.nth = x2.nth + 1,
                                     !.retried = TRUE]
        BY <3>3
      <4> QED
        BY <1>1, <3>1, <4>1, <4>2
    <3> QED
      BY <2>1, <3>2, <3>3
  <2>3. x3' \in BOOLEAN /\ x4' \in BOOLEAN /\ ~ (x3' /\ x4')
    <3>1. CASE Lane!SocketOpened \/ Lane!SocketLost
      BY <1>1, <3>1 DEF Lane!SocketOpened, Lane!SocketLost
    <3>2. CASE Lane!Unauthorized
      <4>1. x3' = x3 /\ x4' = x4
        BY <3>2 DEF Lane!Unauthorized
      <4> QED
        BY <1>1, <4>1, Zenon
    <3>3. CASE Lane!Reauthenticated
      <4>1. x3' = ~ x4 /\ x4' = x4
        BY <3>3 DEF Lane!Reauthenticated
      <4>2. x3' \in BOOLEAN /\ x4' \in BOOLEAN
        BY <1>1, <4>1
      <4>3. ~ (x3' /\ x4')
        BY <1>1, <4>1, Zenon
      <4> QED
        BY <4>2, <4>3
    <3> QED
      BY <1>5, <3>1, <3>2, <3>3
  <2> QED
    BY <1>3, <1>5, <2>2, <2>3
       DEF Lane!SocketOpened, Lane!Unauthorized, Lane!Reauthenticated, Lane!SocketLost, Lane!Kept
<1>6. CASE Lane!RawFrame \/ Lane!RawAnswered
  BY <1>1, <1>3, <1>6 DEF Lane!RawFrame, Lane!RawAnswered, Lane!Kept, Lane!Listening
<1>7. CASE \/ Lane!ConnectRefused \/ Lane!HandshakeFailed \/ Lane!Drained
           \/ Lane!SocketError \/ Lane!ClientCloses
  BY <1>7, EverythingCloses
     DEF Lane!ConnectRefused, Lane!HandshakeFailed, Lane!Drained, Lane!SocketError,
         Lane!ClientCloses
<1>8. CASE Lane!Replace
  <2>1. x7' = x7 + 1 /\ UNCHANGED <<x1, x2, x3, x4, x5, x6, x8>>
    BY <1>8 DEF Lane!Replace
  <2>2. x2.epoch \in Nat
    BY <1>1
  <2>3. x2.epoch <= x2'.epoch /\ x2'.epoch <= x7' /\ x7' \in Nat
    BY <1>1, <2>1, <2>2
  <2> QED
    BY <1>1, <2>1, <2>3, ConnectionMoves
<1>9. CASE Lane!Create \/ Lane!Terminal
  BY <1>9, CreatingBegins, TerminalSettles
<1>10. ASSUME NEW r \in LaneResponses,
              \/ Lane!Steer(r) \/ Lane!Created(r) \/ Lane!Succeeded(r) \/ Lane!Unexpected(r)
              \/ \E accepts \in BOOLEAN : Lane!SteerAnswered(r, accepts)
       PROVE  Lane!LaneInv'
  BY <1>10, ControlsMove, CreatedNames, SucceedingSpends, EverythingCloses DEF Lane!Unexpected
<1> QED
  BY <1>2, <1>4, <1>5, <1>6, <1>7, <1>8, <1>9, <1>10 DEF Lane!Next

\* The books are what the three properties say.
LEMMA SteeringIs ==
    Lane!LaneInv => Lane!LaneGivesBack /\ Lane!SuccessorsAreSteered /\ Lane!SuccessorsAreAsked
<1> SUFFICES ASSUME Lane!LaneInv,
NEW r \in LaneResponses PROVE Lane!Cardinality(Lane!Successors(r)) <= x8[r]
  BY DEF Lane!LaneInv, Lane!SuccessorsAreAsked
<1>1. Lane!Cardinality(Lane!Successors(r)) \in Nat
  BY SuccessorsAreFew DEF Lane!LaneInv
<1>2. x5.pending[r] \in Nat /\ Lane!Allowed(r) \in Nat /\ x8[r] \in Nat
  BY DEF Lane!LaneInv, Lane!LaneTyped, Lane!Allowed, Lane!Sockets, Lane!LaneStates
<1>3. Lane!Cardinality(Lane!Successors(r)) + x5.pending[r] + Lane!Allowed(r) <= x8[r]
  BY DEF Lane!LaneInv, Lane!ControlsAreSpent
<1> QED
  BY <1>1, <1>2, <1>3

-----------------------------------------------------------------------------
(* Managed: the lemmas of Accounts' AccountsInv.  x1 is the records in     *)
(* memory, x2 those on disk, x3 the lookups, x4 the ids that are gone, x5  *)
(* those that are torn and x6 whose identity may be of older credentials.  *)

\* Seats of two Codex workspaces and two people's Claude accounts; one token is
\* what a refresh makes of another.
Managed == INSTANCE Accounts WITH
    Ids <- ManagedIds, MayBe <- ManagedTypes, Tokens <- OperatorTokens, Person <- TokenPerson,
    Owner <- TokenOwner, LocalId <- TokenAccount, MaxEpoch <- TokenEpochs,
    MaxTorn <- TornAccounts,
    live <- x1, disk <- x2, lookup <- x3, gone <- x4, torn <- x5, mixed <- x6

ASSUME AccountsFit == Managed!AccountsAssumption

\* What is said of credentials is a record's.
LEMMA AuthIs ==
    ASSUME Managed!AccountsAssumption, NEW type \in Managed!Types, NEW t \in OperatorTokens,
           NEW named \in BOOLEAN
    PROVE  /\ Managed!Auth(type, t, named).account \in Managed!Accounts
           /\ Managed!Auth(type, t, named).email \in Managed!People
           /\ type = "claude" /\ named => Managed!Auth(type, t, named).account = TokenOwner[t]
           /\ type = "claude" /\ ~named => Managed!Auth(type, t, named).account = TokenAccount[t]
BY DEF Managed!AccountsAssumption, Managed!TokensHaveOwners, Managed!Auth, Managed!CodexAuth,
       Managed!ClaudeAuth, Managed!CompassAuth, Managed!Accounts,
       Managed!People, Managed!Types

\* An account that is created is sealed and has the identity of its credentials.
LEMMA EnteredIs ==
    ASSUME Managed!AccountsAssumption, NEW type \in Managed!Types, NEW t \in OperatorTokens,
           NEW named \in BOOLEAN
    PROVE  /\ Managed!Entered(type, t, named) \in Managed!Records
           /\ Managed!Entered(type, t, named).sealed
           /\ Managed!Entered(type, t, named).type = type
           /\ type = "claude" => Managed!IdentityFits(Managed!Entered(type, t, named))
<1> DEFINE r == Managed!Entered(type, t, named)
<1>1. /\ r.type = type /\ r.token = t /\ r.sealed = TRUE
      /\ r.account = Managed!Auth(type, t, named).account
  BY DEF Managed!Entered
<1>2. r \in Managed!Records
  BY AuthIs DEF Managed!Entered, Managed!Records, Managed!AccountsAssumption
<1>3. ASSUME type = "claude" PROVE Managed!IdentityFits(r)
  BY <1>1, <1>3, AuthIs DEF Managed!IdentityFits
<1> QED
  BY <1>1, <1>2, <1>3

\* A record that an update works on is open, and its type is what it was.
LEMMA OpenedIs ==
    ASSUME NEW r \in Managed!Records, NEW in \in Managed!Inputs
    PROVE  /\ Managed!Opened(r, in) \in Managed!Records /\ ~Managed!Opened(r, in).sealed
           /\ Managed!Opened(r, in).type = r.type /\ Managed!Opened(r, in).account = r.account
           /\ Managed!Opened(r, in).token = r.token /\ Managed!Opened(r, in).epoch = r.epoch
           /\ Managed!Opened(r, in).email = r.email
           /\ Managed!Opened(r, in).credits = IF in.credits = None THEN r.credits ELSE in.credits
BY DEF Managed!Opened, Managed!Records, Managed!Inputs

\* After an update the record has the identity of its credentials, or the
\* account it had and credentials that the operator left unnamed.
LEMMA ChangedIs ==
    ASSUME Managed!AccountsAssumption, NEW r \in Managed!Records, NEW in \in Managed!Inputs,
           in.token # "bad", in.token \in OperatorTokens => r.epoch < TokenEpochs
    PROVE  /\ Managed!Changed(r, in) \in Managed!Records /\ ~Managed!Changed(r, in).sealed
           /\ Managed!Changed(r, in).type = r.type
           /\ Managed!Changed(r, in).credits = IF in.credits = None THEN r.credits ELSE in.credits
           /\ in.token = None => Managed!Changed(r, in).token = r.token
                                 /\ Managed!Changed(r, in).account = r.account
           /\ in.token # None /\ in.named /\ r.type = "claude"
                => Managed!IdentityFits(Managed!Changed(r, in))
<1> DEFINE o == Managed!Opened(r, in)
<1>1. /\ o \in Managed!Records /\ ~o.sealed /\ o.type = r.type /\ o.account = r.account
      /\ o.token = r.token /\ o.epoch = r.epoch /\ o.email = r.email
      /\ o.credits = IF in.credits = None THEN r.credits ELSE in.credits
  BY OpenedIs
<1> HIDE DEF o
<1>2. CASE in.token = None
  <2>1. Managed!Changed(r, in) = o
    BY <1>2 DEF Managed!Changed, o
  <2> QED
    BY <1>1, <1>2, <2>1
<1>3. CASE in.token # None
  <2> DEFINE auth == Managed!Auth(r.type, in.token, in.named)
             keeps == r.type = "claude" /\ ~in.named
             account == IF keeps THEN o.account ELSE auth.account
             email == IF keeps \/ r.type = "compass" THEN o.email ELSE auth.email
  <2>1. in.token \in OperatorTokens /\ in.named \in BOOLEAN /\ r.type \in Managed!Types
          /\ r.epoch < TokenEpochs
    BY <1>3 DEF Managed!Inputs, Managed!Records
  <2>2. /\ auth.account \in Managed!Accounts /\ auth.email \in Managed!People
        /\ r.type = "claude" /\ in.named => auth.account = TokenOwner[in.token]
    BY <2>1, AuthIs
  <2>3. Managed!Changed(r, in) = [o EXCEPT !.token = in.token, !.epoch = @ + 1,
                                   !.account = account,
                                   !.email = email]
    BY <1>3 DEF Managed!Changed, o
  <2>4. account \in Managed!Accounts /\ email \in Managed!People
    BY <1>1, <2>2 DEF Managed!Records
  <2>5. r.type = "claude" /\ in.named => account = TokenOwner[in.token]
    BY <2>2
  <2> HIDE DEF account, email
  <2>6. o.epoch + 1 \in 1 .. TokenEpochs
    BY <1>1, <2>1 DEF Managed!Records, Managed!AccountsAssumption
  <2>7. /\ Managed!Changed(r, in) \in Managed!Records /\ ~Managed!Changed(r, in).sealed
             /\ Managed!Changed(r, in).type = r.type
        /\ Managed!Changed(r, in).credits = o.credits /\ Managed!Changed(r, in).token = in.token
        /\ Managed!Changed(r, in).account = account
    BY <1>1, <2>1, <2>3, <2>4, <2>6 DEF Managed!Records
  <2>8. in.named /\ r.type = "claude" => Managed!IdentityFits(Managed!Changed(r, in))
    BY <2>5, <2>7 DEF Managed!IdentityFits
  <2> QED
    BY <1>1, <1>3, <2>7, <2>8
<1> QED
  BY <1>2, <1>3

\* A full save keeps the tables as they are meant to be, if what it writes is.
LEMMA SaveKeeps ==
    ASSUME Managed!AccountsAssumption, Managed!AccountsInv,
           NEW f \in [ManagedIds -> Managed!Records \cup {None}],
           x1' = f, x2' = f, x5' = x5, x4' \subseteq ManagedIds,
           x3' \in [ManagedIds -> Managed!Lookups \cup {None}], x6' \in [ManagedIds -> BOOLEAN],
           \A j \in ManagedIds \ x5 : f[j] # None => f[j].sealed,
           \A j \in x5 : IF f[j] = None THEN j \in x4' ELSE ~f[j].sealed,
           x5 = {} => Managed!AgreeOn(f),
           Managed!FitOn(f, x6'),
           \A j \in ManagedIds :
             x3'[j] # None => IF f[j] = None THEN j \in x4' ELSE f[j].type = "claude"
    PROVE  Managed!AccountsInv'
<1>1. Managed!TablesFit'
  BY DEF Managed!AccountsInv, Managed!TablesFit
<1>2. Managed!OnlyTornDiffer'
  BY DEF Managed!OnlyTornDiffer
<1>3. Managed!TornAreOpen'
  BY DEF Managed!TornAreOpen
<1>4. Managed!PoliciesAgree'
  <2>1. ASSUME \A i \in x5' : x2'[i] # x1'[i] /\ x2'[i].sealed PROVE x5 = {}
    BY <2>1
  <2>2. x5 = {} => Managed!AgreeOn(x2)'
    BY DEF Managed!AgreeOn
  <2> QED
    BY <2>1, <2>2 DEF Managed!PoliciesAgree
<1>5. Managed!FitOn(x1, x6)' /\ Managed!FitOn(x2, x6)'
  BY DEF Managed!FitOn
<1>6. Managed!LookupsAreClaude'
  BY DEF Managed!LookupsAreClaude
<1> QED
  BY <1>1, <1>2, <1>3, <1>4, <1>5, <1>6 DEF Managed!AccountsInv

\* As long as no update was refused halfway, memory has one policy for each
\* workspace.
LEMMA PoliciesInMemory ==
    ASSUME Managed!AccountsInv, x5 = {}
    PROVE  x1 = x2 /\ Managed!AgreeOn(x1)
<1>1. \A i \in ManagedIds : x1[i] = x2[i]
  BY DEF Managed!AccountsInv, Managed!OnlyTornDiffer
<1>2. x1 = x2
  BY <1>1 DEF Managed!AccountsInv, Managed!TablesFit
<1>3. Managed!AgreeOn(x2)
  BY DEF Managed!AccountsInv, Managed!PoliciesAgree
<1> QED
  BY <1>2, <1>3

\* One sealed record is entered or replaced.
LEMMA OneChanges ==
    ASSUME Managed!AccountsAssumption, Managed!AccountsInv, NEW i \in ManagedIds,
           NEW r \in Managed!Records,
           i \notin x5, r.sealed,
           x1' = [x1 EXCEPT ![i] = r], x2' = [x1 EXCEPT ![i] = r],
           x5' = x5, x4' = x4, x3' \in [ManagedIds -> Managed!Lookups \cup {None}],
           \A j \in ManagedIds \ {i} : x3'[j] = x3[j], x3'[i] # None => r.type = "claude",
           x6' \in [ManagedIds -> BOOLEAN], \A j \in ManagedIds \ {i} : x6'[j] = x6[j],
           r.type = "claude" /\ ~x6'[i] => Managed!IdentityFits(r),
           x5 = {} /\ r.type = "codex" =>
             \A j \in ManagedIds \ {i} :
               x1[j] # None /\ x1[j].type = "codex" /\ x1[j].account = r.account
                 => x1[j].credits = r.credits
    PROVE  Managed!AccountsInv'
<1> DEFINE f == [x1 EXCEPT ![i] = r]
<1>1. /\ f \in [ManagedIds -> Managed!Records \cup {None}] /\ f[i] = r
      /\ \A j \in ManagedIds \ {i} : f[j] = x1[j]
      /\ r # None
  BY DEF Managed!AccountsInv, Managed!TablesFit, Managed!AccountsAssumption
<1>2. x1' = f /\ x2' = f
  OBVIOUS
<1> HIDE DEF f
<1>3. \A j \in ManagedIds \ x5 : f[j] # None => f[j].sealed
  BY <1>1 DEF Managed!AccountsInv, Managed!OnlyTornDiffer
<1>4. \A j \in x5 : IF f[j] = None THEN j \in x4' ELSE ~f[j].sealed
  BY <1>1 DEF Managed!AccountsInv, Managed!TornAreOpen, Managed!TablesFit
<1>5. x5 = {} => Managed!AgreeOn(f)
  BY <1>1, PoliciesInMemory DEF Managed!AgreeOn
<1>6. Managed!FitOn(f, x6')
  <2> SUFFICES ASSUME NEW j \in ManagedIds, f[j] # None, f[j].type = "claude", f[j].sealed,
  ~x6'[j]
               PROVE  Managed!IdentityFits(f[j])
    BY DEF Managed!FitOn
  <2>1. CASE j = i
    BY <1>1, <2>1
  <2>2. CASE j # i
    BY <1>1, <2>2 DEF Managed!AccountsInv, Managed!FitOn
  <2> QED
    BY <2>1, <2>2
<1>7. x4' \subseteq ManagedIds
  BY DEF Managed!AccountsInv, Managed!TablesFit
<1>8. \A j \in ManagedIds :
        x3'[j] # None => IF f[j] = None THEN j \in x4' ELSE f[j].type = "claude"
  BY <1>1 DEF Managed!AccountsInv, Managed!LookupsAreClaude
<1> QED
  BY <1>1, <1>2, <1>3, <1>4, <1>5, <1>6, <1>7, <1>8, SaveKeeps

\* A lookup reads with what the record holds, and is of a Claude account.
LEMMA LookingIs ==
    ASSUME Managed!AccountsInv, NEW i \in ManagedIds, NEW r \in Managed!Records
    PROVE  /\ [x3 EXCEPT ![i] = Managed!Looking(i,
                  r)] \in [ManagedIds -> Managed!Lookups \cup {None}]
           /\ \A j \in ManagedIds \ {i} : [x3 EXCEPT ![i] = Managed!Looking(i, r)][j] = x3[j]
           /\ /\ [x3 EXCEPT ![i] = Managed!Looking(i, r)][i] # None
              /\ x1[i] = None => i \notin x4
              /\ x1[i] # None => x1[i].type = r.type
              => r.type = "claude"
<1>1. Managed!Looking(i, r) \in Managed!Lookups \cup {None}
  BY DEF Managed!AccountsInv, Managed!TablesFit, Managed!Looking, Managed!Lookups, Managed!Records
<1>2. /\ [x3 EXCEPT ![i] = Managed!Looking(i, r)] \in [ManagedIds -> Managed!Lookups \cup {None}]
      /\ [x3 EXCEPT ![i] = Managed!Looking(i, r)][i] = Managed!Looking(i, r)
      /\ \A j \in ManagedIds \ {i} : [x3 EXCEPT ![i] = Managed!Looking(i, r)][j] = x3[j]
  BY <1>1 DEF Managed!AccountsInv, Managed!TablesFit
<1>3. ASSUME Managed!Looking(i, r) # None, x1[i] = None => i \notin x4,
             x1[i] # None => x1[i].type = r.type
      PROVE  r.type = "claude"
  BY <1>3 DEF Managed!Looking, Managed!AccountsInv, Managed!LookupsAreClaude
<1> QED
  BY <1>2, <1>3

\* An account is created.
LEMMA CreateKeeps ==
    ASSUME Managed!AccountsAssumption, Managed!AccountsInv, NEW i \in ManagedIds,
           NEW type \in Managed!Types,
           NEW t \in OperatorTokens, NEW named \in BOOLEAN, NEW credits \in BOOLEAN,
           Managed!Create(i, type, t, named, credits)
    PROVE  Managed!AccountsInv'
<1> DEFINE r == Managed!Entered(type, t, named)
           siblings == IF type = "codex" THEN Managed!Siblings(x1, r.account) ELSE {}
<1>1. /\ x1[i] = None /\ i \notin x4 /\ UNCHANGED <<x4, x5, x6>>
      /\ x3' = [x3 EXCEPT ![i] = Managed!Looking(i, r)]
  BY DEF Managed!Create
<1>2. PICK c \in BOOLEAN :
        /\ Managed!Save([x1 EXCEPT ![i] = [r EXCEPT !.credits = c]])
        /\ siblings = {} \/ \E j \in siblings : c = x1[j].credits
  <2>1. CASE /\ siblings = {}
             /\ Managed!Save([x1 EXCEPT ![i] = [r EXCEPT !.credits = credits]])
    BY <2>1
  <2>2. CASE \E j \in siblings :
               Managed!Save([x1 EXCEPT ![i] = [r EXCEPT !.credits = x1[j].credits]])
    <3>1. PICK j \in siblings :
            Managed!Save([x1 EXCEPT ![i] = [r EXCEPT !.credits = x1[j].credits]])
      BY <2>2
    <3>2. x1[j] \in Managed!Records
      BY DEF Managed!Siblings, Managed!AccountsInv, Managed!TablesFit
    <3>3. x1[j].credits \in BOOLEAN
      BY <3>2 DEF Managed!Records
    <3> QED
      BY <3>1, <3>3
  <2> QED
    BY <2>1, <2>2 DEF Managed!Create
<1>3. /\ r \in Managed!Records /\ r.sealed /\ r.type = type
      /\ type = "claude" => Managed!IdentityFits(r)
  BY EnteredIs
<1> HIDE DEF r
<1> DEFINE s == [r EXCEPT !.credits = c]
<1>4. /\ s \in Managed!Records /\ s.sealed /\ s.type = type /\ s.account = r.account
           /\ s.token = r.token
      /\ s.credits = c
  BY <1>3 DEF Managed!Records
<1>5. i \notin x5
  BY <1>1 DEF Managed!AccountsInv, Managed!TornAreOpen
<1>6. type = "claude" => Managed!IdentityFits(s)
  BY <1>3, <1>4 DEF Managed!IdentityFits
<1>7. ASSUME x5 = {}, type = "codex",
             NEW j \in ManagedIds \ {i}, x1[j] # None, x1[j].type = "codex",
             x1[j].account = s.account
      PROVE  x1[j].credits = s.credits
  <2>1. j \in siblings
    BY <1>4, <1>7 DEF Managed!Siblings
  <2>2. PICK k \in siblings : c = x1[k].credits
    BY <1>2, <2>1
  <2>3. /\ k \in ManagedIds /\ x1[k] # None /\ x1[k].type = "codex" /\ x1[k].account = r.account
    BY <1>7 DEF Managed!Siblings
  <2>4. Managed!AgreeOn(x1)
    BY <1>7, PoliciesInMemory
  <2> QED
    BY <1>4, <1>7, <2>2, <2>3, <2>4 DEF Managed!AgreeOn
<1>8. /\ x3' \in [ManagedIds -> Managed!Lookups \cup {None}]
      /\ \A j \in ManagedIds \ {i} : x3'[j] = x3[j]
      /\ x3'[i] # None => s.type = "claude"
  BY <1>1, <1>3, <1>4, LookingIs
<1>9. x1' = [x1 EXCEPT ![i] = s] /\ x2' = [x1 EXCEPT ![i] = s]
  BY <1>2 DEF Managed!Save
<1>10. x6' \in [ManagedIds -> BOOLEAN] /\ x6' = x6
  BY <1>1 DEF Managed!AccountsInv, Managed!TablesFit
<1> HIDE DEF s
<1> QED
  BY <1>1, <1>4, <1>5, <1>6, <1>7, <1>8, <1>9, <1>10, OneChanges

\* A record with other tokens, field by field.
LEMMA RotatedIs ==
    ASSUME Managed!AccountsAssumption, NEW r \in Managed!Records, NEW t \in OperatorTokens,
           r.epoch < TokenEpochs
    PROVE  /\ Managed!Rotated(r, t) \in Managed!Records /\ Managed!Rotated(r, t).sealed = r.sealed
           /\ Managed!Rotated(r, t).type = r.type /\ Managed!Rotated(r, t).account = r.account
           /\ Managed!Rotated(r, t).token = t /\ Managed!Rotated(r, t).credits = r.credits
<1>1. r.epoch + 1 \in 1 .. TokenEpochs
  BY DEF Managed!Records, Managed!AccountsAssumption
<1> QED
  BY <1>1 DEF Managed!Rotated, Managed!Records

\* A record with the identity that was found, field by field.
LEMMA IdentifiedIs ==
    ASSUME NEW r \in Managed!Records, NEW l \in Managed!Lookups
    PROVE  /\ Managed!Identified(r, l) \in Managed!Records
                /\ Managed!Identified(r, l).sealed = r.sealed
           /\ Managed!Identified(r, l).type = r.type
                /\ Managed!Identified(r, l).account = TokenOwner[l.token]
           /\ Managed!Identified(r, l).token = r.token
                /\ Managed!Identified(r, l).credits = r.credits
<1>1. l.token \in OperatorTokens /\ TokenOwner[l.token] \in Managed!Accounts
        /\ TokenPerson[l.token] \in Managed!People
  BY DEF Managed!Lookups, Managed!Accounts, Managed!People
<1> QED
  BY <1>1 DEF Managed!Identified, Managed!Records

\* A refresh saves other tokens of the same owner.
LEMMA RotateKeeps ==
    ASSUME Managed!AccountsAssumption, Managed!AccountsInv, NEW i \in ManagedIds,
           NEW t \in OperatorTokens, Managed!Rotate(i, t)
    PROVE  Managed!AccountsInv'
<1> DEFINE s == Managed!Rotated(x1[i], t)
<1>1. /\ x1[i] # None /\ x1[i].sealed /\ x1[i].epoch < TokenEpochs
      /\ TokenOwner[t] = TokenOwner[x1[i].token]
      /\ x1' = [x1 EXCEPT ![i] = s] /\ x2' = [x1 EXCEPT ![i] = s]
      /\ UNCHANGED <<x3, x4, x5, x6>>
  BY DEF Managed!Rotate, Managed!Present, Managed!Save
<1>2. x1[i] \in Managed!Records
  BY <1>1 DEF Managed!AccountsInv, Managed!TablesFit
<1>3. /\ s \in Managed!Records /\ s.sealed /\ s.type = x1[i].type /\ s.account = x1[i].account
      /\ s.token = t /\ s.credits = x1[i].credits
  BY <1>1, <1>2, RotatedIs
<1> HIDE DEF s
<1>4. i \notin x5
  BY <1>1 DEF Managed!AccountsInv, Managed!TornAreOpen
<1>5. ASSUME s.type = "claude", ~x6'[i] PROVE Managed!IdentityFits(s)
  <2>1. Managed!IdentityFits(x1[i])
    BY <1>1, <1>3, <1>5 DEF Managed!AccountsInv, Managed!FitOn
  <2> QED
    BY <1>1, <1>3, <2>1 DEF Managed!IdentityFits
<1>6. ASSUME x5 = {}, s.type = "codex",
             NEW j \in ManagedIds \ {i}, x1[j] # None, x1[j].type = "codex",
             x1[j].account = s.account
      PROVE  x1[j].credits = s.credits
  <2>1. Managed!AgreeOn(x1)
    BY <1>6, PoliciesInMemory
  <2> QED
    BY <1>1, <1>3, <1>6, <2>1 DEF Managed!AgreeOn
<1>7. /\ x6' \in [ManagedIds -> BOOLEAN] /\ x6' = x6
      /\ x3' \in [ManagedIds -> Managed!Lookups \cup {None}] /\ x3' = x3
      /\ x3[i] # None => s.type = "claude"
  BY <1>1, <1>3 DEF Managed!AccountsInv, Managed!TablesFit, Managed!LookupsAreClaude
<1> QED
  BY <1>1, <1>3, <1>4, <1>5, <1>6, <1>7, OneChanges

\* The provider's answer to a lookup is saved where it is of the credentials
\* the account has.
LEMMA LookedKeeps ==
    ASSUME Managed!AccountsAssumption, Managed!AccountsInv, NEW i \in ManagedIds,
           NEW b \in BOOLEAN, Managed!Looked(i, b)
    PROVE  Managed!AccountsInv'
<1> DEFINE l == x3[i]
           s == Managed!Identified(x1[i], l)
<1>1. /\ l # None /\ x3' = [x3 EXCEPT ![i] = None] /\ UNCHANGED <<x4, x5>>
      /\ \/ UNCHANGED <<x1, x2, x6>>
         \/ /\ x1[i] # None /\ x1[i].sealed /\ Managed!Fenced(x1[i], l)
            /\ x1' = [x1 EXCEPT ![i] = s] /\ x2' = [x1 EXCEPT ![i] = s]
            /\ x6' = [x6 EXCEPT ![i] = FALSE]
  BY DEF Managed!Looked, Managed!Present, Managed!Save
<1>2. l \in Managed!Lookups /\ x3' \in [ManagedIds -> Managed!Lookups \cup {None}]
  BY <1>1 DEF Managed!AccountsInv, Managed!TablesFit
<1>3. CASE UNCHANGED <<x1, x2, x6>>
  BY <1>1, <1>2, <1>3
     DEF Managed!AccountsInv, Managed!TablesFit, Managed!OnlyTornDiffer, Managed!TornAreOpen,
         Managed!PoliciesAgree,
                         Managed!AgreeOn, Managed!FitOn, Managed!LookupsAreClaude
<1>4. CASE /\ x1[i] # None /\ x1[i].sealed /\ Managed!Fenced(x1[i], l)
           /\ x1' = [x1 EXCEPT ![i] = s] /\ x2' = [x1 EXCEPT ![i] = s]
           /\ x6' = [x6 EXCEPT ![i] = FALSE]
  <2>1. x1[i] \in Managed!Records /\ l.token = x1[i].token /\ l.token \in OperatorTokens
    BY <1>2, <1>4 DEF Managed!AccountsInv, Managed!TablesFit, Managed!Fenced, Managed!Lookups
  <2>2. /\ s \in Managed!Records /\ s.sealed /\ s.type = x1[i].type
             /\ s.account = TokenOwner[l.token]
        /\ s.token = l.token /\ s.credits = x1[i].credits
    BY <1>2, <1>4, <2>1, IdentifiedIs
  <2> HIDE DEF s
  <2>3. i \notin x5
    BY <1>4 DEF Managed!AccountsInv, Managed!TornAreOpen
  <2>4. Managed!IdentityFits(s)
    BY <2>2 DEF Managed!IdentityFits
  <2>5. x6' \in [ManagedIds -> BOOLEAN] /\ \A j \in ManagedIds \ {i} : x6'[j] = x6[j]
    BY <1>4 DEF Managed!AccountsInv, Managed!TablesFit
  <2>6. s.type = "claude" /\ x3'[i] = None /\ \A j \in ManagedIds \ {i} : x3'[j] = x3[j]
    BY <1>1, <1>4, <2>2 DEF Managed!AccountsInv, Managed!LookupsAreClaude, Managed!TablesFit
  <2> QED
    BY <1>1, <1>2, <1>4, <2>2, <2>3, <2>4, <2>5, <2>6, OneChanges
<1> QED
  BY <1>1, <1>3, <1>4

\* What an update saves is sealed, with the credits it was given.
LEMMA SavedIs ==
    ASSUME NEW r \in Managed!Records, NEW c \in BOOLEAN
    PROVE  /\ Managed!Saved(r, c) \in Managed!Records /\ Managed!Saved(r, c).sealed
                /\ Managed!Saved(r, c).credits = c
           /\ Managed!Saved(r, c).type = r.type /\ Managed!Saved(r, c).account = r.account
           /\ Managed!Saved(r, c).token = r.token
BY DEF Managed!Saved, Managed!Records

\* The credits of an account after an update are those the operator gave, those
\* it had or those of its new siblings.
LEMMA InheritedIs ==
    ASSUME Managed!AccountsInv, NEW i \in ManagedIds, x1[i] # None, NEW r \in Managed!Records,
           NEW in \in Managed!Inputs,
           NEW c \in Managed!Inherited(i, r, in)
    PROVE  /\ c \in BOOLEAN
           /\ r.type # "codex" \/ r.account = x1[i].account \/ in.credits # None => c = r.credits
           /\ r.type = "codex" /\ r.account # x1[i].account /\ in.credits = None =>
                \/ Managed!Siblings(x1, r.account) \ {i} = {}
                \/ \E k \in Managed!Siblings(x1, r.account) \ {i} : c = x1[k].credits
<1>1. r.credits \in BOOLEAN
  BY DEF Managed!Records
<1>2. \A k \in Managed!Siblings(x1, r.account) : x1[k].credits \in BOOLEAN
  BY DEF Managed!AccountsInv, Managed!TablesFit, Managed!Siblings, Managed!Records
<1>3. CASE r.type # "codex" \/ r.account = x1[i].account \/ in.credits # None
  BY <1>1, <1>3 DEF Managed!Inherited
<1>4. CASE ~(r.type # "codex" \/ r.account = x1[i].account \/ in.credits # None)
  <2>1. CASE Managed!Siblings(x1, r.account) \ {i} = {}
    <3>1. c = FALSE
      BY <1>4, <2>1 DEF Managed!Inherited
    <3> QED
      BY <1>4, <2>1, <3>1
  <2>2. CASE Managed!Siblings(x1, r.account) \ {i} # {}
    <3>1. \E k \in Managed!Siblings(x1, r.account) \ {i} : c = x1[k].credits
      BY <1>4, <2>2 DEF Managed!Inherited
    <3>2. c \in BOOLEAN
      BY <1>2, <3>1
    <3> QED
      BY <1>4, <3>1, <3>2
  <2> QED
    BY <2>1, <2>2
<1> QED
  BY <1>3, <1>4

\* An account is updated.
LEMMA UpdateKeeps ==
    ASSUME Managed!AccountsAssumption, Managed!AccountsInv, NEW i \in ManagedIds,
           NEW in \in Managed!Inputs, Managed!Update(i, in)
    PROVE  Managed!AccountsInv'
<1> DEFINE r == Managed!Changed(x1[i], in)
<1>1. /\ x1[i] # None /\ x1[i].sealed /\ in.token # "bad"
      /\ in.token \in OperatorTokens => x1[i].epoch < TokenEpochs
      /\ in.credits # None => x1[i].type = "codex"
      /\ UNCHANGED <<x4, x5>>
      /\ x6' = IF in.token = None \/ x1[i].type = "codex" THEN x6
                  ELSE [x6 EXCEPT ![i] = ~in.named]
  BY DEF Managed!Update, Managed!MayUpdate, Managed!RefusedEarly, Managed!RefusedHalfway,
         Managed!Present
<1>2. x1[i] \in Managed!Records
  BY <1>1 DEF Managed!AccountsInv, Managed!TablesFit
<1>3. /\ r \in Managed!Records /\ r.type = x1[i].type
      /\ r.credits = IF in.credits = None THEN x1[i].credits ELSE in.credits
      /\ in.token = None => r.token = x1[i].token /\ r.account = x1[i].account
      /\ in.token # None /\ in.named /\ r.type = "claude" => Managed!IdentityFits(r)
  BY <1>1, <1>2, ChangedIs
<1>4. PICK c \in Managed!Inherited(i, r, in) :
        /\ Managed!Save([j \in ManagedIds |->
                   IF j = i THEN Managed!Saved(r, c)
                   ELSE IF j \in (IF in.credits = None THEN {} ELSE Managed!Siblings(x1,
                   r.account) \ {i})
                        THEN [x1[j] EXCEPT !.credits = c]
                   ELSE x1[j]])
        /\ x3' = IF in.token = None THEN x3
                     ELSE [x3 EXCEPT ![i] = Managed!Looking(i, Managed!Saved(r, c))]
  BY DEF Managed!Update
<1> DEFINE siblings == IF in.credits = None THEN {} ELSE Managed!Siblings(x1, r.account) \ {i}
           saved == Managed!Saved(r, c)
           f == [j \in ManagedIds |-> IF j = i THEN saved
                              ELSE IF j \in siblings THEN [x1[j] EXCEPT !.credits = c]
                              ELSE x1[j]]
<1>5. x1' = f /\ x2' = f
  BY <1>4 DEF Managed!Save
<1>6. /\ c \in BOOLEAN
      /\ r.type # "codex" \/ r.account = x1[i].account \/ in.credits # None => c = r.credits
      /\ r.type = "codex" /\ r.account # x1[i].account /\ in.credits = None =>
           \/ Managed!Siblings(x1, r.account) \ {i} = {}
           \/ \E k \in Managed!Siblings(x1, r.account) \ {i} : c = x1[k].credits
  BY <1>1, <1>3, <1>4, InheritedIs
<1> HIDE DEF r
<1>7. /\ saved \in Managed!Records /\ saved.sealed /\ saved.credits = c /\ saved.type = r.type
      /\ saved.account = r.account /\ saved.token = r.token
  BY <1>3, <1>6, SavedIs
<1>8. /\ x3' \in [ManagedIds -> Managed!Lookups \cup {None}]
      /\ \A j \in ManagedIds \ {i} : x3'[j] = x3[j]
      /\ x3'[i] # None => saved.type = "claude"
  <2>1. CASE in.token = None
    BY <1>1, <1>3, <1>4, <1>7, <2>1
       DEF Managed!AccountsInv, Managed!TablesFit, Managed!LookupsAreClaude
  <2>2. CASE in.token # None
    BY <1>1, <1>3, <1>4, <1>7, <2>2, LookingIs
  <2> QED
    BY <2>1, <2>2
<1>9. i \notin x5
  BY <1>1 DEF Managed!AccountsInv, Managed!TornAreOpen
<1>10. x6' \in [ManagedIds -> BOOLEAN] /\ \A j \in ManagedIds \ {i} : x6'[j] = x6[j]
  <2>1. CASE in.token = None \/ x1[i].type = "codex"
    BY <1>1, <2>1 DEF Managed!AccountsInv, Managed!TablesFit
  <2>2. CASE ~(in.token = None \/ x1[i].type = "codex")
    <3>1. in.named \in BOOLEAN
      BY DEF Managed!Inputs
    <3>2. x6' = [x6 EXCEPT ![i] = ~in.named]
      BY <1>1, <2>2
    <3> QED
      BY <3>1, <3>2 DEF Managed!AccountsInv, Managed!TablesFit
  <2> QED
    BY <2>1, <2>2
<1>11. ASSUME saved.type = "claude", ~x6'[i] PROVE Managed!IdentityFits(saved)
  <2>1. CASE in.token = None
    <3>1. Managed!IdentityFits(x1[i]) /\ saved.token = x1[i].token
            /\ saved.account = x1[i].account
      BY <1>1, <1>3, <1>7, <1>11, <2>1 DEF Managed!AccountsInv, Managed!FitOn
    <3> QED
      BY <3>1 DEF Managed!IdentityFits
  <2>2. CASE in.token # None
    <3>1. x6' = [x6 EXCEPT ![i] = ~in.named] /\ in.named \in BOOLEAN
      BY <1>1, <1>3, <1>7, <1>11, <2>2 DEF Managed!Inputs
    <3>2. in.named
      BY <1>11, <3>1 DEF Managed!AccountsInv, Managed!TablesFit
    <3>3. Managed!IdentityFits(r)
      BY <1>3, <1>7, <1>11, <2>2, <3>2
    <3> QED
      BY <1>7, <3>3 DEF Managed!IdentityFits
  <2> QED
    BY <2>1, <2>2
<1> HIDE DEF saved
<1>12. CASE in.credits = None
  <2>1. f = [x1 EXCEPT ![i] = saved]
    BY <1>12 DEF Managed!AccountsInv, Managed!TablesFit
  <2>2. ASSUME x5 = {}, saved.type = "codex", NEW j \in ManagedIds \ {i},
               x1[j] # None, x1[j].type = "codex", x1[j].account = saved.account
        PROVE  x1[j].credits = saved.credits
    <3>1. Managed!AgreeOn(x1)
      BY <2>2, PoliciesInMemory
    <3>2. j \in Managed!Siblings(x1, r.account) \ {i}
      BY <1>7, <2>2 DEF Managed!Siblings
    <3>3. CASE r.account = x1[i].account
      BY <1>1, <1>3, <1>6, <1>7, <1>12, <2>2, <3>1, <3>3 DEF Managed!AgreeOn
    <3>4. CASE r.account # x1[i].account
      <4>1. PICK k \in Managed!Siblings(x1, r.account) \ {i} : c = x1[k].credits
        BY <1>6, <1>7, <1>12, <2>2, <3>2, <3>4
      <4>2. k \in ManagedIds /\ x1[k] # None /\ x1[k].type = "codex" /\ x1[k].account = r.account
        BY <4>1 DEF Managed!Siblings
      <4> QED
        BY <1>7, <2>2, <3>1, <4>1, <4>2 DEF Managed!AgreeOn
    <3> QED
      BY <3>3, <3>4
  <2> HIDE DEF f
  <2> QED
    BY <1>1, <1>5, <1>7, <1>8, <1>9, <1>10, <1>11, <2>1, <2>2, OneChanges
<1>13. CASE in.credits # None
  <2>1. /\ saved.type = "codex" /\ x1[i].type = "codex"
        /\ siblings = Managed!Siblings(x1, r.account) \ {i}
    BY <1>1, <1>3, <1>7, <1>13
  <2>2. ASSUME NEW j \in siblings
        PROVE  /\ j \in ManagedIds /\ j # i /\ x1[j] # None /\ f[j] \in Managed!Records
                    /\ f[j].credits = c
               /\ f[j].sealed = x1[j].sealed /\ f[j].type = x1[j].type
               /\ x1[j].type = "codex" /\ f[j].account = x1[j].account
               /\ f[j].token = x1[j].token
    <3>1. j \in ManagedIds /\ j # i /\ x1[j] # None /\ x1[j].type = "codex"
      BY <2>1 DEF Managed!Siblings
    <3>2. x1[j] \in Managed!Records /\ f[j] = [x1[j] EXCEPT !.credits = c]
      BY <3>1 DEF Managed!AccountsInv, Managed!TablesFit
    <3> HIDE DEF f, siblings
    <3> QED
      BY <1>6, <3>1, <3>2 DEF Managed!Records
  <2>3. /\ f[i] = saved /\ \A j \in ManagedIds \ (siblings \cup {i}) : f[j] = x1[j]
        /\ DOMAIN f = ManagedIds /\ f = [j \in ManagedIds |-> f[j]]
    OBVIOUS
  <2>4. \A j \in ManagedIds \ {i} : x1[j] # None /\ x1[j].type = "codex"
                              /\ x1[j].account = r.account => j \in siblings
    BY <2>1 DEF Managed!Siblings
  <2>5. i \notin siblings /\ siblings \subseteq ManagedIds /\ saved # None
    BY <1>7, <2>1 DEF Managed!Siblings, Managed!AccountsAssumption
  <2> HIDE DEF f, siblings
  <2>6. \A j \in ManagedIds : f[j] \in Managed!Records \cup {None}
    BY <1>7, <2>2, <2>3 DEF Managed!AccountsInv, Managed!TablesFit
  <2>7. f \in [ManagedIds -> Managed!Records \cup {None}]
    BY <2>3, <2>6
  <2> DEFINE SameRecord(j) ==
          /\ (f[j] = None) = (x1[j] = None)
          /\ x1[j] # None =>
                f[j].sealed = x1[j].sealed /\ f[j].type = x1[j].type
                    /\ f[j].account = x1[j].account /\ f[j].token = x1[j].token
  <2>8. \A j \in ManagedIds \ {i} : SameRecord(j)
    <3> SUFFICES ASSUME NEW j \in ManagedIds \ {i} PROVE SameRecord(j)
      OBVIOUS
    <3>1. CASE j \in siblings
      BY <2>2, <3>1 DEF Managed!AccountsAssumption
    <3>2. CASE j \notin siblings
      BY <2>3, <3>2
    <3> QED
      BY <3>1, <3>2
  <2>9. \A j \in ManagedIds \ x5 : f[j] # None => f[j].sealed
    BY <1>7, <2>3, <2>8 DEF Managed!AccountsInv, Managed!OnlyTornDiffer
  <2>10. \A j \in x5 : IF f[j] = None THEN j \in x4' ELSE ~f[j].sealed
    BY <1>1, <1>9, <2>8 DEF Managed!AccountsInv, Managed!TornAreOpen, Managed!TablesFit
  <2>11. x5 = {} => Managed!AgreeOn(f)
    <3> SUFFICES ASSUME x5 = {}, NEW j \in ManagedIds, NEW k \in ManagedIds,
                        f[j] # None, f[j].type = "codex", f[k] # None, f[k].type = "codex",
                        f[j].account = f[k].account
                 PROVE  f[j].credits = f[k].credits
      BY DEF Managed!AgreeOn
    <3>1. Managed!AgreeOn(x1)
      BY PoliciesInMemory
    <3>2. CASE f[j].account = r.account
      <4>1. j = i \/ j \in siblings
        BY <2>4, <2>8, <3>2
      <4>2. k = i \/ k \in siblings
        BY <2>4, <2>8, <3>2
      <4> QED
        BY <1>7, <2>2, <2>3, <4>1, <4>2
    <3>3. CASE f[j].account # r.account
      <4>1. j # i /\ k # i
        BY <1>7, <2>3, <3>3
      <4>2. j \notin siblings /\ k \notin siblings
        <5>1. \A m \in siblings : f[m].account = r.account
          BY <2>1, <2>2 DEF Managed!Siblings
        <5> QED
          BY <3>3, <5>1
      <4>3. f[j] = x1[j] /\ f[k] = x1[k]
        BY <2>3, <4>1, <4>2
      <4> QED
        BY <3>1, <4>3 DEF Managed!AgreeOn
    <3> QED
      BY <3>2, <3>3
  <2>12. Managed!FitOn(f, x6')
    <3> SUFFICES ASSUME NEW j \in ManagedIds, f[j] # None, f[j].type = "claude", f[j].sealed,
    ~x6'[j]
                 PROVE  Managed!IdentityFits(f[j])
      BY DEF Managed!FitOn
    <3>1. j # i /\ j \notin siblings
      BY <2>1, <2>2, <2>3
    <3>2. f[j] = x1[j] /\ ~x6[j]
      BY <1>10, <2>3, <3>1
    <3> QED
      BY <3>2 DEF Managed!AccountsInv, Managed!FitOn
  <2>13. \A j \in ManagedIds :
           x3'[j] # None => IF f[j] = None THEN j \in x4' ELSE f[j].type = "claude"
    <3> SUFFICES ASSUME NEW j \in ManagedIds, x3'[j] # None
                 PROVE  IF f[j] = None THEN j \in x4' ELSE f[j].type = "claude"
      OBVIOUS
    <3>1. CASE j = i
      BY <1>8, <2>3, <2>5, <3>1
    <3>2. CASE j # i
      BY <1>1, <1>8, <2>8, <3>2 DEF Managed!AccountsInv, Managed!LookupsAreClaude
    <3> QED
      BY <3>1, <3>2
  <2>14. x4' \subseteq ManagedIds /\ x5' = x5
    BY <1>1 DEF Managed!AccountsInv, Managed!TablesFit
  <2> QED
    BY <1>5, <1>8, <1>10, <2>7, <2>9, <2>10, <2>11, <2>12, <2>13, <2>14, SaveKeeps
<1> QED
  BY <1>12, <1>13

\* Nothing but memory changes when an update is refused halfway.
LEMMA RefuseKeeps ==
    ASSUME Managed!AccountsAssumption, Managed!AccountsInv, NEW i \in ManagedIds,
           NEW in \in Managed!Inputs,
           Managed!RefuseHalfway(i, in)
    PROVE  Managed!AccountsInv'
<1> DEFINE s == IF in.token = "bad" THEN Managed!Opened(x1[i], in) ELSE Managed!Changed(x1[i], in)
<1>1. /\ x1[i] # None /\ x1[i].sealed /\ x1' = [x1 EXCEPT ![i] = s]
      /\ in.token \in OperatorTokens => x1[i].epoch < TokenEpochs
      /\ x5' = x5 \cup {i} /\ UNCHANGED <<x2, x3, x4, x6>>
  BY DEF Managed!RefuseHalfway, Managed!MayUpdate, Managed!RefusedEarly, Managed!Present
<1>2. x1[i] \in Managed!Records
  BY <1>1 DEF Managed!AccountsInv, Managed!TablesFit
<1>3. s \in Managed!Records /\ ~s.sealed /\ s.type = x1[i].type
  BY <1>1, <1>2, OpenedIs, ChangedIs
<1> HIDE DEF s
<1>4. s # None
  BY <1>3 DEF Managed!AccountsAssumption
<1>5. i \notin x5
  BY <1>1 DEF Managed!AccountsInv, Managed!TornAreOpen
<1>6. Managed!TablesFit'
  BY <1>1, <1>3 DEF Managed!AccountsInv, Managed!TablesFit
<1>7. \A j \in ManagedIds : x1'[j] = IF j = i THEN s ELSE x1[j]
  BY <1>1 DEF Managed!AccountsInv, Managed!TablesFit
<1>8. Managed!OnlyTornDiffer' /\ Managed!TornAreOpen' /\ Managed!LookupsAreClaude'
  BY <1>1, <1>3, <1>4, <1>7
     DEF Managed!AccountsInv, Managed!TablesFit, Managed!OnlyTornDiffer, Managed!TornAreOpen,
         Managed!LookupsAreClaude
<1>9. Managed!PoliciesAgree'
  <2> SUFFICES ASSUME \A j \in x5' : x2'[j] # x1'[j] /\ x2'[j].sealed
               PROVE  Managed!AgreeOn(x2)'
    BY DEF Managed!PoliciesAgree
  <2>1. \A j \in x5 : x2[j] # x1[j] /\ x2[j].sealed
    BY <1>1, <1>5, <1>7 DEF Managed!AccountsInv, Managed!TablesFit
  <2>2. Managed!AgreeOn(x2)
    BY <2>1 DEF Managed!AccountsInv, Managed!PoliciesAgree
  <2> QED
    BY <1>1, <2>2 DEF Managed!AgreeOn
<1>10. Managed!FitOn(x1, x6)' /\ Managed!FitOn(x2, x6)'
  <2>1. Managed!FitOn(x2, x6)'
    BY <1>1 DEF Managed!AccountsInv, Managed!FitOn
  <2>2. Managed!FitOn(x1, x6)'
    BY <1>1, <1>3, <1>7 DEF Managed!AccountsInv, Managed!FitOn
  <2> QED
    BY <2>1, <2>2
<1> QED
  BY <1>6, <1>8, <1>9, <1>10 DEF Managed!AccountsInv

\* What an update was refused is on disk as the other records are, or is
\* forgotten with the process.
LEMMA RestartKeeps ==
    ASSUME Managed!AccountsAssumption, Managed!AccountsInv, Managed!Restart
    PROVE  Managed!AccountsInv'
<1>1. /\ x1' = x2 /\ x3' = [i \in ManagedIds |-> None] /\ UNCHANGED <<x2, x4, x6>>
      /\ x5' = {i \in x5 : x2[i] # x1[i] => ~x2[i].sealed}
  BY DEF Managed!Restart
<1>2. Managed!TablesFit'
  BY <1>1 DEF Managed!AccountsInv, Managed!TablesFit
<1>3. Managed!OnlyTornDiffer'
  BY <1>1 DEF Managed!AccountsInv, Managed!OnlyTornDiffer, Managed!TablesFit
<1>4. Managed!TornAreOpen'
  BY <1>1 DEF Managed!AccountsInv, Managed!OnlyTornDiffer, Managed!TornAreOpen, Managed!TablesFit
<1>5. Managed!PoliciesAgree'
  <2> SUFFICES ASSUME \A j \in x5' : x2'[j] # x1'[j] /\ x2'[j].sealed
               PROVE  Managed!AgreeOn(x2)'
    BY DEF Managed!PoliciesAgree
  <2>1. x5' = {}
    BY <1>1
  <2>2. \A j \in x5 : x2[j] # x1[j] /\ x2[j].sealed
    BY <1>1, <2>1
  <2>3. Managed!AgreeOn(x2)
    BY <2>2 DEF Managed!AccountsInv, Managed!PoliciesAgree
  <2> QED
    BY <1>1, <2>3 DEF Managed!AgreeOn
<1>6. Managed!FitOn(x1, x6)' /\ Managed!FitOn(x2, x6)'
  BY <1>1 DEF Managed!AccountsInv, Managed!FitOn
<1>7. Managed!LookupsAreClaude'
  BY <1>1 DEF Managed!LookupsAreClaude
<1> QED
  BY <1>2, <1>3, <1>4, <1>5, <1>6, <1>7 DEF Managed!AccountsInv

\* Other saves write what memory holds.
LEMMA OthersKeep ==
    ASSUME Managed!AccountsAssumption, Managed!AccountsInv,
           \/ Managed!SaveAll
           \/ \E i \in ManagedIds :
                \/ Managed!Remove(i) \/ Managed!SaveOne(i)
                \/ \E b \in BOOLEAN : Managed!Prepare(i, b)
    PROVE  Managed!AccountsInv'
<1>1. CASE Managed!SaveAll
  <2>1. x1' = x1 /\ x2' = x1 /\ UNCHANGED <<x3, x4, x5, x6>>
    BY <1>1 DEF Managed!SaveAll, Managed!Save
  <2>2. x5 = {} => Managed!AgreeOn(x1)
    BY PoliciesInMemory
  <2>3. \A j \in ManagedIds \ x5 : x1[j] # None => x1[j].sealed
    BY DEF Managed!AccountsInv, Managed!OnlyTornDiffer
  <2>4. Managed!FitOn(x1, x6')
    BY <2>1 DEF Managed!AccountsInv
  <2> QED
    BY <2>1, <2>2, <2>3, <2>4, SaveKeeps
       DEF Managed!AccountsInv, Managed!TablesFit, Managed!TornAreOpen, Managed!LookupsAreClaude
<1>2. ASSUME NEW i \in ManagedIds, Managed!Remove(i) PROVE Managed!AccountsInv'
  <2> DEFINE f == [x1 EXCEPT ![i] = None]
  <2>1. /\ x1' = f /\ x2' = f /\ x4' = x4 \cup {i} /\ UNCHANGED <<x3, x5, x6>>
    BY <1>2 DEF Managed!Remove, Managed!Save
  <2>2. /\ f \in [ManagedIds -> Managed!Records \cup {None}] /\ f[i] = None
        /\ \A j \in ManagedIds \ {i} : f[j] = x1[j]
    BY DEF Managed!AccountsInv, Managed!TablesFit
  <2> HIDE DEF f
  <2>3. \A j \in ManagedIds \ x5 : f[j] # None => f[j].sealed
    BY <2>2 DEF Managed!AccountsInv, Managed!OnlyTornDiffer
  <2>4. \A j \in x5 : IF f[j] = None THEN j \in x4' ELSE ~f[j].sealed
    BY <2>1, <2>2 DEF Managed!AccountsInv, Managed!TornAreOpen, Managed!TablesFit
  <2>5. x5 = {} => Managed!AgreeOn(f)
    BY <2>2, PoliciesInMemory DEF Managed!AgreeOn
  <2>6. Managed!FitOn(f, x6')
    BY <2>1, <2>2 DEF Managed!AccountsInv, Managed!FitOn
  <2>7. \A j \in ManagedIds :
          x3'[j] # None => IF f[j] = None THEN j \in x4' ELSE f[j].type = "claude"
    BY <2>1, <2>2 DEF Managed!AccountsInv, Managed!LookupsAreClaude
  <2>8. /\ x4' \subseteq ManagedIds /\ x3' \in [ManagedIds -> Managed!Lookups \cup {None}]
        /\ x6' \in [ManagedIds -> BOOLEAN]
    BY <2>1 DEF Managed!AccountsInv, Managed!TablesFit
  <2> QED
    BY <2>1, <2>2, <2>3, <2>4, <2>5, <2>6, <2>7, <2>8, SaveKeeps
<1>3. ASSUME NEW i \in ManagedIds, Managed!SaveOne(i) PROVE Managed!AccountsInv'
  <2>1. /\ x1[i] # None /\ x2' = [x2 EXCEPT ![i] = x1[i]]
        /\ UNCHANGED <<x1, x3, x4, x5, x6>>
    BY <1>3 DEF Managed!SaveOne, Managed!Present
  <2>2. /\ x2' \in [ManagedIds -> Managed!Records \cup {None}] /\ x2'[i] = x1[i]
        /\ \A j \in ManagedIds \ {i} : x2'[j] = x2[j]
    BY <2>1 DEF Managed!AccountsInv, Managed!TablesFit
  <2>3. Managed!TablesFit' /\ Managed!OnlyTornDiffer' /\ Managed!TornAreOpen'
          /\ Managed!LookupsAreClaude'
    BY <2>1, <2>2
       DEF Managed!AccountsInv, Managed!TablesFit, Managed!OnlyTornDiffer, Managed!TornAreOpen,
           Managed!LookupsAreClaude
  <2>4. Managed!PoliciesAgree'
    <3> SUFFICES ASSUME \A j \in x5' : x2'[j] # x1'[j] /\ x2'[j].sealed
                 PROVE  Managed!AgreeOn(x2)'
      BY DEF Managed!PoliciesAgree
    <3>1. i \notin x5
      BY <2>1, <2>2
    <3>2. x2' = x2
      BY <2>1, <3>1 DEF Managed!AccountsInv, Managed!TablesFit, Managed!OnlyTornDiffer
    <3>3. Managed!AgreeOn(x2)
      BY <2>1, <3>2 DEF Managed!AccountsInv, Managed!PoliciesAgree
    <3> QED
      BY <3>2, <3>3 DEF Managed!AgreeOn
  <2>5. Managed!FitOn(x1, x6)' /\ Managed!FitOn(x2, x6)'
    <3>1. Managed!FitOn(x1, x6)'
      BY <2>1 DEF Managed!AccountsInv, Managed!FitOn
    <3>2. Managed!FitOn(x2, x6)'
      BY <2>1, <2>2 DEF Managed!AccountsInv, Managed!FitOn
    <3> QED
      BY <3>1, <3>2
  <2> QED
    BY <2>3, <2>4, <2>5 DEF Managed!AccountsInv
<1>4. ASSUME NEW i \in ManagedIds, NEW b \in BOOLEAN, Managed!Prepare(i,
      b) PROVE Managed!AccountsInv'
  <2>1. /\ x1[i] # None /\ x1[i].type = "claude"
        /\ x3' = [x3 EXCEPT ![i] = Managed!Looking(i, x1[i])]
        /\ UNCHANGED <<x1, x2, x4, x5, x6>>
    BY <1>4 DEF Managed!Prepare, Managed!Present
  <2>2. x1[i] \in Managed!Records
    BY <2>1 DEF Managed!AccountsInv, Managed!TablesFit
  <2>3. x3' \in [ManagedIds -> Managed!Lookups \cup {None}]
          /\ \A j \in ManagedIds \ {i} : x3'[j] = x3[j]
    BY <2>1, <2>2, LookingIs
  <2>4. Managed!TablesFit' /\ Managed!OnlyTornDiffer' /\ Managed!TornAreOpen'
          /\ Managed!LookupsAreClaude'
    BY <2>1, <2>3
       DEF Managed!AccountsInv, Managed!TablesFit, Managed!OnlyTornDiffer, Managed!TornAreOpen,
           Managed!LookupsAreClaude
  <2>5. Managed!PoliciesAgree'
    BY <2>1 DEF Managed!AccountsInv, Managed!PoliciesAgree, Managed!AgreeOn
  <2>6. Managed!FitOn(x1, x6)' /\ Managed!FitOn(x2, x6)'
    BY <2>1 DEF Managed!AccountsInv, Managed!FitOn
  <2> QED
    BY <2>4, <2>5, <2>6 DEF Managed!AccountsInv
<1> QED
  BY <1>1, <1>2, <1>3, <1>4

\* There are no accounts at first.
LEMMA AccountsBegin ==
    ASSUME Managed!AccountsAssumption, Managed!Init
    PROVE  Managed!AccountsInv
BY DEF Managed!Init, Managed!AccountsInv, Managed!TablesFit, Managed!OnlyTornDiffer,
       Managed!TornAreOpen, Managed!LookupsAreClaude, Managed!PoliciesAgree,
       Managed!AgreeOn, Managed!FitOn

\* Every step keeps the tables as they are meant to be: one step per action.
LEMMA AccountsGoOn ==
    ASSUME Managed!AccountsAssumption, Managed!AccountsInv, [Managed!Next]_(Managed!vars)
    PROVE  Managed!AccountsInv'
<1>1. ASSUME NEW i \in ManagedIds, NEW type \in Managed!Types, NEW t \in OperatorTokens,
      NEW named \in BOOLEAN,
             NEW credits \in BOOLEAN, Managed!Create(i, type, t, named, credits)
      PROVE  Managed!AccountsInv'
  BY <1>1, CreateKeeps
<1>2. ASSUME NEW i \in ManagedIds, NEW in \in Managed!Inputs, Managed!Update(i,
      in) PROVE Managed!AccountsInv'
  BY <1>2, UpdateKeeps
<1>3. ASSUME NEW i \in ManagedIds, NEW in \in Managed!Inputs, Managed!RefuseHalfway(i,
      in) PROVE Managed!AccountsInv'
  BY <1>3, RefuseKeeps
<1>4. ASSUME NEW i \in ManagedIds, NEW t \in OperatorTokens, Managed!Rotate(i,
      t) PROVE Managed!AccountsInv'
  BY <1>4, RotateKeeps
<1>5. ASSUME NEW i \in ManagedIds, NEW b \in BOOLEAN, Managed!Looked(i,
      b) PROVE Managed!AccountsInv'
  BY <1>5, LookedKeeps
<1>6. ASSUME NEW i \in ManagedIds, NEW b \in BOOLEAN, Managed!Prepare(i,
      b) PROVE Managed!AccountsInv'
  BY <1>6, OthersKeep
<1>7. ASSUME NEW i \in ManagedIds,
      Managed!Remove(i) \/ Managed!SaveOne(i) PROVE Managed!AccountsInv'
  BY <1>7, OthersKeep
<1>8. CASE Managed!SaveAll
  BY <1>8, OthersKeep
<1>9. CASE Managed!Restart
  BY <1>9, RestartKeeps
<1>10. CASE UNCHANGED Managed!vars
  BY <1>10
     DEF Managed!vars, Managed!AccountsInv, Managed!TablesFit, Managed!OnlyTornDiffer,
         Managed!TornAreOpen, Managed!LookupsAreClaude,
               Managed!PoliciesAgree, Managed!AgreeOn, Managed!FitOn
<1> QED
  BY <1>1, <1>2, <1>3, <1>4, <1>5, <1>6, <1>7, <1>8, <1>9, <1>10 DEF Managed!Next

\* The tables as they are meant to be are whole.
LEMMA AccountsAre ==
    ASSUME Managed!AccountsAssumption, Managed!AccountsInv
    PROVE  Managed!TypeOK /\ Managed!AccountsAreWhole
<1>1. Managed!TypeOK
  BY DEF Managed!AccountsInv, Managed!TablesFit, Managed!TypeOK
<1>2. Managed!SavedAndSealed
  BY PoliciesInMemory
     DEF Managed!AccountsInv, Managed!OnlyTornDiffer, Managed!SavedAndSealed, Managed!Present
<1>3. Managed!SiblingsAgree
  BY PoliciesInMemory
     DEF Managed!SiblingsAgree, Managed!AgreeOn, Managed!Siblings, Managed!Present
<1>4. Managed!IdentityIsCurrent
  BY DEF Managed!AccountsInv, Managed!OnlyTornDiffer, Managed!FitOn, Managed!IdentityIsCurrent,
         Managed!Present
<1> QED
  BY <1>1, <1>2, <1>3, <1>4 DEF Managed!AccountsAreWhole

-----------------------------------------------------------------------------
(* Facts: the lemmas of Compatibility's LearningInv.  x1 is the time, x2   *)
(* the generation, x3 the fingerprint, x4 the facts, x5 the observations,  *)
(* x6 req, x7 restarts and x8 what was seen.                               *)

\* Two requests to a provider that rejects one field; one upgrade, one restart.
Facts == INSTANCE Compatibility WITH
    Requests <- LearningRequests, Rejects <- RejectedFields, Gap <- ObservationGap,
    MaxTime <- LearningTime, MaxGeneration <- LearningGenerations,
    now <- x1, generation <- x2, fingerprint <- x3, facts <- x4, observations <- x5, req <- x6,
    restarts <- x7, seen <- x8

ASSUME FactsFit == Facts!LearningAssumption

\* One observation is not enough.
LEMMA OneIsNotEnough == PromotionCount \in Nat /\ PromotionCount > 1 /\ MaxRestarts \in Nat
  BY FactsFit DEF FactsFit, Facts!LearningAssumption

\* Nothing is known at first.
LEMMA LearningBegins == Facts!Init => Facts!LearningInv
<1> SUFFICES ASSUME Facts!Init PROVE Facts!LearningInv
  OBVIOUS
<1>1. x1 \in Nat /\ x2 \in Nat /\ x3 \in Facts!Fingerprints
  BY OneIsNotEnough DEF Facts!Init, Facts!Fingerprints
<1>2. Facts!ObservationsWereSeen
  BY DEF Facts!Init, Facts!ObservationsWereSeen
<1>3. Facts!FactsHaveEvidence
  BY DEF Facts!Init, Facts!FactsHaveEvidence, Facts!NoFact
<1>4. Facts!RequestsAreOfThisBuild
  BY DEF Facts!Init, Facts!RequestsAreOfThisBuild, Facts!Idle
<1> QED
  BY <1>1, <1>2, <1>3, <1>4 DEF Facts!LearningInv

\* Evidence stays when more is seen.
LEMMA EvidenceStays ==
    ASSUME NEW S, NEW T, S \subseteq T, NEW k, NEW g, NEW p, Facts!EvidenceIn(S, k, g, p)
    PROVE  Facts!EvidenceIn(T, k, g, p)
  BY DEF Facts!EvidenceIn

\* An entry stays true when more is seen.
LEMMA SeenStays ==
    ASSUME NEW S, NEW T, S \subseteq T, NEW k, NEW p, NEW entry, Facts!SeenIn(S, p, k, entry)
    PROVE  Facts!SeenIn(T, p, k, entry)
<1>1. entry.count > 1 => Facts!EvidenceIn(T, k, entry.generation, p)
  BY EvidenceStays DEF Facts!SeenIn
<1> QED
  BY <1>1 DEF Facts!SeenIn

\* Two independent observations are evidence.
LEMMA TwoAreEvidence ==
    ASSUME NEW S, NEW x \in S, NEW y \in S, NEW k, NEW g, NEW p,
           x.k = k, x.generation = g, x.fingerprint = p,
           y.k = k, y.generation = g, y.fingerprint = p,
           x.by # y.by \/ y.at - x.at >= ObservationGap
    PROVE  Facts!EvidenceIn(S, k, g, p)
  BY DEF Facts!EvidenceIn

\* What was observed stays true when nothing seen is forgotten.
LEMMA ObservationsStay ==
    ASSUME Facts!ObservationsWereSeen, x8 \subseteq x8', UNCHANGED <<x3, x5>>
    PROVE  Facts!ObservationsWereSeen'
<1>1. ASSUME NEW k \in Facts!Features, x5[k] # None
      PROVE  Facts!SeenIn(x8', x3, k, x5[k])
  BY <1>1, SeenStays DEF Facts!ObservationsWereSeen
<1>2. Facts!Features' = Facts!Features /\ Facts!Observation' = Facts!Observation
  BY DEF Facts!Features, Facts!Observation
<1> QED
  BY <1>1, <1>2 DEF Facts!ObservationsWereSeen

\* The facts keep their evidence when nothing seen is forgotten.
LEMMA FactsStay ==
    ASSUME Facts!FactsHaveEvidence, x8 \subseteq x8', UNCHANGED x4
    PROVE  Facts!FactsHaveEvidence'
<1>1. ASSUME NEW p \in Facts!Fingerprints, x4[p].feature # None
      PROVE  Facts!EvidenceIn(x8', <<x4[p].feature, x4[p].value>>, x4[p].generation, p)
  BY <1>1, EvidenceStays DEF Facts!FactsHaveEvidence
<1> QED
  BY <1>1 DEF Facts!FactsHaveEvidence, Facts!Fingerprints

\* The first observation under these credentials.
LEMMA FirstIsSeen ==
    ASSUME x1 \in Nat, x2 \in Nat, NEW r \in LearningRequests, NEW k \in Facts!Features,
           x5[k] = None \/ x5[k].generation # x2,
           NEW S, Facts!Noted(k, r) \in S
    PROVE  /\ Facts!Independent([Facts!Entry(k) EXCEPT !.used = x1], r)
           /\ Facts!Counted(k, r) \in Facts!Observation /\ Facts!Counted(k, r).generation = x2
           /\ Facts!SeenIn(S, x6[r].fingerprint, k, Facts!Counted(k, r))
<1>1. Facts!Entry(k) = [count |-> 0, at |-> 0, by |-> None, generation |-> None, used |-> x1]
  BY DEF Facts!Entry, Facts!NewEntry
<1> DEFINE e == [Facts!Entry(k) EXCEPT !.used = x1]
<1>2. e = [count |-> 0, at |-> 0, by |-> None, generation |-> None, used |-> x1]
  BY <1>1
<1>3. Facts!Independent(e, r)
  <2> HIDE DEF e
  <2> QED
    BY <1>2 DEF Facts!Independent
<1>4. Facts!Counted(k, r) = [e EXCEPT !.count = e.count + 1, !.at = x1, !.by = r,
                                !.generation = x2]
  BY <1>3 DEF Facts!Counted
<1>5. Facts!Counted(k, r) = [count |-> 1, at |-> x1, by |-> r, generation |-> x2,
                       used |-> x1]
  <2>1. e.count + 1 = 1
    BY <1>2
  <2> HIDE DEF e
  <2> QED
    BY <1>2, <1>4, <2>1
<1> HIDE DEF e
<1> DEFINE c == Facts!Counted(k, r)
           n == Facts!Noted(k, r)
<1>6. c \in Facts!Observation /\ c.generation = x2 /\ c.by = r /\ c.at = x1 /\ c.count = 1
  BY <1>5 DEF Facts!Observation
<1>7. n.k = k /\ n.generation = x2 /\ n.by = r /\ n.at = x1
      /\ n.fingerprint = x6[r].fingerprint /\ n \in S
  BY DEF Facts!Noted
<1>8. Facts!SeenIn(S, x6[r].fingerprint, k, c)
  <2> HIDE DEF c, n
  <2>1. ~ (c.count > 1)
    BY <1>6
  <2> QED
    BY <1>6, <1>7, <2>1 DEF Facts!SeenIn
<1> QED
  BY <1>3, <1>6, <1>8 DEF e

\* A later one: another attempt's, or after the gap.
LEMMA AnotherIsSeen ==
    ASSUME x1 \in Nat, x2 \in Nat, NEW r \in LearningRequests, NEW k \in Facts!Features,
           x5[k] # None, x5[k].generation = x2,
           x5[k] \in Facts!Observation, NEW p, p = x6[r].fingerprint,
           Facts!SeenIn(x8, p, k, x5[k])
    PROVE  /\ Facts!Counted(k, r) \in Facts!Observation /\ Facts!Counted(k, r).generation = x2
           /\ ~ Facts!Independent([Facts!Entry(k) EXCEPT !.used = x1], r) =>
                Facts!SeenIn(x8, p, k, Facts!Counted(k, r))
           /\ Facts!Independent([Facts!Entry(k) EXCEPT !.used = x1], r) =>
                Facts!SeenIn(x8 \cup {Facts!Noted(k, r)}, p, k, Facts!Counted(k, r))
<1> DEFINE e == [Facts!Entry(k) EXCEPT !.used = x1]
           o == x5[k]
<1>1. e = [o EXCEPT !.used = x1]
  BY DEF Facts!Entry
<1> HIDE DEF o
<1>2. o \in Facts!Observation /\ o.generation = x2 /\ Facts!SeenIn(x8, p, k, o)
  BY DEF o
<1>3. /\ e \in Facts!Observation /\ e.generation = x2 /\ e.by = o.by /\ e.at = o.at
      /\ e.count = o.count
  <2> HIDE DEF e
  <2> QED
    BY <1>1, <1>2 DEF Facts!Observation
<1>4. CASE ~ Facts!Independent(e, r)
  <2>1. Facts!Counted(k, r) = e
    BY <1>4 DEF Facts!Counted
  <2> HIDE DEF e
  <2>2. Facts!SeenIn(x8, p, k, e)
    BY <1>2, <1>3 DEF Facts!SeenIn
  <2> QED
    BY <1>3, <1>4, <2>1, <2>2 DEF e
<1>5. CASE Facts!Independent(e, r)
  <2>1. Facts!Counted(k, r) = [e EXCEPT !.count = e.count + 1, !.at = x1, !.by = r,
                                  !.generation = x2]
    BY <1>5 DEF Facts!Counted
  <2> DEFINE c == Facts!Counted(k, r)
             n == Facts!Noted(k, r)
             S == x8 \cup {n}
  <2>2. c \in Facts!Observation /\ c.generation = x2 /\ c.by = r /\ c.at = x1
    <3> DEFINE m == e.count + 1
    <3>1. m \in Nat \ {0}
      BY <1>3 DEF Facts!Observation
    <3> HIDE DEF e, m
    <3>2. c = [count |-> m, at |-> x1, by |-> r, generation |-> x2, used |-> e.used]
      BY <1>3, <2>1 DEF Facts!Observation, m
    <3>3. e.used \in Nat
      BY <1>3 DEF Facts!Observation
    <3> QED
      BY <3>1, <3>2, <3>3 DEF Facts!Observation
  <2>3. n.k = k /\ n.generation = x2 /\ n.by = r /\ n.at = x1
        /\ n.fingerprint = p /\ n \in S
    BY DEF Facts!Noted
  <2>4. o.by # r \/ x1 - o.at >= ObservationGap
    <3>1. e.count # 0
      BY <1>3 DEF Facts!Observation
    <3> HIDE DEF e
    <3> QED
      BY <1>3, <1>5, <3>1 DEF Facts!Independent
  <2>5. PICK x \in x8 : /\ x.k = k /\ x.generation = x2 /\ x.fingerprint = p
                          /\ x.by = o.by /\ x.at = o.at
    BY <1>2 DEF Facts!SeenIn
  <2>6. Facts!EvidenceIn(S, k, x2, p)
    <3>1. x \in S
      OBVIOUS
    <3> HIDE DEF n, S
    <3>2. x.by # n.by \/ n.at - x.at >= ObservationGap
      BY <2>3, <2>4, <2>5
    <3> QED
      BY <2>3, <2>5, <3>1, <3>2, TwoAreEvidence
  <2>7. Facts!SeenIn(S, p, k, c)
    <3> HIDE DEF n, S, c
    <3> QED
      BY <2>2, <2>3, <2>6 DEF Facts!SeenIn
  <2> QED
    BY <1>5, <2>2, <2>7
<1> QED
  BY <1>4, <1>5

\* One more observation: what the entry then says was seen.
LEMMA CountedIsSeen ==
    ASSUME Facts!LearningInv, NEW r \in LearningRequests, NEW k \in Facts!Features,
           x6[r].fingerprint = x3,
           x8' = IF Facts!Independent([Facts!Entry(k) EXCEPT !.used = x1], r)
                   THEN x8 \cup {Facts!Noted(k, r)} ELSE x8
    PROVE  /\ Facts!Counted(k, r) \in Facts!Observation /\ Facts!Counted(k, r).generation = x2
           /\ Facts!SeenIn(x8', x3, k, Facts!Counted(k, r))
<1>1. x1 \in Nat /\ x2 \in Nat
  BY DEF Facts!LearningInv
<1>2. CASE x5[k] = None \/ x5[k].generation # x2
  <2>1. Facts!Noted(k, r) \in {Facts!Noted(k, r)} \cup x8
    OBVIOUS
  <2>2. Facts!Independent([Facts!Entry(k) EXCEPT !.used = x1], r)
    BY <1>1, <1>2, <2>1, FirstIsSeen
  <2>3. Facts!Noted(k, r) \in x8'
    BY <2>2
  <2> QED
    BY <1>1, <1>2, <2>3, FirstIsSeen
<1>3. CASE x5[k] # None /\ x5[k].generation = x2
  <2>1. x5[k] \in Facts!Observation /\ Facts!SeenIn(x8, x3, k, x5[k])
    BY <1>3 DEF Facts!LearningInv, Facts!ObservationsWereSeen
  <2>2. /\ Facts!Counted(k, r) \in Facts!Observation /\ Facts!Counted(k, r).generation = x2
        /\ ~ Facts!Independent([Facts!Entry(k) EXCEPT !.used = x1], r) =>
             Facts!SeenIn(x8, x3, k, Facts!Counted(k, r))
        /\ Facts!Independent([Facts!Entry(k) EXCEPT !.used = x1], r) =>
             Facts!SeenIn(x8 \cup {Facts!Noted(k, r)}, x3, k, Facts!Counted(k, r))
    BY <1>1, <1>3, <2>1, AnotherIsSeen
  <2> QED
    BY <2>2
<1> QED
  BY <1>2, <1>3

\* Pruning only drops entries.
LEMMA PrunedObservations ==
    ASSUME NEW table, NEW kept \in Facts!Kept(table)
    PROVE  DOMAIN kept = Facts!Features /\ \A k \in Facts!Features : kept[k] \in {None, table[k]}
  BY DEF Facts!Kept

\* observe: a rejection that the request met.
LEMMA RejectionObserved ==
    ASSUME Facts!LearningInv, NEW r \in LearningRequests, NEW field \in RejectedFields,
           Facts!Reject(r, field)
    PROVE  Facts!LearningInv'
<1> DEFINE value == x6[r].without \cup {field}
           k == <<field, value>>
           entry == Facts!Counted(k, r)
<1>1. /\ x6[r].phase = "sent" /\ Facts!Observe(r, field, value)
      /\ x6' = [x6 EXCEPT ![r].without = value]
      /\ UNCHANGED <<x1, x2, x3, x7>>
  BY DEF Facts!Reject
<1>2. /\ x6[r].fingerprint = x3 /\ value \subseteq RejectedFields
      /\ x1' \in Nat /\ x2' \in Nat /\ x3' \in Facts!Fingerprints
  BY <1>1 DEF Facts!LearningInv, Facts!RequestsAreOfThisBuild
<1>3. k \in Facts!Features
  <2>1. value \in SUBSET RejectedFields
    BY <1>2
  <2> HIDE DEF value
  <2> QED
    BY <2>1 DEF Facts!Features
<1>4. Facts!RequestsAreOfThisBuild'
  <2> HIDE DEF value
  <2> QED
    BY <1>1, <1>2 DEF Facts!LearningInv, Facts!RequestsAreOfThisBuild
<1>5. CASE x6[r].generation # x2
  <2>1. UNCHANGED <<x5, x4, x8>>
    BY <1>1, <1>5 DEF Facts!Observe
  <2>2. Facts!ObservationsWereSeen' /\ Facts!FactsHaveEvidence'
    BY <1>1, <2>1, ObservationsStay, FactsStay DEF Facts!LearningInv
  <2> QED
    BY <1>2, <1>4, <2>2 DEF Facts!LearningInv, Facts!Fingerprints
<1>6. CASE x6[r].generation = x2
  <2>1. /\ x5' \in Facts!Kept([x5 EXCEPT ![k] = entry])
        /\ x8' = IF Facts!Independent([Facts!Entry(k) EXCEPT !.used = x1], r)
                   THEN x8 \cup {Facts!Noted(k, r)} ELSE x8
        /\ x4' = IF entry.count < PromotionCount THEN x4
                    ELSE [x4 EXCEPT ![x6[r].fingerprint] =
                           [feature |-> field, value |-> value, generation |-> x2,
                            expires |-> x1 + FactTtl]]
    BY <1>1, <1>6 DEF Facts!Observe
  <2>2. x8 \subseteq x8'
    BY <2>1
  <2>3. /\ entry \in Facts!Observation /\ entry.generation = x2
        /\ Facts!SeenIn(x8', x3, k, entry)
    <3>1. \A j \in Facts!Features :
            x8' = (IF Facts!Independent([Facts!Entry(j) EXCEPT !.used = x1], r)
                     THEN x8 \cup {Facts!Noted(j, r)} ELSE x8)
            => /\ Facts!Counted(j, r) \in Facts!Observation /\ Facts!Counted(j, r).generation = x2
               /\ Facts!SeenIn(x8', x3, j, Facts!Counted(j, r))
      BY <1>2, CountedIsSeen
    <3> QED
      BY <1>3, <2>1, <3>1
  <2> HIDE DEF entry
  <2>4. Facts!ObservationsWereSeen'
    <3>1. /\ DOMAIN x5' = Facts!Features
          /\ \A j \in Facts!Features :
               x5'[j] \in {None, [x5 EXCEPT ![k] = entry][j]}
      BY <2>1, PrunedObservations
    <3> HIDE DEF k
    <3>2. \A j \in Facts!Features :
            (j = k /\ x5'[j] = entry) \/ x5'[j] \in {None, x5[j]}
      BY <1>3, <3>1 DEF Facts!LearningInv, Facts!ObservationsWereSeen
    <3>3. ASSUME NEW j \in Facts!Features, x5'[j] # None
          PROVE  /\ x5'[j] \in Facts!Observation
                 /\ Facts!SeenIn(x8', x3, j, x5'[j])
      <4>1. CASE j = k /\ x5'[j] = entry
        BY <2>3, <4>1
      <4>2. CASE x5'[j] = x5[j]
        <5>1. x5[j] \in Facts!Observation /\ Facts!SeenIn(x8, x3, j, x5[j])
          BY <3>3, <4>2 DEF Facts!LearningInv, Facts!ObservationsWereSeen
        <5>2. Facts!SeenIn(x8', x3, j, x5[j])
          BY <2>2, <5>1, SeenStays
        <5> QED
          BY <4>2, <5>1, <5>2
      <4> QED
        BY <3>2, <3>3, <4>1, <4>2
    <3> QED
      BY <1>1, <3>1, <3>3 DEF Facts!ObservationsWereSeen, Facts!Features
  <2>5. Facts!FactsHaveEvidence'
    <3>1. CASE entry.count < PromotionCount
      BY <2>1, <2>2, <3>1, FactsStay DEF Facts!LearningInv
    <3>2. CASE ~ (entry.count < PromotionCount)
      <4>1. Facts!EvidenceIn(x8', k, x2, x3)
        BY <2>3, <3>2, OneIsNotEnough DEF Facts!Observation, Facts!SeenIn
      <4> DEFINE fact == [feature |-> field, value |-> value, generation |-> x2,
                          expires |-> x1 + FactTtl]
      <4>2. x4' = [x4 EXCEPT ![x3] = fact]
        BY <1>2, <2>1, <3>2
      <4>3. <<fact.feature, fact.value>> = k /\ fact.generation = x2
        OBVIOUS
      <4>4. DOMAIN x4 = Facts!Fingerprints /\ x3 \in Facts!Fingerprints
        BY DEF Facts!LearningInv, Facts!FactsHaveEvidence
      <4> HIDE DEF value, k, fact
      <4>5. ASSUME NEW p \in Facts!Fingerprints, x4'[p].feature # None
            PROVE  Facts!EvidenceIn(x8', <<x4'[p].feature, x4'[p].value>>,
                              x4'[p].generation, p)
        <5>1. CASE p = x3
          BY <4>1, <4>2, <4>3, <4>4, <5>1
        <5>2. CASE p # x3
          <6>1. x4'[p] = x4[p]
            BY <4>2, <4>4, <5>2
          <6>2. Facts!EvidenceIn(x8, <<x4[p].feature, x4[p].value>>, x4[p].generation, p)
            BY <4>5, <6>1 DEF Facts!LearningInv, Facts!FactsHaveEvidence
          <6> QED
            BY <2>2, <6>1, <6>2, EvidenceStays
        <5> QED
          BY <5>1, <5>2
      <4>6. DOMAIN x4' = Facts!Fingerprints
        BY <4>2, <4>4
      <4>7. ASSUME NEW p \in Facts!Fingerprints PROVE x4'[p].value \subseteq RejectedFields
        <5>1. fact.value \subseteq RejectedFields
          BY <1>2 DEF fact
        <5>2. x4[p].value \subseteq RejectedFields
          BY DEF Facts!LearningInv, Facts!FactsHaveEvidence
        <5> QED
          BY <4>2, <4>4, <5>1, <5>2
      <4> QED
        BY <4>5, <4>6, <4>7 DEF Facts!FactsHaveEvidence, Facts!Fingerprints
    <3> QED
      BY <3>1, <3>2
  <2> QED
    BY <1>2, <1>4, <2>4, <2>5 DEF Facts!LearningInv, Facts!Fingerprints
<1> QED
  BY <1>5, <1>6

\* Every step keeps the evidence: one step per action.
LEMMA LearningGoesOn == Facts!LearningInv /\ [Facts!Next]_(Facts!vars) => Facts!LearningInv'
<1> SUFFICES ASSUME Facts!LearningInv, [Facts!Next]_(Facts!vars) PROVE Facts!LearningInv'
  OBVIOUS
<1>0. /\ x1 \in Nat /\ x2 \in Nat /\ x3 \in Facts!Fingerprints
      /\ Facts!ObservationsWereSeen /\ Facts!FactsHaveEvidence /\ Facts!RequestsAreOfThisBuild
  BY DEF Facts!LearningInv
<1>1. CASE \E r \in LearningRequests, field \in RejectedFields : Facts!Reject(r, field)
  BY <1>1, RejectionObserved
<1>2. CASE \E r \in LearningRequests : Facts!Prepare(r) \/ Facts!Finish(r)
  <2>1. PICK r \in LearningRequests : Facts!Prepare(r) \/ Facts!Finish(r)
    BY <1>2
  <2>2. UNCHANGED <<x1, x2, x3, x4, x5, x8>>
    BY <2>1 DEF Facts!Prepare, Facts!Finish
  <2>3. Facts!RequestsAreOfThisBuild'
    <3>1. CASE Facts!Finish(r)
      BY <1>0, <2>2, <3>1 DEF Facts!RequestsAreOfThisBuild, Facts!Finish
    <3>2. CASE Facts!Prepare(r)
      <4> DEFINE context == [phase |-> "sent", generation |-> x2,
                             fingerprint |-> x3, without |-> {}]
                 left == Facts!ActiveFact(context).value
      <4>1. x6' = [x6 EXCEPT ![r] = [context EXCEPT !.without = left]]
        BY <3>2 DEF Facts!Prepare
      <4>2. left \subseteq RejectedFields
        BY <1>0 DEF Facts!ActiveFact, Facts!NoFact, Facts!FactsHaveEvidence
      <4> HIDE DEF left
      <4>3. [context EXCEPT !.without = left] =
              [phase |-> "sent", generation |-> x2, fingerprint |-> x3,
               without |-> left]
        OBVIOUS
      <4> QED
        BY <1>0, <2>2, <4>1, <4>2, <4>3 DEF Facts!RequestsAreOfThisBuild
    <3> QED
      BY <2>1, <3>1, <3>2
  <2>4. Facts!ObservationsWereSeen' /\ Facts!FactsHaveEvidence'
    BY <1>0, <2>2, ObservationsStay, FactsStay
  <2> QED
    BY <1>0, <2>2, <2>3, <2>4 DEF Facts!LearningInv, Facts!Fingerprints
<1>3. CASE Facts!NewGeneration
  <2>1. Facts!FactsHaveEvidence'
    BY <1>3 DEF Facts!NewGeneration, Facts!FactsHaveEvidence, Facts!NoFact, Facts!Fingerprints
  <2>2. Facts!ObservationsWereSeen'
    BY <1>0, <1>3, ObservationsStay DEF Facts!NewGeneration
  <2>3. Facts!RequestsAreOfThisBuild'
    BY <1>0, <1>3 DEF Facts!NewGeneration, Facts!RequestsAreOfThisBuild
  <2> QED
    BY <1>0, <1>3, <2>1, <2>2, <2>3 DEF Facts!NewGeneration, Facts!LearningInv, Facts!Fingerprints
<1>4. CASE Facts!ResetFact
  <2>1. Facts!ObservationsWereSeen' /\ Facts!RequestsAreOfThisBuild'
    <3>1. Facts!Features' = Facts!Features
      BY DEF Facts!Features
    <3>2. Facts!ObservationsWereSeen'
      BY <1>4, <3>1 DEF Facts!ResetFact, Facts!ObservationsWereSeen
    <3>3. Facts!RequestsAreOfThisBuild'
      BY <1>0, <1>4 DEF Facts!ResetFact, Facts!RequestsAreOfThisBuild
    <3> QED
      BY <3>2, <3>3
  <2>2. DOMAIN x4' = Facts!Fingerprints
    BY <1>0, <1>4 DEF Facts!ResetFact, Facts!FactsHaveEvidence
  <2>3. ASSUME NEW p \in Facts!Fingerprints, x4'[p].feature # None
        PROVE  Facts!EvidenceIn(x8', <<x4'[p].feature, x4'[p].value>>, x4'[p].generation, p)
    <3>1. p # x3 /\ x4'[p] = x4[p]
      BY <1>0, <1>4, <2>3 DEF Facts!ResetFact, Facts!NoFact, Facts!FactsHaveEvidence
    <3>2. Facts!EvidenceIn(x8, <<x4[p].feature, x4[p].value>>, x4[p].generation, p)
      BY <1>0, <2>3, <3>1 DEF Facts!FactsHaveEvidence
    <3>3. x8' = {x \in x8 : x.fingerprint # x3}
      BY <1>4 DEF Facts!ResetFact
    <3>4. Facts!EvidenceIn(x8', <<x4[p].feature, x4[p].value>>, x4[p].generation, p)
      BY <3>1, <3>2, <3>3 DEF Facts!EvidenceIn
    <3> QED
      BY <3>1, <3>4
  <2>4. Facts!FactsHaveEvidence'
    <3>1. ASSUME NEW p \in Facts!Fingerprints PROVE x4'[p].value \subseteq RejectedFields
      BY <1>0, <1>4 DEF Facts!ResetFact, Facts!FactsHaveEvidence, Facts!NoFact
    <3> QED
      BY <2>2, <2>3, <3>1 DEF Facts!FactsHaveEvidence, Facts!Fingerprints
  <2> QED
    BY <1>0, <1>4, <2>1, <2>4 DEF Facts!ResetFact, Facts!LearningInv, Facts!Fingerprints
<1>5. CASE \E p \in Facts!Fingerprints : Facts!Restart(p)
  <2>1. Facts!ObservationsWereSeen' /\ x3' \in Facts!Fingerprints
    BY <1>5 DEF Facts!Restart, Facts!ObservationsWereSeen, Facts!Features, Facts!Fingerprints
  <2>2. Facts!RequestsAreOfThisBuild'
    BY <1>0, <1>5 DEF Facts!Restart, Facts!RequestsAreOfThisBuild, Facts!Idle
  <2>3. Facts!FactsHaveEvidence'
    BY <1>0, <1>5, FactsStay DEF Facts!Restart
  <2> QED
    BY <1>0, <1>5, <2>1, <2>2, <2>3 DEF Facts!Restart, Facts!LearningInv, Facts!Fingerprints
<1>6. CASE Facts!Tick \/ UNCHANGED Facts!vars
  <2>1. /\ UNCHANGED <<x2, x3, x4, x5, x6, x8>>
        /\ x1' \in {x1, x1 + 1}
    BY <1>6 DEF Facts!Tick, Facts!vars
  <2>2. Facts!RequestsAreOfThisBuild'
    BY <1>0, <2>1 DEF Facts!RequestsAreOfThisBuild
  <2>3. Facts!ObservationsWereSeen' /\ Facts!FactsHaveEvidence'
    BY <1>0, <2>1, ObservationsStay, FactsStay
  <2> QED
    BY <1>0, <2>1, <2>2, <2>3 DEF Facts!LearningInv, Facts!Fingerprints
<1> QED
  BY <1>1, <1>2, <1>3, <1>4, <1>5, <1>6 DEF Facts!Next

\* The fact a request would read has its evidence.
LEMMA LearningIs == Facts!LearningInv => Facts!FactsAreEvidenced
<1> SUFFICES ASSUME Facts!LearningInv PROVE Facts!FactsAreEvidenced
  OBVIOUS
<1> DEFINE fact == Facts!ActiveFact([generation |-> x2, fingerprint |-> x3])
<1>1. /\ fact \in {x4[x3], Facts!NoFact}
      /\ fact.feature # None => fact.generation = x2
  BY DEF Facts!ActiveFact, Facts!NoFact
<1> HIDE DEF fact
<1>2. fact.feature # None => fact = x4[x3]
  BY <1>1 DEF Facts!NoFact
<1>3. fact.feature # None =>
        Facts!EvidenceIn(x8, <<fact.feature, fact.value>>, x2, x3)
  BY <1>1, <1>2 DEF Facts!LearningInv, Facts!FactsHaveEvidence
<1> QED
  BY <1>3 DEF Facts!FactsAreEvidenced, fact

\* Counting, as the instance does it.
LEMMA FactsCount == \A S : Facts!Cardinality(S) = Cardinality(S)
  BY DEF Cardinality, Facts!Cardinality

\* What is known, observed and asked, and how many observations are kept.
LEMMA FactsAreTyped ==
    /\ Facts!Init => Facts!TypeOK
    /\ Facts!TypeOK /\ Facts!LearningInv' /\ [Facts!Next]_(Facts!vars) => Facts!TypeOK'
<1> DEFINE Few(table) ==
           Facts!Cardinality({k \in Facts!Features : table[k] # None}) <= ObservationLimit
<1>0. /\ LearningTime \in Nat /\ LearningGenerations \in Nat /\ MaxRestarts \in Nat
      /\ ObservationLimit \in Nat \ {0} /\ Facts!Cardinality({}) = 0
  BY FS_EmptySet, FactsCount, FactsFit DEF FactsFit, Facts!LearningAssumption
<1>1. Few([k \in Facts!Features |-> None])
  <2>1. {k \in Facts!Features : [x \in Facts!Features |-> None][k] # None} = {}
    OBVIOUS
  <2> QED
    BY <1>0, <2>1
<1>2. ASSUME NEW table, NEW kept \in Facts!Kept(table) PROVE Few(kept)
  <2> DEFINE live == {k \in Facts!Features : table[k] # None}
             K == {k \in Facts!Features : kept[k] # None}
  <2>1. IF Facts!Cardinality(live) <= ObservationLimit THEN K = live
        ELSE Facts!Cardinality(K) = ObservationLimit
    BY <1>2 DEF Facts!Kept
  <2> QED
    BY <1>0, <2>1
<1>3. Facts!Init => Facts!TypeOK
  <2> SUFFICES ASSUME Facts!Init PROVE Facts!TypeOK
    OBVIOUS
  <2>1. Few(x5)
    BY <1>1 DEF Facts!Init
  <2> HIDE DEF Few
  <2>2. x4 = [p \in Facts!Fingerprints |-> Facts!NoFact]
          /\ x6 = [r \in LearningRequests |-> Facts!Idle]
    BY DEF Facts!Init
  <2>3. /\ \A p \in Facts!Fingerprints : x4[p].value \subseteq RejectedFields
        /\ \A r \in LearningRequests : x6[r].phase \in {"new", "sent", "done"}
                               /\ x6[r].without \subseteq RejectedFields
    BY <2>2 DEF Facts!NoFact, Facts!Idle
  <2>4. /\ x1 \in 0 .. LearningTime /\ x2 \in 0 .. LearningGenerations
        /\ x7 \in 0 .. MaxRestarts /\ x3 \in Facts!Fingerprints
    BY <1>0 DEF Facts!Init, Facts!Fingerprints
  <2> QED
    BY <2>1, <2>3, <2>4 DEF Facts!TypeOK, Few
<1>4. ASSUME Facts!TypeOK, Facts!LearningInv', [Facts!Next]_(Facts!vars) PROVE Facts!TypeOK'
  <2>1. /\ x1 \in 0 .. LearningTime /\ x2 \in 0 .. LearningGenerations /\ x7 \in 0 .. MaxRestarts
        /\ Few(x5) /\ \A r \in LearningRequests : x6[r].phase \in {"new", "sent", "done"}
    BY <1>4 DEF Facts!TypeOK
  <2>2. /\ x3' \in Facts!Fingerprints
        /\ \A p \in Facts!Fingerprints : x4'[p].value \subseteq RejectedFields
        /\ DOMAIN x6' = LearningRequests
        /\ \A r \in LearningRequests : x6'[r].without \subseteq RejectedFields
    BY <1>4
       DEF Facts!LearningInv, Facts!FactsHaveEvidence, Facts!RequestsAreOfThisBuild,
           Facts!Fingerprints
  <2>3. /\ x1' \in 0 .. LearningTime /\ x2' \in 0 .. LearningGenerations
        /\ x7' \in 0 .. MaxRestarts
    <3>1. /\ x1' = x1 \/ (x1 < LearningTime /\ x1' = x1 + 1)
          /\ x2' = x2 \/ (x2 < LearningGenerations /\ x2' = x2 + 1)
          /\ x7' = x7 \/ (x7 < MaxRestarts /\ x7' = x7 + 1)
      BY <1>4
         DEF Facts!Next, Facts!vars, Facts!Prepare, Facts!Finish, Facts!Reject,
             Facts!NewGeneration, Facts!ResetFact, Facts!Tick, Facts!Restart
    <3> QED
      BY <1>0, <2>1, <3>1
  <2>4. Few(x5')
    <3>1. CASE UNCHANGED x5
      BY <2>1, <3>1
    <3>2. CASE x5' = [k \in Facts!Features |-> None]
      BY <1>1, <3>2
    <3>3. CASE \E table : x5' \in Facts!Kept(table)
      BY <1>2, <3>3
    <3> HIDE DEF Few
    <3>4. CASE \E r \in LearningRequests, field \in RejectedFields : Facts!Reject(r, field)
      BY <3>1, <3>3, <3>4 DEF Facts!Reject, Facts!Observe
    <3> QED
      BY <1>4, <3>1, <3>2, <3>4
         DEF Facts!Next, Facts!vars, Facts!Prepare, Facts!Finish, Facts!NewGeneration,
             Facts!ResetFact, Facts!Tick, Facts!Restart
  <2>5. ASSUME NEW r \in LearningRequests PROVE x6'[r].phase \in {"new", "sent", "done"}
    <3>1. CASE UNCHANGED x6
      BY <2>1, <3>1
    <3>2. CASE \E x \in LearningRequests : x6' = [x6 EXCEPT ![x].phase = "done"]
      BY <2>1, <3>2
    <3>3. CASE \E x \in LearningRequests : Facts!Prepare(x)
      BY <2>1, <3>3 DEF Facts!Prepare
    <3>4. CASE \E x \in LearningRequests, field \in RejectedFields : Facts!Reject(x, field)
      BY <2>1, <3>4 DEF Facts!Reject
    <3>5. CASE \E p \in Facts!Fingerprints : Facts!Restart(p)
      <4>1. x6'[r] = IF x6[r].phase = "new" THEN x6[r] ELSE [Facts!Idle EXCEPT !.phase = "done"]
        BY <3>5 DEF Facts!Restart
      <4>2. [Facts!Idle EXCEPT !.phase = "done"].phase = "done"
        BY DEF Facts!Idle
      <4> QED
        BY <2>1, <4>1, <4>2
    <3> QED
      BY <1>4, <3>1, <3>2, <3>3, <3>4, <3>5
         DEF Facts!Next, Facts!vars, Facts!Finish, Facts!NewGeneration, Facts!ResetFact,
             Facts!Tick
  <2> HIDE DEF Few
  <2>6. Facts!TypeOK' <=> /\ x1' \in 0 .. LearningTime /\ x2' \in 0 .. LearningGenerations
                    /\ x7' \in 0 .. MaxRestarts /\ x3' \in Facts!Fingerprints
                    /\ \A p \in Facts!Fingerprints : x4'[p].value \subseteq RejectedFields
                    /\ Few(x5')
                    /\ \A r \in LearningRequests : x6'[r].phase \in {"new", "sent", "done"}
                                           /\ x6'[r].without \subseteq RejectedFields
    BY DEF Facts!TypeOK, Few
  <2> QED
    BY <2>2, <2>3, <2>4, <2>5, <2>6
<1> QED
  BY <1>3, <1>4

-----------------------------------------------------------------------------
(* Catalogs: the lemmas of ModelCatalog's CatalogInv.  x1 is the           *)
(* credentials, x2 the entries, x3 the discoveries, x4 the cache, x5 the   *)
(* revision and x6 the time.                                               *)

\* Two accounts with one model and room for one, one change of credentials.
Catalogs == INSTANCE ModelCatalog WITH
    Accounts <- CatalogAccounts, Models <- CatalogModels, MaxGeneration <- CatalogGenerations,
    Rank <- CatalogRank, MaxRevision <- CatalogRevisions, MaxFetches <- CatalogFetches,
    MaxTime <- CatalogTime,
    upstream <- x1, entries <- x2, fetches <- x3, cache <- x4, revision <- x5, now <- x6

ASSUME CatalogsFit == Catalogs!CatalogAssumption

\* The bounds are natural numbers.
LEMMA CatalogBounds ==
    ASSUME Catalogs!CatalogAssumption
    PROVE  CatalogGenerations \in Nat \ {0} /\ CatalogRevisions \in Nat /\ CatalogTime \in Nat
  BY DEF Catalogs!CatalogAssumption

\* A sequence is one of the values it has.
LEMMA SequenceOfItsOwn ==
    ASSUME NEW S, NEW s \in Seq(S)
    PROVE  s \in Seq({s[i] : i \in DOMAIN s})
<1> DEFINE T == {s[i] : i \in DOMAIN s}
<1>1. \A i \in 1..Len(s) : s[i] \in T
  OBVIOUS
<1>2. s \in [1..Len(s) -> T] /\ Len(s) \in Nat
  BY <1>1
<1> HIDE DEF T
<1>3. s \in Seq(T)
  BY <1>2
<1> QED
  BY <1>3 DEF T

\* newEntry, field by field.
LEMMA NewEntriesAreEntries ==
    ASSUME NEW g \in Catalogs!Generations, NEW r \in 0..CatalogRevisions
    PROVE  /\ Catalogs!NewEntry(g, r) \in Catalogs!Entry /\ Catalogs!NewEntry(g, r).generation = g
           /\ Catalogs!NewEntry(g, r).revision = r /\ ~ Catalogs!NewEntry(g, r).hasCatalog
           /\ Catalogs!NewEntry(g, r).models = {} /\ Catalogs!NewEntry(g, r).negative = {}
  BY DEF Catalogs!NewEntry, Catalogs!Entry

\* prune only drops entries.
LEMMA PruningDrops ==
    ASSUME NEW base \in [CatalogAccounts -> Catalogs!Entry \cup {None}],
           NEW es \in Catalogs!Pruned(base)
    PROVE  /\ es \in [CatalogAccounts -> Catalogs!Entry \cup {None}]
           /\ \A a \in CatalogAccounts : es[a] \in {None, base[a]}
<1>1. CASE es = base
  BY <1>1
<1>2. CASE es # base
  <2>1. PICK out : es = [a \in CatalogAccounts |-> IF a \in out THEN None ELSE base[a]]
    BY <1>2 DEF Catalogs!Pruned
  <2> QED
    BY <2>1
<1> QED
  BY <1>1, <1>2

\* currentEntry drops entries of other credentials.
LEMMA CurrentDrops ==
    ASSUME Catalogs!Shapes, NEW a \in CatalogAccounts
    PROVE  /\ Catalogs!Current(x2, a) \in {None, x2[a]}
           /\ Catalogs!Current(x2, a) \in Catalogs!Entry \cup {None}
           /\ Catalogs!Current(x2, a) # None
                => Catalogs!Current(x2, a).generation = Catalogs!Generation(a)
  BY DEF Catalogs!Current, Catalogs!Shapes

\* reconcile only drops entries, those of other credentials among them.
LEMMA ReconcilingDrops ==
    ASSUME Catalogs!Shapes, NEW es \in Catalogs!Reconciled
    PROVE  /\ es \in [CatalogAccounts -> Catalogs!Entry \cup {None}]
           /\ \A a \in CatalogAccounts :
                /\ es[a] \in {None, x2[a]}
                /\ es[a] # None => es[a].generation = Catalogs!Generation(a)
<1> DEFINE base == [a \in CatalogAccounts |-> Catalogs!Current(x2, a)]
<1>1. base \in [CatalogAccounts -> Catalogs!Entry \cup {None}]
  BY CurrentDrops
<1>2. es \in Catalogs!Pruned(base)
  BY DEF Catalogs!Reconciled
<1>3. \A a \in CatalogAccounts : base[a] = Catalogs!Current(x2, a)
  OBVIOUS
<1> HIDE DEF base
<1> QED
  BY <1>1, <1>2, <1>3, PruningDrops, CurrentDrops

\* Nothing is listed at first.
LEMMA CatalogBegins ==
    ASSUME Catalogs!CatalogAssumption, Catalogs!Init
    PROVE  Catalogs!CatalogInv
<1>1. Catalogs!Shapes
  BY CatalogBounds DEF Catalogs!Init, Catalogs!Shapes, Catalogs!Generations, Catalogs!Times
<1>2. Catalogs!OwnersAreFenced
  BY DEF Catalogs!Init, Catalogs!OwnersAreFenced, Catalogs!FetchesAreFenced, Catalogs!Generation,
         Catalogs!Fetches
<1>3. Catalogs!EntriesAreSound
  BY DEF Catalogs!Init, Catalogs!EntriesAreSound
<1>4. Catalogs!CacheIsRemembered
  <2>1. x4 = <<>> /\ x4 \in Seq({}) /\ DOMAIN x4 = {}
    BY DEF Catalogs!Init
  <2> QED
    BY <2>1, SequenceOfItsOwn DEF Catalogs!CacheIsRemembered
<1> QED
  BY <1>1, <1>2, <1>3, <1>4 DEF Catalogs!CatalogInv

\* Entries are dropped or renewed.
LEMMA EntriesChange ==
    ASSUME Catalogs!CatalogAssumption, Catalogs!CatalogInv,
           x2' \in [CatalogAccounts -> Catalogs!Entry \cup {None}],
           \A b \in CatalogAccounts : x2'[b] \in {None, x2[b]} \/ Catalogs!Renewed(b, x2'[b]),
           x5' \in 0..CatalogRevisions, x5 <= x5',
           UNCHANGED <<x1, x4, x6>>, DOMAIN x3' = CatalogAccounts, Catalogs!FetchesAreFenced'
    PROVE  Catalogs!CatalogInv'
<1> USE DEF Catalogs!CatalogInv
<1>1. Catalogs!Shapes'
  BY DEF Catalogs!Shapes
<1>2. Catalogs!OwnersAreFenced'
  <2>1. \A b \in CatalogAccounts : Catalogs!Generation(b) \in Nat
          /\ Catalogs!Generation(b)' = Catalogs!Generation(b)
    BY DEF Catalogs!Shapes, Catalogs!Generation, Catalogs!Generations
  <2>2. ASSUME NEW b \in CatalogAccounts
        PROVE  /\ x1'[b].owner <= Catalogs!Generation(b)'
               /\ x2'[b] # None =>
                    /\ x2'[b].generation <= Catalogs!Generation(b)'
                    /\ x2'[b].hasCatalog /\ x2'[b].generation = Catalogs!Generation(b)'
                         => x2'[b].of = x1'[b].owner
    <3>1. CASE x2'[b] \in {None, x2[b]}
      BY <2>1, <3>1 DEF Catalogs!OwnersAreFenced
    <3>2. CASE Catalogs!Renewed(b, x2'[b])
      BY <2>1, <3>2 DEF Catalogs!OwnersAreFenced, Catalogs!Renewed
    <3> QED
      BY <3>1, <3>2
  <2> QED
    BY <2>2 DEF Catalogs!OwnersAreFenced, Catalogs!FetchesAreFenced
<1>3. \A b \in CatalogAccounts : x2[b] # None => x2[b] \in Catalogs!Entry
  BY DEF Catalogs!Shapes
<1>4. x5 \in Nat /\ x5' \in Nat
      /\ \A b \in CatalogAccounts : x2[b] # None => x2[b].revision \in Nat
  BY <1>3 DEF Catalogs!Shapes, Catalogs!Entry
<1>5. Catalogs!EntriesAreSound'
  BY <1>4 DEF Catalogs!EntriesAreSound, Catalogs!Renewed, Catalogs!Entry
<1>6. ASSUME NEW i \in DOMAIN x4 PROVE Catalogs!Remembered(x4[i])'
  <2> DEFINE c == x4[i]
  <2>1. PICK models \in [DOMAIN c.key -> SUBSET CatalogModels] :
          /\ c.list = Catalogs!ListOf(c.key, models)
          /\ \A b \in DOMAIN c.key :
              /\ c.key[b][1] \in 0..x5
              /\ b \in CatalogAccounts /\ x2[b] # None /\ x2[b].revision = c.key[b][1]
                   => x2[b].models = models[b]
    BY <1>6 DEF Catalogs!CacheIsRemembered, Catalogs!Remembered, Catalogs!MadeOf
  <2>2. c' = c
    OBVIOUS
  <2>3. ASSUME NEW b \in DOMAIN c.key
        PROVE  /\ c.key[b][1] \in 0..x5'
               /\ b \in CatalogAccounts /\ x2'[b] # None /\ x2'[b].revision = c.key[b][1]
                    => x2'[b].models = models[b]
    <3>1. c.key[b][1] <= x5 /\ c.key[b][1] \in 0..x5'
      BY <1>4, <2>1, <2>3
    <3>2. ASSUME b \in CatalogAccounts, x2'[b] # None, x2'[b].revision = c.key[b][1]
          PROVE  x2'[b].models = models[b]
      <4>1. CASE x2'[b] = x2[b]
        BY <2>1, <2>3, <3>2, <4>1
      <4>2. CASE Catalogs!Renewed(b, x2'[b])
        BY <1>4, <2>1, <2>3, <3>1, <3>2, <4>2 DEF Catalogs!Renewed
      <4> QED
        BY <3>2, <4>1, <4>2
    <3> QED
      BY <3>1, <3>2
  <2> HIDE DEF c
  <2>4. Catalogs!Remembered(c)'
    BY <2>1, <2>2, <2>3 DEF Catalogs!Remembered, Catalogs!MadeOf
  <2> QED
    BY <2>4 DEF c
<1>7. Catalogs!CacheIsRemembered'
  BY <1>6 DEF Catalogs!CacheIsRemembered
<1> QED
  BY <1>1, <1>2, <1>5, <1>7

\* The fences of discoveries under way, of the invariant.
LEMMA FencesHold ==
    Catalogs!CatalogInv => Catalogs!FetchesAreFenced /\ DOMAIN x3 = CatalogAccounts
  BY DEF Catalogs!CatalogInv, Catalogs!OwnersAreFenced, Catalogs!FetchesAreFenced, Catalogs!Shapes

\* entryFor: the entry there is, or a new one.
LEMMA EntriesForTheOwner ==
    ASSUME Catalogs!CatalogAssumption, Catalogs!CatalogInv,
           NEW es \in [CatalogAccounts -> Catalogs!Entry \cup {None}],
           NEW a \in CatalogAccounts,
           es[a] \in {None, x2[a]}, Catalogs!RevisionAfter(es, a,
           Catalogs!Generation(a)) <= CatalogRevisions
    PROVE  LET e == Catalogs!EntryFor(es, a, Catalogs!Generation(a))
               r == Catalogs!RevisionAfter(es, a, Catalogs!Generation(a))
           IN  /\ e \in Catalogs!Entry /\ e.generation = Catalogs!Generation(a)
               /\ e.hasCatalog => e.of = x1[a].owner
               /\ e.negative \cap e.models = {}
               /\ r \in 0..CatalogRevisions /\ x5 <= r /\ e.revision <= r
               /\ \/ e.revision > x5 /\ e.models = {}
                  \/ x2[a] # None /\ e = x2[a]
<1> DEFINE g == Catalogs!Generation(a)
<1>1. g \in Catalogs!Generations /\ x5 \in 0..CatalogRevisions /\ CatalogRevisions \in Nat
  BY CatalogBounds DEF Catalogs!CatalogInv, Catalogs!Shapes, Catalogs!Generation
<1>2. CASE Catalogs!HasEntryFor(es, a, g)
  <2>1. /\ Catalogs!EntryFor(es, a, g) = es[a] /\ es[a] = x2[a] /\ x2[a] # None
        /\ x2[a].generation = g /\ Catalogs!RevisionAfter(es, a, g) = x5
    BY <1>2 DEF Catalogs!HasEntryFor, Catalogs!EntryFor, Catalogs!RevisionAfter
  <2>2. x2[a] \in Catalogs!Entry
    BY <2>1 DEF Catalogs!CatalogInv, Catalogs!Shapes
  <2> QED
    BY <1>1, <2>1, <2>2
       DEF Catalogs!CatalogInv, Catalogs!OwnersAreFenced, Catalogs!EntriesAreSound
<1>3. CASE ~ Catalogs!HasEntryFor(es, a, g)
  <2>1. /\ Catalogs!EntryFor(es, a, g) = Catalogs!NewEntry(g, x5 + 1)
        /\ Catalogs!RevisionAfter(es, a, g) = x5 + 1
    BY <1>3 DEF Catalogs!EntryFor, Catalogs!RevisionAfter
  <2>2. x5 + 1 \in 0..CatalogRevisions
    BY <1>1, <2>1
  <2> QED
    BY <1>1, <2>1, <2>2, NewEntriesAreEntries
<1> QED
  BY <1>2, <1>3

\* A discovery that ended fences the others.
LEMMA FetchEnds ==
    ASSUME Catalogs!CatalogAssumption, Catalogs!CatalogInv, NEW a \in CatalogAccounts,
           NEW key \in Catalogs!Fetches(a),
           x3' = Catalogs!Ended(a, key), UNCHANGED x1
    PROVE  DOMAIN x3' = CatalogAccounts /\ Catalogs!FetchesAreFenced'
<1>1. DOMAIN x3 = CatalogAccounts /\ Catalogs!FetchesAreFenced
  BY FencesHold
<1>2. /\ DOMAIN x3' = CatalogAccounts
      /\ \A b \in CatalogAccounts \ {a} : x3'[b] = x3[b]
      /\ x3'[a] = [g \in Catalogs!Fetches(a) \ {key} |-> x3[a][g]]
  BY <1>1 DEF Catalogs!Ended
<1>3. \A b \in CatalogAccounts : \A g \in Catalogs!Fetches(b)' :
        g \in Catalogs!Fetches(b) /\ x3'[b][g] = x3[b][g]
  BY <1>2 DEF Catalogs!Fetches
<1> QED
  BY <1>1, <1>2, <1>3 DEF Catalogs!FetchesAreFenced, Catalogs!Generation

\* discoverAccount: what it starts is of the present owner.
LEMMA FetchBegins ==
    ASSUME Catalogs!CatalogAssumption, Catalogs!CatalogInv, NEW a \in CatalogAccounts,
           UNCHANGED x1,
           \/ x3' = x3
           \/ x3' = [x3 EXCEPT ![a] =
                            [h \in Catalogs!Fetches(a) \cup {Catalogs!Generation(a)} |->
                               IF h = Catalogs!Generation(a) THEN x1[a] ELSE x3[a][h]]]
    PROVE  DOMAIN x3' = CatalogAccounts /\ Catalogs!FetchesAreFenced'
<1>1. DOMAIN x3 = CatalogAccounts /\ Catalogs!FetchesAreFenced
  BY FencesHold
<1>2. x1[a] \in Catalogs!Fetch /\ x1[a].generation = Catalogs!Generation(a)
        /\ Catalogs!Generation(a) \in Nat
  BY DEF Catalogs!CatalogInv, Catalogs!Shapes, Catalogs!Fetch, Catalogs!Generation,
         Catalogs!Generations
<1>3. CASE x3' = x3
  BY <1>1, <1>3 DEF Catalogs!FetchesAreFenced, Catalogs!Generation, Catalogs!Fetches
<1>4. CASE x3' = [x3 EXCEPT ![a] =
                         [h \in Catalogs!Fetches(a) \cup {Catalogs!Generation(a)} |->
                            IF h = Catalogs!Generation(a) THEN x1[a] ELSE x3[a][h]]]
  <2>1. /\ DOMAIN x3' = CatalogAccounts
        /\ \A b \in CatalogAccounts \ {a} : x3'[b] = x3[b]
        /\ x3'[a] = [h \in Catalogs!Fetches(a) \cup {Catalogs!Generation(a)} |->
                            IF h = Catalogs!Generation(a) THEN x1[a] ELSE x3[a][h]]
    BY <1>1, <1>4
  <2>2. \A b \in CatalogAccounts : \A g \in Catalogs!Fetches(b)' :
          \/ g \in Catalogs!Fetches(b) /\ x3'[b][g] = x3[b][g]
          \/ b = a /\ x3'[b][g] = x1[a]
    BY <2>1 DEF Catalogs!Fetches
  <2> QED
    BY <1>1, <1>2, <2>1, <2>2 DEF Catalogs!FetchesAreFenced, Catalogs!Generation
<1> QED
  BY <1>3, <1>4

\* discoverAccount: what it reads is fenced by the generation it reads.
LEMMA Discovered ==
    ASSUME Catalogs!CatalogAssumption, Catalogs!CatalogInv, NEW a \in CatalogAccounts,
           Catalogs!Discover(a)
    PROVE  Catalogs!CatalogInv'
<1>1. PICK es \in Catalogs!Reconciled :
        LET g == Catalogs!Generation(a)
            e == Catalogs!EntryFor(es, a, g)
        IN /\ x2' = [es EXCEPT ![a] = e]
           /\ x5' = Catalogs!RevisionAfter(es, a, g)
           /\ \/ x3' = x3
              \/ x3' = [x3 EXCEPT ![a] =
                               [h \in Catalogs!Fetches(a) \cup {g} |->
                                  IF h = g THEN x1[a] ELSE x3[a][h]]]
  BY DEF Catalogs!Discover
<1>2. x5' <= CatalogRevisions /\ UNCHANGED <<x1, x4, x6>>
  BY DEF Catalogs!Discover
<1> DEFINE e == Catalogs!EntryFor(es, a, Catalogs!Generation(a))
           r == Catalogs!RevisionAfter(es, a, Catalogs!Generation(a))
<1>3. /\ es \in [CatalogAccounts -> Catalogs!Entry \cup {None}]
      /\ \A b \in CatalogAccounts : es[b] \in {None, x2[b]}
  BY ReconcilingDrops DEF Catalogs!CatalogInv
<1>4. x5' = r /\ x2' = [es EXCEPT ![a] = e]
  BY <1>1
<1>5. /\ e \in Catalogs!Entry /\ e.generation = Catalogs!Generation(a)
      /\ e.hasCatalog => e.of = x1[a].owner
      /\ e.negative \cap e.models = {}
      /\ r \in 0..CatalogRevisions /\ x5 <= r /\ e.revision <= r
      /\ \/ e.revision > x5 /\ e.models = {}
         \/ x2[a] # None /\ e = x2[a]
  BY <1>2, <1>3, <1>4, EntriesForTheOwner
<1>6. DOMAIN x3' = CatalogAccounts /\ Catalogs!FetchesAreFenced'
  BY <1>1, <1>2, FetchBegins
<1> HIDE DEF e, r
<1>7. x2' \in [CatalogAccounts -> Catalogs!Entry \cup {None}]
  BY <1>3, <1>4, <1>5
<1>8. \A b \in CatalogAccounts : x2'[b] \in {None, x2[b]} \/ Catalogs!Renewed(b, x2'[b])
  BY <1>3, <1>4, <1>5 DEF Catalogs!Renewed
<1> QED
  BY <1>2, <1>4, <1>5, <1>6, <1>7, <1>8, EntriesChange

\* An answer or a failure that comes too late drops what is not current.
LEMMA DroppedIfOld ==
    ASSUME Catalogs!CatalogAssumption, Catalogs!CatalogInv, NEW a \in CatalogAccounts,
           NEW key \in Catalogs!Fetches(a),
           x2' = [x2 EXCEPT ![a] = Catalogs!Current(x2, a)],
           x3' = Catalogs!Ended(a, key), UNCHANGED <<x1, x4, x6, x5>>
    PROVE  Catalogs!CatalogInv'
<1>1. Catalogs!Current(x2, a) \in {None, x2[a]}
        /\ Catalogs!Current(x2, a) \in Catalogs!Entry \cup {None}
  BY CurrentDrops DEF Catalogs!CatalogInv
<1>2. x2' \in [CatalogAccounts -> Catalogs!Entry \cup {None}] /\ x5' \in 0..CatalogRevisions
      /\ x5 <= x5' /\ \A b \in CatalogAccounts : x2'[b] \in {None, x2[b]}
  BY <1>1 DEF Catalogs!CatalogInv, Catalogs!Shapes
<1>3. DOMAIN x3' = CatalogAccounts /\ Catalogs!FetchesAreFenced'
  BY FetchEnds
<1> QED
  BY <1>2, <1>3, EntriesChange

\* A list, of the present generation, replaces the catalog.
LEMMA Answered ==
    ASSUME Catalogs!CatalogAssumption, Catalogs!CatalogInv, NEW a \in CatalogAccounts, NEW key,
           NEW models \in SUBSET CatalogModels,
           Catalogs!Answer(a, key, models)
    PROVE  Catalogs!CatalogInv'
<1> DEFINE f == x3[a][key]
           g == Catalogs!Generation(a)
           e0 == Catalogs!EntryFor(x2, a, g)
           o == f.owner
           r == Catalogs!RevisionAfter(x2, a, g) + 1
           e == [e0 EXCEPT !.hasCatalog = TRUE, !.of = o, !.models = models,
                   !.negative = {}, !.revision = r, !.lastSuccess = x6,
                   !.lastFailure = Catalogs!Never]
           base == [x2 EXCEPT ![a] = e]
<1>1. /\ key \in Catalogs!Fetches(a) /\ x5' <= CatalogRevisions /\ x3' = Catalogs!Ended(a, key)
      /\ UNCHANGED <<x1, x4, x6>>
  BY DEF Catalogs!Answer
<1>2. CASE Catalogs!StillCurrent(a, f)
  <2>1. x2' \in Catalogs!Pruned(base) /\ x5' = r
    BY <1>2 DEF Catalogs!Answer
  <2>2. x2 \in [CatalogAccounts -> Catalogs!Entry \cup {None}] /\ x5 \in Nat
          /\ CatalogRevisions \in Nat
        /\ x6 \in Catalogs!Times
    BY CatalogBounds DEF Catalogs!CatalogInv, Catalogs!Shapes
  <2>3. f \in Catalogs!Fetch /\ (f.generation = g => o = x1[a].owner)
    BY <1>1, FencesHold DEF Catalogs!FetchesAreFenced
  <2>4. o = x1[a].owner /\ o \in Catalogs!Generations
    BY <1>2, <2>3 DEF Catalogs!StillCurrent, Catalogs!Fetch
  <2>5. r \in Nat /\ r - 1 = Catalogs!RevisionAfter(x2, a, g) /\ x5 <= r - 1
    BY <2>2 DEF Catalogs!RevisionAfter
  <2>6. r \in 0..CatalogRevisions /\ Catalogs!RevisionAfter(x2, a, g) <= CatalogRevisions
          /\ x5 < r
    BY <1>1, <2>1, <2>2, <2>5
  <2>7. e0 \in Catalogs!Entry /\ e0.generation = g
    BY <2>2, <2>6, EntriesForTheOwner
  <2> HIDE DEF f, e0, o, r
  <2>8. /\ e \in Catalogs!Entry /\ e.generation = g /\ e.of = o
        /\ e.models = models /\ e.negative = {} /\ e.revision = r
    <3>1. e = [e0 EXCEPT !.hasCatalog = TRUE, !.of = o, !.models = models,
                 !.negative = {}, !.revision = r, !.lastSuccess = x6,
                 !.lastFailure = Catalogs!Never]
      OBVIOUS
    <3> HIDE DEF e
    <3>2. /\ e \in Catalogs!Entry /\ e.generation = e0.generation /\ e.of = o
          /\ e.models = models /\ e.negative = {} /\ e.revision = r
      BY <2>2, <2>4, <2>6, <2>7, <3>1 DEF Catalogs!Entry
    <3> QED
      BY <2>7, <3>2
  <2> HIDE DEF e
  <2>9. Catalogs!Renewed(a, e)
    BY <2>1, <2>2, <2>4, <2>6, <2>8 DEF Catalogs!Renewed
  <2>10. /\ base \in [CatalogAccounts -> Catalogs!Entry \cup {None}] /\ base[a] = e
         /\ \A b \in CatalogAccounts \ {a} : base[b] = x2[b]
    BY <2>2, <2>8
  <2> HIDE DEF base
  <2>11. /\ x2' \in [CatalogAccounts -> Catalogs!Entry \cup {None}]
         /\ \A b \in CatalogAccounts : x2'[b] \in {None, x2[b]} \/ Catalogs!Renewed(b, x2'[b])
    BY <2>1, <2>9, <2>10, PruningDrops
  <2>12. DOMAIN x3' = CatalogAccounts /\ Catalogs!FetchesAreFenced'
    BY <1>1, FetchEnds
  <2>13. x5' \in 0..CatalogRevisions /\ x5 <= x5'
    BY <2>1, <2>2, <2>6
  <2> QED
    BY <1>1, <2>11, <2>12, <2>13, EntriesChange
<1>3. CASE ~ Catalogs!StillCurrent(a, f)
  BY <1>1, <1>3, DroppedIfOld DEF Catalogs!Answer
<1> QED
  BY <1>2, <1>3

\* A failure is noted in the entry.
LEMMA Failed ==
    ASSUME Catalogs!CatalogAssumption, Catalogs!CatalogInv, NEW a \in CatalogAccounts, NEW key,
           Catalogs!Fail(a, key)
    PROVE  Catalogs!CatalogInv'
<1> DEFINE f == x3[a][key]
           g == Catalogs!Generation(a)
           e0 == Catalogs!EntryFor(x2, a, g)
           r == Catalogs!RevisionAfter(x2, a, g)
           e == [e0 EXCEPT !.lastFailure = x6]
<1>1. /\ key \in Catalogs!Fetches(a) /\ x5' <= CatalogRevisions /\ x3' = Catalogs!Ended(a, key)
      /\ UNCHANGED <<x1, x4, x6>>
  BY DEF Catalogs!Fail
<1>2. CASE Catalogs!StillCurrent(a, f) /\ x2' = [x2 EXCEPT ![a] = e] /\ x5' = r
  <2>1. x2 \in [CatalogAccounts -> Catalogs!Entry \cup {None}] /\ x6 \in Catalogs!Times
    BY DEF Catalogs!CatalogInv, Catalogs!Shapes
  <2>2. /\ e0 \in Catalogs!Entry /\ e0.generation = g
        /\ e0.hasCatalog => e0.of = x1[a].owner
        /\ e0.negative \cap e0.models = {}
        /\ r \in 0..CatalogRevisions /\ x5 <= r /\ e0.revision <= r
        /\ \/ e0.revision > x5 /\ e0.models = {}
           \/ x2[a] # None /\ e0 = x2[a]
    BY <1>1, <1>2, <2>1, EntriesForTheOwner
  <2> HIDE DEF e0, r
  <2>3. /\ e \in Catalogs!Entry /\ e.generation = e0.generation
             /\ (e.hasCatalog <=> e0.hasCatalog)
        /\ e.of = e0.of /\ e.negative = e0.negative /\ e.models = e0.models
        /\ e.revision = e0.revision
    BY <2>1, <2>2 DEF Catalogs!Entry
  <2> HIDE DEF e
  <2>4. Catalogs!Renewed(a, e)
    BY <1>2, <2>2, <2>3 DEF Catalogs!Renewed
  <2>5. /\ x2' \in [CatalogAccounts -> Catalogs!Entry \cup {None}]
        /\ \A b \in CatalogAccounts : x2'[b] \in {None, x2[b]} \/ Catalogs!Renewed(b, x2'[b])
    BY <1>2, <2>1, <2>3, <2>4
  <2>6. DOMAIN x3' = CatalogAccounts /\ Catalogs!FetchesAreFenced'
    BY <1>1, FetchEnds
  <2> QED
    BY <1>1, <1>2, <2>2, <2>5, <2>6, EntriesChange
<1>3. CASE x2' = [x2 EXCEPT ![a] = Catalogs!Current(x2, a)] /\ UNCHANGED x5
  BY <1>1, <1>3, DroppedIfOld
<1> QED
  <2>1. Catalogs!StillCurrent(a, f) => f.generation = g
    BY DEF Catalogs!StillCurrent
  <2> QED
    BY <1>2, <1>3, <2>1 DEF Catalogs!Fail

\* markUnsupported: the model is not offered any more.
LEMMA Refused ==
    ASSUME Catalogs!CatalogAssumption, Catalogs!CatalogInv, NEW a \in CatalogAccounts,
           NEW m \in CatalogModels,
           Catalogs!MarkUnsupported(a, m)
    PROVE  Catalogs!CatalogInv'
<1> DEFINE e0 == Catalogs!EntryFor(x2, a, Catalogs!Generation(a))
           r == Catalogs!RevisionAfter(x2, a, Catalogs!Generation(a))
           n == IF m \in e0.models THEN r + 1 ELSE e0.revision
<1>1. PICK negative \in SUBSET (e0.negative \cup {m}) :
        /\ m \in negative
        /\ x2' = [x2 EXCEPT ![a] =
             [e0 EXCEPT !.negative = negative, !.models = e0.models \ {m},
                       !.revision = n, !.lastSuccess = Catalogs!Never,
                       !.lastFailure = Catalogs!Never]]
        /\ x5' = IF m \in e0.models THEN r + 1 ELSE r
  BY DEF Catalogs!MarkUnsupported
<1>2. x5' <= CatalogRevisions /\ UNCHANGED <<x1, x3, x4, x6>>
  BY DEF Catalogs!MarkUnsupported
<1>3. x2 \in [CatalogAccounts -> Catalogs!Entry \cup {None}] /\ x5 \in Nat
        /\ CatalogRevisions \in Nat
  BY CatalogBounds DEF Catalogs!CatalogInv, Catalogs!Shapes
<1>4. r \in Nat /\ r <= CatalogRevisions
  BY <1>1, <1>2, <1>3 DEF Catalogs!RevisionAfter
<1>5. /\ e0 \in Catalogs!Entry /\ e0.generation = Catalogs!Generation(a)
      /\ e0.hasCatalog => e0.of = x1[a].owner
      /\ e0.negative \cap e0.models = {}
      /\ r \in 0..CatalogRevisions /\ x5 <= r /\ e0.revision <= r
      /\ \/ e0.revision > x5 /\ e0.models = {}
         \/ x2[a] # None /\ e0 = x2[a]
  BY <1>3, <1>4, EntriesForTheOwner
<1> HIDE DEF e0, r
<1>6. /\ n \in 0..CatalogRevisions /\ n <= x5' /\ x5' \in 0..CatalogRevisions
      /\ x5 <= x5'
      /\ m \in e0.models => n > x5
      /\ m \notin e0.models => n = e0.revision
  BY <1>1, <1>2, <1>3, <1>4, <1>5 DEF Catalogs!Entry
<1> HIDE DEF n
<1> DEFINE e == [e0 EXCEPT !.negative = negative, !.models = e0.models \ {m},
                    !.revision = n, !.lastSuccess = Catalogs!Never,
                    !.lastFailure = Catalogs!Never]
<1>7. negative \in SUBSET CatalogModels
  BY <1>5 DEF Catalogs!Entry
<1>8. /\ e \in Catalogs!Entry /\ e.generation = e0.generation /\ (e.hasCatalog <=> e0.hasCatalog)
      /\ e.of = e0.of /\ e.negative = negative /\ e.models = e0.models \ {m} /\ e.revision = n
  BY <1>5, <1>6, <1>7 DEF Catalogs!Entry
<1>9. x2' = [x2 EXCEPT ![a] = e]
  BY <1>1
<1> HIDE DEF e
<1>10. Catalogs!Renewed(a, e)
  BY <1>5, <1>6, <1>8 DEF Catalogs!Renewed
<1>11. /\ x2' \in [CatalogAccounts -> Catalogs!Entry \cup {None}]
       /\ \A b \in CatalogAccounts : x2'[b] \in {None, x2[b]} \/ Catalogs!Renewed(b, x2'[b])
  BY <1>3, <1>8, <1>9, <1>10
<1>12. DOMAIN x3' = CatalogAccounts /\ Catalogs!FetchesAreFenced'
  BY <1>2, FencesHold DEF Catalogs!FetchesAreFenced, Catalogs!Generation, Catalogs!Fetches
<1> QED
  BY <1>2, <1>6, <1>11, <1>12, EntriesChange

\* A credential that changes leaves every discovery and entry of it behind.
LEMMA CredentialsChange ==
    ASSUME Catalogs!CatalogAssumption, Catalogs!CatalogInv, NEW a \in CatalogAccounts,
           x1' \in [CatalogAccounts -> [generation : Catalogs!Generations,
               owner : Catalogs!Generations]],
           \A b \in CatalogAccounts \ {a} : x1'[b] = x1[b],
           \/ x1'[a] = x1[a]
           \/ /\ x1'[a].generation > Catalogs!Generation(a)
              /\ x1'[a].owner <= x1'[a].generation,
           UNCHANGED <<x2, x4, x5, x6>>,
           DOMAIN x3' = CatalogAccounts, Catalogs!FetchesAreFenced'
    PROVE  Catalogs!CatalogInv'
<1> USE DEF Catalogs!CatalogInv
<1>1. Catalogs!Shapes'
  BY DEF Catalogs!Shapes
<1>2. Catalogs!OwnersAreFenced'
  <2>1. \A b \in CatalogAccounts : Catalogs!Generation(b) \in Nat
          /\ Catalogs!Generation(b)' \in Nat
    BY DEF Catalogs!Shapes, Catalogs!Generation, Catalogs!Generations
  <2>2. \A b \in CatalogAccounts : x2[b] # None => x2[b].generation \in Nat
    BY DEF Catalogs!Shapes, Catalogs!Entry, Catalogs!Generations
  <2>3. ASSUME NEW b \in CatalogAccounts
        PROVE  /\ x1'[b].owner <= Catalogs!Generation(b)'
               /\ x2'[b] # None =>
                    /\ x2'[b].generation <= Catalogs!Generation(b)'
                    /\ x2'[b].hasCatalog /\ x2'[b].generation = Catalogs!Generation(b)'
                         => x2'[b].of = x1'[b].owner
    <3>1. CASE x1'[b] = x1[b]
      BY <2>1, <3>1 DEF Catalogs!OwnersAreFenced, Catalogs!Generation
    <3>2. CASE b = a /\ x1'[a].generation > Catalogs!Generation(a)
                     /\ x1'[a].owner <= x1'[a].generation
      BY <2>1, <2>2, <3>2 DEF Catalogs!OwnersAreFenced, Catalogs!Generation
    <3> QED
      BY <3>1, <3>2
  <2> QED
    BY <2>3 DEF Catalogs!OwnersAreFenced, Catalogs!FetchesAreFenced
<1>3. Catalogs!EntriesAreSound'
  BY DEF Catalogs!EntriesAreSound
<1>4. Catalogs!CacheIsRemembered'
  BY DEF Catalogs!CacheIsRemembered, Catalogs!Remembered, Catalogs!MadeOf
<1> QED
  BY <1>1, <1>2, <1>3, <1>4

\* Generations that may grow stay in their bound.
LEMMA Renewable ==
    ASSUME Catalogs!CatalogAssumption, Catalogs!CatalogInv, NEW a \in CatalogAccounts,
           Catalogs!MayChange
    PROVE  /\ Catalogs!Generation(a) + 1 \in Catalogs!Generations
                /\ x1[a].owner + 1 \in Catalogs!Generations
           /\ x1[a].owner \in Catalogs!Generations /\ x1[a].owner <= Catalogs!Generation(a)
           /\ Catalogs!Generation(a) \in Nat /\ x1[a].owner \in Nat
<1>1. /\ x1[a].owner \in Catalogs!Generations /\ Catalogs!Generation(a) \in Catalogs!Generations
      /\ x1[a].owner <= Catalogs!Generation(a) /\ Catalogs!Generation(a) < CatalogGenerations
  BY DEF Catalogs!CatalogInv, Catalogs!Shapes, Catalogs!OwnersAreFenced, Catalogs!Generation,
         Catalogs!MayChange
<1> QED
  BY <1>1, CatalogBounds DEF Catalogs!Generations

\* Other tokens and other credentials have a generation of their own.
LEMMA CredentialsRenewed ==
    ASSUME Catalogs!CatalogAssumption, Catalogs!CatalogInv, NEW a \in CatalogAccounts,
           Catalogs!Rotate(a) \/ Catalogs!Replace(a)
    PROVE  Catalogs!CatalogInv'
<1>1. /\ Catalogs!Generation(a) + 1 \in Catalogs!Generations
           /\ x1[a].owner + 1 \in Catalogs!Generations
      /\ x1[a].owner \in Catalogs!Generations /\ x1[a].owner <= Catalogs!Generation(a)
      /\ Catalogs!Generation(a) \in Nat /\ x1[a].owner \in Nat
  BY Renewable DEF Catalogs!Rotate, Catalogs!Replace
<1>2. x1 \in [CatalogAccounts -> [generation : Catalogs!Generations,
          owner : Catalogs!Generations]]
  BY DEF Catalogs!CatalogInv, Catalogs!Shapes
<1>3. UNCHANGED <<x2, x3, x4, x5, x6>>
  BY DEF Catalogs!Rotate, Catalogs!Replace
<1>4. /\ x1' \in [CatalogAccounts -> [generation : Catalogs!Generations,
             owner : Catalogs!Generations]]
      /\ \A b \in CatalogAccounts \ {a} : x1'[b] = x1[b]
      /\ x1'[a].generation = Catalogs!Generation(a) + 1
      /\ x1'[a].owner \in {x1[a].owner, x1[a].owner + 1}
  <2>1. CASE Catalogs!Rotate(a)
    BY <1>1, <1>2, <2>1 DEF Catalogs!Rotate
  <2>2. CASE Catalogs!Replace(a)
    BY <1>1, <1>2, <2>2 DEF Catalogs!Replace, Catalogs!Generation
  <2> QED
    BY <2>1, <2>2
<1>5. DOMAIN x3' = CatalogAccounts /\ Catalogs!FetchesAreFenced'
  <2>1. \A b \in CatalogAccounts : \A g \in Catalogs!Fetches(b) : x3[b][g].generation \in Nat
    BY FencesHold DEF Catalogs!FetchesAreFenced, Catalogs!Fetch, Catalogs!Generations
  <2>2. ASSUME NEW b \in CatalogAccounts, NEW g \in Catalogs!Fetches(b)'
        PROVE  LET f == x3'[b][g]
               IN /\ f \in Catalogs!Fetch /\ f.generation <= Catalogs!Generation(b)'
                  /\ f.generation = Catalogs!Generation(b)' => f.owner = x1'[b].owner
    <3>1. CASE b # a
      BY <1>3, <1>4, <3>1, FencesHold
         DEF Catalogs!FetchesAreFenced, Catalogs!Generation, Catalogs!Fetches
    <3>2. CASE b = a
      BY <1>1, <1>3, <1>4, <2>1, <3>2, FencesHold
         DEF Catalogs!FetchesAreFenced, Catalogs!Generation, Catalogs!Fetches
    <3> QED
      BY <3>1, <3>2
  <2> QED
    BY <1>3, <2>2, FencesHold DEF Catalogs!FetchesAreFenced
<1>6. x1'[a].generation > Catalogs!Generation(a) /\ x1'[a].owner <= x1'[a].generation
  BY <1>1, <1>4
<1> QED
  BY <1>3, <1>4, <1>5, <1>6, CredentialsChange

\* A discovery that refreshed the token reads the credentials again.
LEMMA CredentialsRefreshed ==
    ASSUME Catalogs!CatalogAssumption, Catalogs!CatalogInv, NEW a \in CatalogAccounts, NEW key,
           Catalogs!RefreshCredentials(a, key)
    PROVE  Catalogs!CatalogInv'
<1>1. /\ key \in Catalogs!Fetches(a) /\ UNCHANGED <<x2, x4, x5, x6>>
      /\ x3' = [x3 EXCEPT ![a][key] = x1'[a]]
      /\ \/ x1' = x1
         \/ Catalogs!MayChange /\ x1' = [x1 EXCEPT ![a].generation = Catalogs!Generation(a) + 1]
  BY DEF Catalogs!RefreshCredentials
<1>2. x1 \in [CatalogAccounts -> [generation : Catalogs!Generations,
          owner : Catalogs!Generations]]
  BY DEF Catalogs!CatalogInv, Catalogs!Shapes
<1>3. Catalogs!MayChange =>
        /\ Catalogs!Generation(a) + 1 \in Catalogs!Generations
             /\ x1[a].owner \in Catalogs!Generations
        /\ x1[a].owner <= Catalogs!Generation(a)
        /\ Catalogs!Generation(a) \in Nat /\ x1[a].owner \in Nat
  BY Renewable
<1>4. /\ x1' \in [CatalogAccounts -> [generation : Catalogs!Generations,
             owner : Catalogs!Generations]]
      /\ \A b \in CatalogAccounts \ {a} : x1'[b] = x1[b]
      /\ \/ x1'[a] = x1[a]
         \/ /\ x1'[a].generation > Catalogs!Generation(a)
            /\ x1'[a].owner <= x1'[a].generation
  <2>1. CASE x1' = x1
    BY <1>2, <2>1
  <2>2. CASE Catalogs!MayChange /\ x1' = [x1 EXCEPT ![a].generation = Catalogs!Generation(a) + 1]
    BY <1>2, <1>3, <2>2
  <2> QED
    BY <1>1, <2>1, <2>2
<1>5. DOMAIN x3' = CatalogAccounts /\ Catalogs!FetchesAreFenced'
  <2>1. /\ DOMAIN x3 = CatalogAccounts /\ Catalogs!FetchesAreFenced
        /\ \A b \in CatalogAccounts : Catalogs!Generation(b) \in Nat
    BY FencesHold
       DEF Catalogs!CatalogInv, Catalogs!Shapes, Catalogs!Generation, Catalogs!Generations
  <2>2. \A b \in CatalogAccounts : \A g \in Catalogs!Fetches(b) : x3[b][g].generation \in Nat
    BY FencesHold DEF Catalogs!FetchesAreFenced, Catalogs!Fetch, Catalogs!Generations
  <2>3. /\ DOMAIN x3' = CatalogAccounts
        /\ \A b \in CatalogAccounts : \A g \in Catalogs!Fetches(b)' :
             \/ b = a /\ g = key /\ x3'[b][g] = x1'[a]
             \/ g \in Catalogs!Fetches(b) /\ x3'[b][g] = x3[b][g]
    BY <1>1, <2>1 DEF Catalogs!Fetches
  <2>4. x1'[a] \in Catalogs!Fetch /\ x1'[a].generation \in Nat
    BY <1>4 DEF Catalogs!Fetch, Catalogs!Generations
  <2>5. ASSUME NEW b \in CatalogAccounts, NEW g \in Catalogs!Fetches(b)'
        PROVE  LET f == x3'[b][g]
               IN /\ f \in Catalogs!Fetch /\ f.generation <= Catalogs!Generation(b)'
                  /\ f.generation = Catalogs!Generation(b)' => f.owner = x1'[b].owner
    <3>1. CASE b = a /\ g = key /\ x3'[b][g] = x1'[a]
      BY <2>4, <3>1 DEF Catalogs!Generation
    <3>2. CASE g \in Catalogs!Fetches(b) /\ x3'[b][g] = x3[b][g]
      <4>1. CASE x1'[b] = x1[b]
        BY <2>1, <3>2, <4>1 DEF Catalogs!FetchesAreFenced, Catalogs!Generation
      <4>2. CASE b = a /\ x1'[a].generation > Catalogs!Generation(a)
        BY <2>1, <2>2, <2>4, <3>2, <4>2 DEF Catalogs!FetchesAreFenced, Catalogs!Generation
      <4> QED
        BY <1>4, <4>1, <4>2
    <3> QED
      BY <2>3, <3>1, <3>2
  <2> QED
    BY <2>3, <2>5 DEF Catalogs!FetchesAreFenced
<1> QED
  BY <1>1, <1>4, <1>5, CredentialsChange

\* A sequence over S is one over more.
LEMMA SequencesGrow ==
    ASSUME NEW S, NEW s \in Seq(S), NEW c
    PROVE  s \in Seq(S \cup {c})
<1>1. s \in [1..Len(s) -> S \cup {c}] /\ Len(s) \in Nat
  OBVIOUS
<1> QED
  BY <1>1

\* Append and Tail stay over the set.
LEMMA AppendingStays ==
    ASSUME NEW T, NEW s \in Seq(T), NEW x \in T
    PROVE  Append(s, x) \in Seq(T) /\ Tail(Append(s, x)) \in Seq(T)
<1>1. Append(s, x) \in Seq(T) /\ Len(Append(s, x)) = Len(s) + 1 /\ Len(s) \in Nat
  OBVIOUS
<1> QED
  BY <1>1

\* What is dropped makes no list untrue.
LEMMA DroppingKeepsLists ==
    ASSUME NEW d, NEW es, NEW es2, NEW r, Catalogs!MadeOf(d, es, r),
           \A a \in CatalogAccounts : es2[a] \in {None, es[a]}
    PROVE  Catalogs!MadeOf(d, es2, r)
<1>1. PICK models \in [DOMAIN d.key -> SUBSET CatalogModels] :
        /\ d.list = Catalogs!ListOf(d.key, models)
        /\ \A b \in DOMAIN d.key :
            /\ d.key[b][1] \in 0..r
            /\ b \in CatalogAccounts /\ es[b] # None /\ es[b].revision = d.key[b][1]
                 => es[b].models = models[b]
  BY DEF Catalogs!MadeOf
<1>2. \A b \in DOMAIN d.key :
        /\ d.key[b][1] \in 0..r
        /\ b \in CatalogAccounts /\ es2[b] # None /\ es2[b].revision = d.key[b][1]
             => es2[b].models = models[b]
  BY <1>1
<1>3. \E ms \in [DOMAIN d.key -> SUBSET CatalogModels] :
        /\ d.list = Catalogs!ListOf(d.key, ms)
        /\ \A b \in DOMAIN d.key :
            /\ d.key[b][1] \in 0..r
            /\ b \in CatalogAccounts /\ es2[b] # None /\ es2[b].revision = d.key[b][1]
                 => es2[b].models = ms[b]
  BY <1>1, <1>2
<1> QED
  BY <1>3 DEF Catalogs!MadeOf

\* The list that is aggregated is made of what it lists.
LEMMA FreshlyMade ==
    ASSUME NEW es, NEW r,
           \A b \in Catalogs!Listed(es) : es[b] \in Catalogs!Entry /\ es[b].revision \in 0..r
    PROVE  Catalogs!MadeOf([key |-> Catalogs!Signature(es), list |-> Catalogs!Aggregate(es)],
           es, r)
<1> DEFINE c == [key |-> Catalogs!Signature(es), list |-> Catalogs!Aggregate(es)]
           ms == Catalogs!Listing(es)
<1>1. c.key = Catalogs!Signature(es) /\ c.list = Catalogs!ListOf(c.key, ms)
  BY DEF Catalogs!Aggregate
<1>2. DOMAIN c.key = Catalogs!Listed(es)
  BY DEF Catalogs!Signature
<1>3. \A b \in Catalogs!Listed(es) : c.key[b][1] = es[b].revision /\ ms[b] = es[b].models
  BY DEF Catalogs!Signature, Catalogs!Listing
<1>4. ms \in [DOMAIN c.key -> SUBSET CatalogModels]
  BY <1>2 DEF Catalogs!Listing, Catalogs!Entry
<1> HIDE DEF ms, c
<1>5. \E models \in [DOMAIN c.key -> SUBSET CatalogModels] :
        /\ c.list = Catalogs!ListOf(c.key, models)
        /\ \A b \in DOMAIN c.key :
            /\ c.key[b][1] \in 0..r
            /\ b \in CatalogAccounts /\ es[b] # None /\ es[b].revision = c.key[b][1]
                 => es[b].models = models[b]
  BY <1>1, <1>2, <1>3, <1>4
<1>6. Catalogs!MadeOf(c, es, r)
  BY <1>5 DEF Catalogs!MadeOf
<1> QED
  BY <1>6 DEF c

\* snapshot: what is cached is made of the entries there are.
LEMMA Snapped ==
    ASSUME Catalogs!CatalogInv, Catalogs!Snapshot
    PROVE  Catalogs!CatalogInv'
<1>1. PICK es \in Catalogs!Reconciled :
        LET key == Catalogs!Signature(es)
            longer == Append(x4, [key |-> key, list |-> Catalogs!Aggregate(es)])
        IN /\ x2' = es
           /\ x4' \in {x4, longer, Tail(longer)}
  BY DEF Catalogs!Snapshot
<1>2. UNCHANGED <<x1, x3, x5, x6>>
  BY DEF Catalogs!Snapshot
<1> DEFINE c == [key |-> Catalogs!Signature(es), list |-> Catalogs!Aggregate(es)]
           S == {x4[i] : i \in DOMAIN x4}
<1>3. /\ x2' \in [CatalogAccounts -> Catalogs!Entry \cup {None}]
      /\ \A a \in CatalogAccounts : x2'[a] \in {None, x2[a]}
  BY <1>1, ReconcilingDrops DEF Catalogs!CatalogInv
<1>4. Catalogs!Shapes'
  BY <1>2, <1>3 DEF Catalogs!CatalogInv, Catalogs!Shapes
<1>5. Catalogs!OwnersAreFenced'
  BY <1>2, <1>3
     DEF Catalogs!CatalogInv, Catalogs!OwnersAreFenced, Catalogs!FetchesAreFenced,
         Catalogs!Generation, Catalogs!Fetches
<1>6. Catalogs!EntriesAreSound'
  BY <1>2, <1>3 DEF Catalogs!CatalogInv, Catalogs!EntriesAreSound
<1>7. \A d \in S : Catalogs!MadeOf(d, x2', x5')
  <2>1. ASSUME NEW d \in S PROVE Catalogs!MadeOf(d, x2', x5')
    <3>1. Catalogs!MadeOf(d, x2, x5)
      BY DEF Catalogs!CatalogInv, Catalogs!CacheIsRemembered, Catalogs!Remembered
    <3> HIDE DEF S
    <3> QED
      BY <1>2, <1>3, <3>1, DroppingKeepsLists
  <2> QED
    BY <2>1
<1>8. Catalogs!MadeOf(c, x2', x5')
  <2>1. \A b \in Catalogs!Listed(es) : b \in CatalogAccounts /\ es[b] # None /\ es[b] = x2[b]
    BY <1>1, <1>3 DEF Catalogs!Listed, Catalogs!Current
  <2>2. \A b \in Catalogs!Listed(es) : es[b] \in Catalogs!Entry
    BY <1>1, <1>3, <2>1
  <2>3. \A b \in Catalogs!Listed(es) : es[b].revision \in 0..x5
    BY <2>1, <2>2
       DEF Catalogs!CatalogInv, Catalogs!EntriesAreSound, Catalogs!Entry, Catalogs!Shapes
  <2> HIDE DEF c
  <2>4. Catalogs!MadeOf(c, es, x5)
    BY <2>1, <2>2, <2>3, FreshlyMade DEF c
  <2> QED
    BY <1>1, <1>2, <2>4
<1>9. Catalogs!CacheIsRemembered'
  <2>1. x4 \in Seq(S)
    BY DEF Catalogs!CatalogInv, Catalogs!CacheIsRemembered
  <2> HIDE DEF S, c
  <2>2. x4' \in Seq(S \cup {c})
    <3>1. x4 \in Seq(S \cup {c})
      BY <2>1, SequencesGrow
    <3>2. Append(x4, c) \in Seq(S \cup {c}) /\ Tail(Append(x4, c)) \in Seq(S \cup {c})
      BY <3>1, c \in S \cup {c}, AppendingStays
    <3> QED
      BY <1>1, <3>1, <3>2 DEF c
  <2>3. x4' \in Seq({x4'[i] : i \in DOMAIN x4'})
    BY <2>2, SequenceOfItsOwn
  <2>4. \A i \in DOMAIN x4' : x4'[i] \in S \cup {c}
    BY <2>2
  <2>5. \A i \in DOMAIN x4' : Catalogs!MadeOf(x4'[i], x2', x5')
    BY <1>7, <1>8, <2>4
  <2> QED
    BY <2>3, <2>5 DEF Catalogs!CacheIsRemembered, Catalogs!Remembered
<1> QED
  BY <1>4, <1>5, <1>6, <1>9 DEF Catalogs!CatalogInv

\* Every step keeps the fences and the lists: one step per action.
LEMMA CatalogGoesOn ==
    ASSUME Catalogs!CatalogAssumption, Catalogs!CatalogInv, [Catalogs!Next]_(Catalogs!vars)
    PROVE  Catalogs!CatalogInv'
<1>1. CASE Catalogs!Tick \/ UNCHANGED Catalogs!vars
  <2>1. x6' \in Catalogs!Times
    BY <1>1, CatalogBounds
       DEF Catalogs!Tick, Catalogs!vars, Catalogs!CatalogInv, Catalogs!Shapes, Catalogs!Times
  <2>2. UNCHANGED <<x1, x2, x3, x4, x5>>
    BY <1>1 DEF Catalogs!Tick, Catalogs!vars
  <2>3. Catalogs!Shapes' /\ Catalogs!OwnersAreFenced' /\ Catalogs!EntriesAreSound'
    BY <2>1, <2>2
       DEF Catalogs!CatalogInv, Catalogs!Shapes, Catalogs!OwnersAreFenced,
           Catalogs!FetchesAreFenced, Catalogs!EntriesAreSound, Catalogs!Generation,
           Catalogs!Fetches
  <2>4. Catalogs!CacheIsRemembered'
    BY <2>2
       DEF Catalogs!CatalogInv, Catalogs!CacheIsRemembered, Catalogs!Remembered, Catalogs!MadeOf
  <2> QED
    BY <2>3, <2>4 DEF Catalogs!CatalogInv
<1> QED
  BY <1>1, Discovered, CredentialsRenewed, Refused, CredentialsRefreshed, Failed, Answered,
     Snapped
     DEF Catalogs!Next

\* What the parts say of catalogs and lists.
LEMMA CatalogIs ==
    Catalogs!CatalogInv
      => Catalogs!CatalogsAreTheOwners /\ Catalogs!ListsAreCurrent
        /\ Catalogs!RefusedIsUnsupported
<1> SUFFICES ASSUME Catalogs!CatalogInv
             PROVE  Catalogs!CatalogsAreTheOwners /\ Catalogs!ListsAreCurrent
                      /\ Catalogs!RefusedIsUnsupported
  OBVIOUS
<1>1. Catalogs!CatalogsAreTheOwners /\ Catalogs!RefusedIsUnsupported
  BY DEF Catalogs!CatalogInv, Catalogs!OwnersAreFenced, Catalogs!EntriesAreSound,
         Catalogs!CatalogsAreTheOwners,
         Catalogs!RefusedIsUnsupported, Catalogs!Current
<1>2. ASSUME NEW i \in Catalogs!CachedUnder(Catalogs!Signature(x2))
      PROVE  x4[i].list = Catalogs!Aggregate(x2)
  <2> DEFINE c == x4[i]
  <2>1. i \in DOMAIN x4 /\ c.key = Catalogs!Signature(x2)
    BY <1>2 DEF Catalogs!CachedUnder
  <2>2. PICK models \in [DOMAIN c.key -> SUBSET CatalogModels] :
          /\ c.list = Catalogs!ListOf(c.key, models)
          /\ \A b \in DOMAIN c.key :
              b \in CatalogAccounts /\ x2[b] # None /\ x2[b].revision = c.key[b][1]
                => x2[b].models = models[b]
    BY <2>1
       DEF Catalogs!CatalogInv, Catalogs!CacheIsRemembered, Catalogs!Remembered, Catalogs!MadeOf
  <2>3. /\ DOMAIN c.key = Catalogs!Listed(x2)
        /\ \A b \in Catalogs!Listed(x2) :
             b \in CatalogAccounts /\ x2[b] # None /\ c.key[b][1] = x2[b].revision
    BY <2>1 DEF Catalogs!Signature, Catalogs!Listed, Catalogs!Current
  <2> HIDE DEF c
  <2>4. models = Catalogs!Listing(x2)
    BY <2>2, <2>3 DEF Catalogs!Listing
  <2> QED
    BY <2>1, <2>2, <2>4 DEF Catalogs!Aggregate, c
<1> QED
  BY <1>1, <1>2 DEF Catalogs!ListsAreCurrent

-----------------------------------------------------------------------------
(* Quotas: the lemmas of QuotaRefresh's QuotaInv.  x1 is the kind, x2 the  *)
(* account, x3 the entry with its reader, x4 polling, x5 blockedUntil, x6  *)
(* the request and x7 the time.                                            *)

\* One account of each type, one replacement, two tokens of each owner.
Quotas == INSTANCE QuotaRefresh WITH
    Kinds <- AccountTypes, Interval <- QuotaInterval,
    MaxOwners <- QuotaOwners, MaxTokens <- QuotaTokens, MaxTime <- QuotaTime,
    kind <- x1, account <- x2, entry <- x3, polling <- x4, blockedUntil <- x5, request <- x6,
    now <- x7

ASSUME QuotasFit == Quotas!QuotaAssumption

\* The bounds are positive.
LEMMA BoundsArePositive ==
    QuotaOwners \in Nat \ {0} /\ QuotaTokens \in Nat \ {0} /\ QuotaTime \in Nat
  BY QuotasFit DEF QuotasFit, Quotas!QuotaAssumption

\* An account without a quota has none.
LEMMA NoneIsNoQuota == None \notin Quotas!Quota
  BY QuotasFit DEF QuotasFit, Quotas!QuotaAssumption

\* Every field that Replace sets, in the record it leaves.
LEMMA AccountReplaced ==
    ASSUME NEW a \in Quotas!Account, NEW o \in 1..QuotaOwners, NEW t \in Quotas!Tokens,
           NEW e \in Nat,
           x2' = [a EXCEPT !.owner = o, !.token = t, !.epoch = e, !.quota = None]
    PROVE  /\ x2' \in Quotas!Account /\ x2'.owner = o /\ x2'.token = t
           /\ x2'.epoch = e /\ x2'.quota = None
  BY DEF Quotas!Account

\* The same of a refreshed token.
LEMMA AccountRefreshed ==
    ASSUME NEW a \in Quotas!Account, NEW t \in Quotas!Tokens, NEW e \in Nat,
           x2' = [a EXCEPT !.token = t, !.epoch = e]
    PROVE  /\ x2' \in Quotas!Account /\ x2'.owner = a.owner /\ x2'.token = t
           /\ x2'.epoch = e /\ x2'.quota = a.quota
  BY DEF Quotas!Account

\* The same of a replaced project.
LEMMA AccountMoved ==
    ASSUME NEW a \in Quotas!Account, NEW o \in 1..QuotaOwners, NEW t \in Quotas!Tokens,
           x2' = [a EXCEPT !.owner = o, !.token = t, !.quota = None]
    PROVE  /\ x2' \in Quotas!Account /\ x2'.owner = o /\ x2'.token = t
           /\ x2'.quota = None
  BY DEF Quotas!Account

\* The same of a reader that refreshed the token.
LEMMA ReaderRefreshed ==
    ASSUME NEW h \in Quotas!Reader, NEW t \in Quotas!Tokens, NEW e \in Nat,
           x3' = [h EXCEPT !.phase = "usage", !.token = t, !.expected = e]
    PROVE  /\ x3' \in Quotas!Reader /\ x3'.read = h.read /\ x3'.token = t
           /\ x3'.expected = e
  BY DEF Quotas!Reader

\* A reader, field by field.
LEMMA ReaderChanges ==
    ASSUME NEW h \in {"idle", "tokens", "usage", "probe"}, NEW o \in 1..QuotaOwners,
           NEW t \in Quotas!Tokens, NEW n \in Nat, NEW e \in Nat, NEW p \in BOOLEAN
    PROVE  [phase |-> h, owner |-> o, token |-> t, read |-> n, expected |-> e,
            retried |-> p] \in Quotas!Reader
  BY DEF Quotas!Reader

\* The reader between refreshes.
LEMMA NothingIsRead == Quotas!Idle \in Quotas!Reader /\ Quotas!Idle.phase = "idle"
  BY BoundsArePositive DEF Quotas!Idle, Quotas!Reader, Quotas!Token, Quotas!Tokens

\* A token has its owner.
LEMMA TokensAreTheirOwners ==
    ASSUME NEW o \in 1..QuotaOwners, NEW n \in 1..QuotaTokens
    PROVE  Quotas!Token(o, n) \in Quotas!Tokens /\ Quotas!Token(o, n).owner = o
  BY DEF Quotas!Token, Quotas!Tokens

\* Nothing is read at first.
LEMMA QuotaBegins == Quotas!Init => Quotas!QuotaInv
<1> SUFFICES ASSUME Quotas!Init PROVE Quotas!QuotaInv
  OBVIOUS
<1>1. x2 \in Quotas!Account
  BY BoundsArePositive, TokensAreTheirOwners DEF Quotas!Init, Quotas!Account
<1>2. x6 \in Quotas!Request
  BY BoundsArePositive DEF Quotas!Init, Quotas!Request
<1>c. x1 \in AccountTypes /\ x4 \in BOOLEAN /\ x3 \in Quotas!Reader
  BY NothingIsRead DEF Quotas!Init
<1>d. x5 \in 0..(QuotaTime + 1) /\ x7 \in 0..QuotaTime
  BY BoundsArePositive DEF Quotas!Init
<1>3. Quotas!TypeOK
  BY <1>1, <1>2, <1>c, <1>d DEF Quotas!TypeOK
<1>4. Quotas!ReadsAreFenced
  BY NothingIsRead
     DEF Quotas!Init, Quotas!ReadsAreFenced, Quotas!Held, Quotas!ReadsAreTheOwners, Quotas!Token
<1> QED
  BY <1>3, <1>4 DEF Quotas!QuotaInv

\* A step that leaves the reader alone keeps the fence when what the account's
\* epoch says of its owner stays true, and a new quota is its owner's.
LEMMA AccountKept ==
    ASSUME Quotas!QuotaInv, UNCHANGED <<x1, x3>>, Quotas!TypeOK',
           \/ x1 = "compass"
           \/ /\ x2'.token.owner = x2'.owner
              /\ x2'.epoch >= x2.epoch
              /\ x2'.epoch > x2.epoch \/ x2'.owner = x2.owner
              /\ \/ x2'.quota = x2.quota /\ x2'.owner = x2.owner
                 \/ x2'.quota = None
                 \/ x2'.quota.by # "read"
    PROVE  Quotas!QuotaInv'
  BY DEF Quotas!QuotaInv, Quotas!TypeOK, Quotas!ReadsAreFenced, Quotas!Held,
         Quotas!ReadsAreTheOwners, Quotas!Account, Quotas!Reader

\* A step that leaves the account alone keeps the fence when the reader expects
\* no later epoch, and holds the owner's token at the epochs it knows.
LEMMA ReaderKept ==
    ASSUME Quotas!QuotaInv, UNCHANGED <<x1, x2>>, Quotas!TypeOK',
           \/ x1 = "compass"
           \/ x3'.phase = "idle"
           \/ /\ x3'.read <= x2.epoch /\ x3'.expected <= x2.epoch
              /\ x2.epoch \in {x3'.read, x3'.expected}
                   => x3'.token.owner = x2.owner
    PROVE  Quotas!QuotaInv'
  BY DEF Quotas!QuotaInv, Quotas!TypeOK, Quotas!ReadsAreFenced, Quotas!Held,
         Quotas!ReadsAreTheOwners

\* A refresh begins with what the record holds.
LEMMA ReaderBegins == Quotas!QuotaInv /\ Quotas!Begin /\ x4' \in BOOLEAN => Quotas!QuotaInv'
<1> SUFFICES ASSUME Quotas!QuotaInv, Quotas!Begin, x4' \in BOOLEAN PROVE Quotas!QuotaInv'
  OBVIOUS
<1>1. Quotas!TypeOK /\ (x1 # "compass" => Quotas!Held)
  BY DEF Quotas!QuotaInv, Quotas!ReadsAreFenced
<1>2. CASE UNCHANGED <<x3, x5>>
  <2>1. Quotas!TypeOK'
    BY <1>1, <1>2 DEF Quotas!TypeOK, Quotas!Begin
  <2> QED
    BY <1>1, <1>2, <2>1, ReaderKept DEF Quotas!Begin, Quotas!Held
<1>3. CASE ~ UNCHANGED <<x3, x5>>
  <2>1. /\ x3' = [phase |-> Quotas!FirstPhase, owner |-> x2.owner, token |-> x2.token,
                     read |-> x2.epoch, expected |-> x2.epoch, retried |-> FALSE]
        /\ x5' = 0
        /\ UNCHANGED <<x1, x2, x6, x7>>
    BY <1>3 DEF Quotas!Begin
  <2>2. /\ Quotas!FirstPhase \in {"idle", "tokens", "usage", "probe"}
             /\ x2.owner \in 1..QuotaOwners
        /\ x2.token \in Quotas!Tokens /\ x2.epoch \in Nat
    BY <1>1 DEF Quotas!FirstPhase, Quotas!TypeOK, Quotas!Account
  <2>3. x3' \in Quotas!Reader
    BY <2>1, <2>2, ReaderChanges
  <2>4. Quotas!TypeOK'
    BY <1>1, <2>1, <2>3, BoundsArePositive DEF Quotas!TypeOK
  <2>5. x3'.read = x2.epoch /\ x3'.expected = x2.epoch
        /\ x3'.token = x2.token
    BY <2>1
  <2> QED
    BY <1>1, <2>1, <2>2, <2>4, <2>5, ReaderKept DEF Quotas!Held
<1> QED
  BY <1>2, <1>3

\* Every step keeps the fence: one step per action.
LEMMA QuotaGoesOn == Quotas!QuotaInv /\ [Quotas!Next]_(Quotas!vars) => Quotas!QuotaInv'
<1> SUFFICES ASSUME Quotas!QuotaInv, [Quotas!Next]_(Quotas!vars) PROVE Quotas!QuotaInv'
  OBVIOUS
<1>a. Quotas!TypeOK /\ Quotas!ReadsAreFenced /\ (x1 # "compass" => Quotas!Held)
  BY DEF Quotas!QuotaInv, Quotas!ReadsAreFenced
<1>b. /\ x3 \in Quotas!Reader /\ x2 \in Quotas!Account /\ x6 \in Quotas!Request
      /\ x2.owner \in 1..QuotaOwners /\ x2.epoch \in Nat
      /\ x2.token \in Quotas!Tokens /\ x3.token \in Quotas!Tokens
      /\ x3.read \in Nat /\ x3.expected \in Nat
  BY <1>a DEF Quotas!TypeOK, Quotas!Reader, Quotas!Account
<1>1. CASE Quotas!Poll
  BY <1>1, ReaderBegins DEF Quotas!Poll
<1>2. CASE Quotas!Manual
  BY <1>2, <1>a, ReaderBegins DEF Quotas!Manual, Quotas!TypeOK
<1>3. ASSUME NEW h \in {"idle", "tokens", "usage", "probe"}, NEW p \in BOOLEAN,
             x3' = [x3 EXCEPT !.phase = h, !.retried = p], x3.phase # "idle",
             UNCHANGED <<x1, x2, x4, x5, x6, x7>>
      PROVE  Quotas!QuotaInv'
  <2>1. /\ x3' \in Quotas!Reader /\ x3'.read = x3.read
        /\ x3'.expected = x3.expected /\ x3'.token = x3.token
    BY <1>3, <1>b DEF Quotas!Reader
  <2>2. Quotas!TypeOK'
    BY <1>3, <1>a, <2>1 DEF Quotas!TypeOK
  <2> QED
    BY <1>3, <1>a, <2>1, <2>2, ReaderKept DEF Quotas!Held
<1>4. CASE Quotas!TokenNotDue
  <2>1. x3' = [x3 EXCEPT !.phase = "usage", !.retried = x3.retried]
        /\ x3.retried \in BOOLEAN
    BY <1>4, <1>b DEF Quotas!TokenNotDue, Quotas!Reader
  <2> QED
    BY <1>4, <1>3, <2>1 DEF Quotas!TokenNotDue
<1>5. CASE Quotas!NoScope
  <2>1. x3' = [x3 EXCEPT !.phase = "probe", !.retried = x3.retried]
        /\ x3.retried \in BOOLEAN
    BY <1>5, <1>b DEF Quotas!NoScope, Quotas!Reader
  <2> QED
    BY <1>5, <1>3, <2>1 DEF Quotas!NoScope
<1>6. CASE Quotas!Unauthorized
  BY <1>6, <1>3 DEF Quotas!Unauthorized
<1>7. CASE Quotas!CookiesSaved
  <2>1. /\ x3' \in Quotas!Reader /\ x3'.read = x3.read
        /\ x3'.expected = x2.epoch /\ x3'.token = x3.token
    BY <1>7, <1>b DEF Quotas!CookiesSaved, Quotas!Reader
  <2>2. Quotas!TypeOK'
    BY <1>7, <1>a, <2>1 DEF Quotas!CookiesSaved, Quotas!TypeOK
  <2>3. x3.phase # "idle"
    BY <1>7 DEF Quotas!CookiesSaved
  <2>4. x1 # "compass" => x3.token.owner = x2.owner
    BY <1>7, <1>a, <2>3
       DEF Quotas!CookiesSaved, Quotas!Persists, Quotas!SameAuthentication, Quotas!Held
  <2> QED
    BY <1>7, <1>a, <1>b, <2>1, <2>2, <2>3, <2>4, ReaderKept DEF Quotas!Held, Quotas!CookiesSaved
<1>8. CASE Quotas!RateLimited \/ Quotas!Fail
  <2>0. /\ x3' \in Quotas!Reader /\ x4' \in BOOLEAN
        /\ UNCHANGED <<x1, x2, x6, x7>>
        /\ x5' \in {x5, x7 + 1}
    BY <1>8, NothingIsRead DEF Quotas!RateLimited, Quotas!Fail, Quotas!Finish
  <2>1. Quotas!TypeOK'
    BY <1>a, <2>0, BoundsArePositive DEF Quotas!TypeOK
  <2> QED
    BY <1>8, <2>1, NothingIsRead, ReaderKept DEF Quotas!RateLimited, Quotas!Fail, Quotas!Finish
<1>9. CASE Quotas!TokenRefreshed
  <2> DEFINE token == Quotas!Token(x3.token.owner, x3.token.nth + 1)
  <2>1. token \in Quotas!Tokens /\ token.owner = x3.token.owner
    <3>1. x3.token.owner \in 1..QuotaOwners /\ x3.token.nth + 1 \in 1..QuotaTokens
      <4>1. x3.token.nth < QuotaTokens
        BY <1>9 DEF Quotas!TokenRefreshed
      <4>2. x3.token.owner \in 1..QuotaOwners /\ x3.token.nth \in 1..QuotaTokens
        BY <1>b DEF Quotas!Tokens
      <4> QED
        BY <4>1, <4>2, BoundsArePositive
    <3> QED
      BY <3>1, TokensAreTheirOwners
  <2> HIDE DEF token
  <2>2. x3.phase = "tokens" /\ UNCHANGED <<x1, x4, x5, x6, x7>>
    BY <1>9 DEF Quotas!TokenRefreshed
  <2>3. CASE Quotas!Persists(x3)
    <3>1. /\ x2' = [x2 EXCEPT !.token = token, !.epoch = x2.epoch + 1]
          /\ x3' = [x3 EXCEPT !.phase = "usage", !.token = token,
                                    !.expected = x2'.epoch]
      BY <1>9, <2>3 DEF Quotas!TokenRefreshed, token
    <3>2. /\ x2' \in Quotas!Account /\ x2'.token = token /\ x2'.epoch = x2.epoch + 1
          /\ x2'.owner = x2.owner /\ x2'.quota = x2.quota
      <4>1. x2.epoch + 1 \in Nat
        BY <1>b
      <4> QED
        BY ZenonT(40), <1>b, <2>1, <3>1, <4>1, AccountRefreshed
    <3>3. /\ x3' \in Quotas!Reader /\ x3'.read = x3.read /\ x3'.token = token
          /\ x3'.expected = x2.epoch + 1
      <4>1. x2'.epoch \in Nat
        BY <1>b, <3>2
      <4> QED
        BY <1>b, <2>1, <3>1, <3>2, <4>1, ReaderRefreshed
    <3>4. Quotas!TypeOK'
      BY <1>a, <2>2, <3>2, <3>3 DEF Quotas!TypeOK
    <3>5. x1 # "compass" => x3.token.owner = x2.owner
      BY <1>a, <2>2, <2>3 DEF Quotas!Held, Quotas!Persists
    <3> QED
      BY <1>a, <1>b, <2>1, <2>2, <3>2, <3>3, <3>4, <3>5
         DEF Quotas!QuotaInv, Quotas!ReadsAreFenced, Quotas!Held, Quotas!ReadsAreTheOwners
  <2>4. CASE ~ Quotas!Persists(x3) /\ Quotas!SameAuthentication(token)
    <3>1. /\ x2' = x2
          /\ x3' = [x3 EXCEPT !.phase = "usage", !.token = token,
                                    !.expected = x2.epoch]
      BY <1>9, <2>4 DEF Quotas!TokenRefreshed, token
    <3>2. /\ x3' \in Quotas!Reader /\ x3'.read = x3.read /\ x3'.token = token
          /\ x3'.expected = x2.epoch
      BY <1>b, <2>1, <3>1, ReaderRefreshed
    <3>3. Quotas!TypeOK'
      BY <1>a, <2>2, <3>1, <3>2 DEF Quotas!TypeOK
    <3>4. x1 # "compass" => token.owner = x2.owner
      BY <1>a, <2>4 DEF Quotas!SameAuthentication, Quotas!Held
    <3> QED
      BY <1>a, <1>b, <2>2, <3>1, <3>2, <3>3, <3>4, ReaderKept DEF Quotas!Held
  <2>5. CASE ~ Quotas!Persists(x3) /\ ~ Quotas!SameAuthentication(token)
    <3>1. x2' = x2 /\ x3' = [x3 EXCEPT !.phase = "usage", !.retried = x3.retried]
          /\ x3.retried \in BOOLEAN
      BY <1>9, <1>b, <2>5 DEF Quotas!TokenRefreshed, token, Quotas!Reader
    <3> QED
      BY <1>3, <2>2, <3>1
  <2> QED
    BY <2>3, <2>4, <2>5
<1>10. ASSUME NEW q \in Quotas!Quota, NEW e \in Nat, Quotas!SetQuota(q, e)
       PROVE  /\ x2' \in Quotas!Account /\ x2'.owner = x2.owner
              /\ x2'.token = x2.token /\ x2'.epoch = x2.epoch
              /\ x2'.quota = IF Quotas!Fenced(e) THEN q ELSE x2.quota
  BY <1>10, <1>b DEF Quotas!SetQuota, Quotas!Account
<1>11. CASE Quotas!Read
  <2> DEFINE q == [of |-> x3.token.owner, by |-> "read", at |-> x7]
  <2>1. q \in Quotas!Quota
    BY <1>a, <1>b DEF Quotas!Quota, Quotas!Tokens, Quotas!TypeOK
  <2>2. /\ x3.phase # "idle" /\ x3' = Quotas!Idle /\ x4' = FALSE
        /\ UNCHANGED <<x1, x5, x6, x7>>
    BY <1>11 DEF Quotas!Read, Quotas!Finish
  <2>3. q.of = x3.token.owner
    OBVIOUS
  <2>4. Quotas!SetQuota(q, x3.expected) \/ UNCHANGED x2
    BY <1>11 DEF Quotas!Read
  <2> HIDE DEF q
  <2>5. CASE Quotas!SetQuota(q, x3.expected)
    <3>1. /\ x2' \in Quotas!Account /\ x2'.owner = x2.owner
          /\ x2'.token = x2.token /\ x2'.epoch = x2.epoch
          /\ x2'.quota = IF Quotas!Fenced(x3.expected) THEN q ELSE x2.quota
      BY <1>10, <1>b, <2>1, <2>5
    <3>2. Quotas!TypeOK'
      BY <1>a, <2>2, <3>1, NothingIsRead DEF Quotas!TypeOK
    <3>3. x1 # "compass" => Quotas!ReadsAreTheOwners'
      BY <1>a, <2>2, <2>3, <3>1
         DEF Quotas!ReadsAreFenced, Quotas!Held, Quotas!ReadsAreTheOwners, Quotas!Fenced
    <3> QED
      BY <1>a, <2>2, <3>1, <3>2, <3>3, NothingIsRead
         DEF Quotas!QuotaInv, Quotas!ReadsAreFenced, Quotas!Held
  <2>6. CASE UNCHANGED x2
    <3>1. Quotas!TypeOK'
      BY <1>a, <2>2, <2>6, NothingIsRead DEF Quotas!TypeOK
    <3> QED
      BY <2>2, <2>6, <3>1, NothingIsRead, ReaderKept
  <2> QED
    BY <2>4, <2>5, <2>6
<1>12. CASE Quotas!Build \/ Quotas!Send
  <2>1. x6' \in Quotas!Request
    BY <1>12, <1>b DEF Quotas!Build, Quotas!Send, Quotas!Request
  <2>2. Quotas!TypeOK'
    BY <1>12, <1>a, <2>1 DEF Quotas!Build, Quotas!Send, Quotas!TypeOK
  <2> QED
    BY <1>12, <1>a, <2>2, ReaderKept DEF Quotas!Build, Quotas!Send, Quotas!Held
<1>13. CASE Quotas!Answered
  <2> DEFINE q == [of |-> x6.owner, by |-> "headers", at |-> x7]
  <2>1. q \in Quotas!Quota /\ x6' \in Quotas!Request /\ x6.issued \in Nat
    BY <1>13, <1>a, <1>b DEF Quotas!Answered, Quotas!Quota, Quotas!Request, Quotas!TypeOK
  <2>2. UNCHANGED <<x1, x3, x4, x5, x7>> /\ q.by # "read"
    BY <1>13 DEF Quotas!Answered
  <2>3. Quotas!SetQuota(q, x6.issued) \/ UNCHANGED x2
    BY <1>13 DEF Quotas!Answered
  <2> HIDE DEF q
  <2>4. /\ x2' \in Quotas!Account /\ x2'.owner = x2.owner
        /\ x2'.token = x2.token /\ x2'.epoch = x2.epoch
        /\ x2'.quota \in {q, x2.quota}
    BY <1>10, <1>b, <2>1, <2>3
  <2>5. Quotas!TypeOK'
    BY <1>a, <2>1, <2>2, <2>4 DEF Quotas!TypeOK
  <2> QED
    BY <1>a, <1>b, <2>2, <2>4, <2>5, AccountKept DEF Quotas!Held
<1>14. ASSUME x2' \in Quotas!Account, x1 = "compass" \/
                /\ x2'.token.owner = x2'.owner
                /\ x2'.epoch > x2.epoch
                /\ \/ x2'.quota = x2.quota /\ x2'.owner = x2.owner
                   \/ x2'.quota = None,
              UNCHANGED <<x1, x3, x4, x5, x6, x7>>
       PROVE  Quotas!QuotaInv'
  <2>1. Quotas!TypeOK'
    BY <1>14, <1>a DEF Quotas!TypeOK
  <2>2. x2'.epoch > x2.epoch => x2'.epoch >= x2.epoch
    BY <1>14, <1>b DEF Quotas!Account
  <2> QED
    BY <1>14, <2>1, <2>2, AccountKept
<1>15. CASE Quotas!Replace \/ Quotas!ReplaceProject
  <2> DEFINE t == Quotas!Token(x2.owner + 1, 1)
             o == x2.owner + 1
             e == x2.epoch + 1
  <2>1. o \in 1..QuotaOwners /\ 1 \in 1..QuotaTokens /\ e \in Nat /\ e > x2.epoch
    BY <1>15, <1>b, BoundsArePositive DEF Quotas!Replace, Quotas!ReplaceProject
  <2>2. t \in Quotas!Tokens /\ t.owner = o
    BY <2>1, TokensAreTheirOwners
  <2>3. UNCHANGED <<x1, x3, x4, x5, x6, x7>>
    BY <1>15 DEF Quotas!Replace, Quotas!ReplaceProject
  <2>4. Quotas!Replace => x2' = [x2 EXCEPT !.owner = o, !.token = t, !.epoch = e, !.quota = None]
    BY DEF Quotas!Replace
  <2>5. Quotas!ReplaceProject =>
          x1 = "compass" /\ x2' = [x2 EXCEPT !.owner = o, !.token = t, !.quota = None]
    BY DEF Quotas!ReplaceProject
  <2> HIDE DEF t, o, e
  <2>6. CASE Quotas!Replace
    <3>1. x2' = [x2 EXCEPT !.owner = o, !.token = t, !.epoch = e, !.quota = None]
      BY <2>4, <2>6
    <3>2. /\ x2' \in Quotas!Account /\ x2'.owner = o /\ x2'.token = t
          /\ x2'.epoch = e /\ x2'.quota = None
      BY <1>b, <2>1, <2>2, <3>1, AccountReplaced
    <3> QED
      BY <1>14, <2>1, <2>2, <2>3, <3>2
  <2>7. CASE Quotas!ReplaceProject
    BY <1>14, <1>b, <2>1, <2>2, <2>3, <2>5, <2>7, AccountMoved
  <2> QED
    BY <1>15, <2>6, <2>7
<1>16. CASE Quotas!ReplaceKey
  <2> DEFINE e == x2.epoch + 1
  <2>1. e \in Nat /\ x2' = [x2 EXCEPT !.epoch = e, !.quota = None]
    BY <1>16, <1>b DEF Quotas!ReplaceKey
  <2> HIDE DEF e
  <2>2. x2' \in Quotas!Account
    BY <1>b, <2>1 DEF Quotas!Account
  <2> QED
    BY <1>14, <1>16, <2>2 DEF Quotas!ReplaceKey
<1>17. CASE Quotas!OtherRefreshed
  <2> DEFINE t == [x2.token EXCEPT !.nth = x2.token.nth + 1]
             e == x2.epoch + 1
  <2>1. x2.token.nth + 1 \in 1..QuotaTokens
    <3>1. x2.token.nth < QuotaTokens
      BY <1>17 DEF Quotas!OtherRefreshed
    <3>2. x2.token.nth \in 1..QuotaTokens
      BY <1>b DEF Quotas!Tokens
    <3> QED
      BY <3>1, <3>2, BoundsArePositive
  <2>2. t \in Quotas!Tokens /\ t.owner = x2.token.owner /\ e \in Nat /\ e > x2.epoch
    BY <1>b, <2>1 DEF Quotas!Tokens
  <2>3. /\ x2' = [x2 EXCEPT !.token = t, !.epoch = e]
        /\ x1 # "compass" /\ UNCHANGED <<x1, x3, x4, x5, x6, x7>>
    BY <1>17, <1>b DEF Quotas!OtherRefreshed, Quotas!Account
  <2>4. x2.token.owner = x2.owner
    BY <1>a, <2>3 DEF Quotas!Held
  <2> HIDE DEF t, e
  <2>5. /\ x2' \in Quotas!Account /\ x2'.owner = x2.owner /\ x2'.token = t
        /\ x2'.epoch = e /\ x2'.quota = x2.quota
    BY <1>b, <2>2, <2>3, AccountRefreshed
  <2> QED
    BY <1>14, <2>2, <2>3, <2>4, <2>5
<1>18. CASE Quotas!Remove
  <2>1. /\ x2' \in Quotas!Account /\ x2'.owner = x2.owner
        /\ x2'.token = x2.token /\ x2'.epoch = x2.epoch
        /\ x2'.quota = x2.quota
    BY <1>18, <1>b DEF Quotas!Remove, Quotas!Account
  <2>2. Quotas!TypeOK'
    BY <1>18, <1>a, <2>1 DEF Quotas!Remove, Quotas!TypeOK
  <2> QED
    BY <1>18, <1>a, <1>b, <2>1, <2>2, AccountKept DEF Quotas!Remove, Quotas!Held
<1>19. CASE Quotas!Tick \/ UNCHANGED Quotas!vars
  <2>1. Quotas!TypeOK'
    BY <1>19, <1>a, BoundsArePositive DEF Quotas!Tick, Quotas!TypeOK, Quotas!vars
  <2> QED
    BY <1>19, <1>a, <2>1, ReaderKept DEF Quotas!Tick, Quotas!vars, Quotas!Held
<1> QED
  BY <1>1, <1>2, <1>4, <1>5, <1>6, <1>7, <1>8, <1>9, <1>11, <1>12, <1>13, <1>15, <1>16, <1>17,
     <1>18, <1>19 DEF Quotas!Next

-----------------------------------------------------------------------------
(* Ingress: the lemmas of its IngressInv.  x1 is req, x2 the entity, x3    *)
(* the phase, x4 the outcome, x5 the size, x6 the clock and x7 whether the *)
(* rest is read and thrown away.                                           *)

\* A body at the limits, at the door and while it is read.
Ingress == INSTANCE Ingress WITH
    Deadline <- BodyDeadline, MaxSize <- MaxBodySize,
    req <- x1, entity <- x2, phase <- x3, outcome <- x4, size <- x5, clock <- x6, drained <- x7

ASSUME LimitsFit == Ingress!LimitsArePositive

\* The limits are numbers, and so is what they allow.
LEMMA IngressNumbers ==
    ASSUME Ingress!LimitsArePositive
    PROVE  /\ MaxCompressed \in Nat \ {0} /\ MaxDecompressed \in Nat \ {0}
           /\ MaxRatio \in Nat \ {0} /\ BodyDeadline \in Nat \ {0} /\ MaxBodySize \in Nat
           /\ Ingress!NoEntity \in Ingress!Entities
<1>1. /\ MaxCompressed \in Nat \ {0} /\ MaxDecompressed \in Nat \ {0}
      /\ MaxRatio \in Nat \ {0} /\ BodyDeadline \in Nat \ {0} /\ MaxBodySize \in Nat
  BY DEF Ingress!LimitsArePositive
<1>2. Ingress!NoEntity \in Ingress!Entities
  BY <1>1 DEF Ingress!NoEntity, Ingress!Entities, Ingress!Encodings, Ingress!NoLength
<1> QED
  BY <1>1, <1>2

\* An entity is measured in numbers.
LEMMA EntitiesAreMeasured ==
    ASSUME Ingress!LimitsArePositive, NEW e \in Ingress!Entities
    PROVE  /\ e.wire \in Nat /\ e.wire <= MaxBodySize /\ e.inflated \in Nat
           /\ e.inflated <= MaxBodySize /\ e.length \in Int /\ e.window \in Int
BY IngressNumbers DEF Ingress!Entities, Ingress!NoLength

\* What the ratio allows is at least the ratio.
LEMMA RatioAllows ==
    ASSUME NEW m \in Nat \ {0}, NEW n \in Nat \ {0}
    PROVE  m * n \in Nat /\ m * n = n * m
OBVIOUS

\* What is too large.
LEMMA TooLargeIs ==
    ASSUME Ingress!LimitsArePositive, x2 \in Ingress!Entities, NEW n \in Nat
    PROVE  /\ Ingress!TooLarge(n) <=>
                \/ n > MaxDecompressed
                \/ n > MaxRatio * (IF x2.wire = 0 THEN 1 ELSE x2.wire)
           /\ ~ Ingress!TooLarge(0)
<1> DEFINE w == IF x2.wire = 0 THEN 1 ELSE x2.wire
<1>1. /\ w \in Nat \ {0} /\ w = IF x2.wire > 1 THEN x2.wire ELSE 1
      /\ MaxRatio \in Nat \ {0} /\ MaxDecompressed \in Nat
  BY IngressNumbers, EntitiesAreMeasured
<1>2. \A k \in Nat : Ingress!TooLarge(k) <=> k > MaxDecompressed \/ k > w * MaxRatio
  BY <1>1 DEF Ingress!TooLarge
<1> HIDE DEF w
<1>3. w * MaxRatio \in Nat /\ w * MaxRatio = MaxRatio * w
  BY <1>1, RatioAllows
<1>4. Ingress!TooLarge(n) <=> n > MaxDecompressed \/ n > MaxRatio * w
  BY <1>2, <1>3
<1>5. ~ Ingress!TooLarge(0)
  BY <1>1, <1>2, <1>3
<1> QED
  BY <1>4, <1>5 DEF w

\* The doors answer with a status, or let in.
LEMMA RefusalsAreStatuses ==
    ASSUME NEW r
    PROVE  Ingress!Refusal(r) \in {0, 400, 401, 403, 404}
<1>1. Ingress!HttpRefusal(r) \in {0, 400, 401, 403, 404}
  <2>1. CASE r.duplicateHost
    BY <2>1 DEF Ingress!HttpRefusal
  <2>2. CASE ~ r.duplicateHost /\ ~ r.hostAllowed
    BY <2>2 DEF Ingress!HttpRefusal
  <2>3. CASE ~ r.duplicateHost /\ r.hostAllowed
    <3>1. CASE r.surface = "api"
      BY <2>3, <3>1 DEF Ingress!HttpRefusal, Ingress!Kinds
    <3>2. CASE r.surface \in Ingress!Kinds
      BY <2>3, <3>2 DEF Ingress!HttpRefusal, Ingress!Kinds
    <3>3. CASE r.surface = "elsewhere"
      BY <2>3, <3>3 DEF Ingress!HttpRefusal, Ingress!Kinds
    <3>4. CASE r.surface # "api" /\ r.surface \notin Ingress!Kinds /\ r.surface # "elsewhere"
      BY <2>3, <3>4 DEF Ingress!HttpRefusal
    <3> QED
      BY <3>1, <3>2, <3>3, <3>4
  <2> QED
    BY <2>1, <2>2, <2>3
<1>2. Ingress!UpgradeRefusal(r) \in {0, 400, 401, 403, 404}
  <2>1. CASE r.duplicateHost
    BY <2>1 DEF Ingress!UpgradeRefusal
  <2>2. CASE ~ r.duplicateHost /\ (~ r.hostAllowed \/ r.surface # "websocket"
                                    \/ ~ r.firewallAllowed)
    BY <2>2 DEF Ingress!UpgradeRefusal
  <2>3. CASE ~ r.duplicateHost /\ ~ (~ r.hostAllowed \/ r.surface # "websocket"
                                      \/ ~ r.firewallAllowed)
    BY <2>3 DEF Ingress!UpgradeRefusal
  <2> QED
    BY <2>1, <2>2, <2>3
<1> QED
  BY <1>1, <1>2 DEF Ingress!Refusal

\* Both doors judge a client alike.
LEMMA DoorsDoAgree ==
    ASSUME x1 \in Ingress!Requests
    PROVE  Ingress!DoorsAgree
<1> DEFINE r == [x1 EXCEPT !.surface = "websocket"]
<1>1. r.surface = "websocket"
  BY DEF Ingress!Requests
<1> SUFFICES Ingress!UpgradeRefusal(r) =
               IF Ingress!HttpRefusal(r) = 400
                 /\ ~ r.duplicateHost THEN 0 ELSE Ingress!HttpRefusal(r)
  BY DEF Ingress!DoorsAgree
<1> HIDE DEF r
<1>2. /\ Ingress!Authenticated(r, FALSE) <=> r.key = "bearer"
      /\ Ingress!Authenticated(r, Ingress!AcceptsXApiKey(r)) <=> r.key = "bearer"
  BY <1>1 DEF Ingress!Authenticated, Ingress!AcceptsXApiKey
<1>3. CASE r.duplicateHost
  BY <1>3 DEF Ingress!UpgradeRefusal, Ingress!HttpRefusal
<1>4. CASE ~ r.duplicateHost /\ ~ r.hostAllowed
  BY <1>4 DEF Ingress!UpgradeRefusal, Ingress!HttpRefusal
<1>5. CASE ~ r.duplicateHost /\ r.hostAllowed
  <2>1. r.surface \in Ingress!Kinds /\ r.surface # "api" /\ r.surface # "unsupported"
    BY <1>1 DEF Ingress!Kinds
  <2>2. CASE ~ r.firewallAllowed
    BY <1>1, <1>5, <2>1, <2>2 DEF Ingress!UpgradeRefusal, Ingress!HttpRefusal
  <2>3. CASE r.firewallAllowed /\ r.key # "bearer"
    <3>1. Ingress!HttpRefusal(r) = 401
      BY <1>1, <1>2, <1>5, <2>1, <2>3 DEF Ingress!HttpRefusal
    <3>2. Ingress!UpgradeRefusal(r) = 401
      BY <1>1, <1>2, <1>5, <2>3 DEF Ingress!UpgradeRefusal
    <3> QED
      BY <3>1, <3>2
  <2>4. CASE r.firewallAllowed /\ r.key = "bearer"
    <3>1. Ingress!HttpRefusal(r) = 400
      BY <1>1, <1>2, <1>5, <2>1, <2>4 DEF Ingress!HttpRefusal
    <3>2. Ingress!UpgradeRefusal(r) = 0
      BY <1>1, <1>2, <1>5, <2>4 DEF Ingress!UpgradeRefusal
    <3> QED
      BY <1>5, <3>1, <3>2
  <2> QED
    BY <2>2, <2>3, <2>4
<1> QED
  BY <1>3, <1>4, <1>5

\* A request that arrives.
LEMMA IngressBegins ==
    ASSUME Ingress!LimitsArePositive, Ingress!Init
    PROVE  Ingress!IngressInv
<1>1. x1 \in Ingress!Requests /\ x2 \in Ingress!Entities /\ x3 = "arrived" /\ x4 = 0 /\ x5 = 0
        /\ x6 = 0 /\ x7 = FALSE
  BY IngressNumbers DEF Ingress!Init
<1>2. Ingress!TypeOK
  <2>1. x5 \in 0 .. MaxBodySize /\ x6 \in 0 .. BodyDeadline
    BY <1>1, IngressNumbers
  <2>2. x7 \in BOOLEAN
    BY <1>1, Zenon
  <2> QED
    BY <1>1, <2>1, <2>2 DEF Ingress!TypeOK
<1>3. x1.upgrade => x1.surface = "websocket"
  BY DEF Ingress!Init
<1> QED
  BY <1>1, <1>2, <1>3
     DEF Ingress!IngressInv, Ingress!BodiesAreWithinLimits, Ingress!RefusedIsDrained

\* What a step leaves alone.
LEMMA IngressRest ==
    ASSUME Ingress!Rest
    PROVE  /\ x1' = x1 /\ x2' = x2 /\ Ingress!Compressed' = Ingress!Compressed
           /\ Ingress!MaxInput' = Ingress!MaxInput /\ Ingress!Unacceptable' = Ingress!Unacceptable
           /\ Ingress!Refusal(x1)' = Ingress!Refusal(x1)
           /\ \A n : Ingress!TooLarge(n)' = Ingress!TooLarge(n)
BY DEF Ingress!Rest, Ingress!Compressed, Ingress!MaxInput, Ingress!Unacceptable, Ingress!TooLarge

\* A refusal is kept track of.
LEMMA RefusedKeeps ==
    ASSUME Ingress!LimitsArePositive, Ingress!IngressInv, Ingress!Rest, NEW status \in {400,
           401, 403, 404, 408, 413, 415},
           Ingress!Refused(status), x5' \in 0 .. MaxBodySize, x6' \in 0 .. BodyDeadline,
           x7' \in BOOLEAN,
           \/ Ingress!Refusal(x1) # 0 \/ status \notin {408, 413, 415} \/ x7' = TRUE
           \/ Ingress!Compressed /\ x2.wire <= MaxCompressed
    PROVE  Ingress!IngressInv'
<1>1. x3' = "refused" /\ x4' = status /\ x1' = x1 /\ x2' = x2
        /\ Ingress!Compressed' = Ingress!Compressed /\ Ingress!Refusal(x1)' = Ingress!Refusal(x1)
  BY IngressRest DEF Ingress!Refused
<1>2. Ingress!TypeOK'
  BY <1>1 DEF Ingress!IngressInv, Ingress!TypeOK
<1>3. Ingress!BodiesAreWithinLimits'
  BY <1>1 DEF Ingress!BodiesAreWithinLimits
<1>4. Ingress!RefusedIsDrained'
  BY <1>1 DEF Ingress!RefusedIsDrained
<1> QED
  BY <1>1, <1>2, <1>3, <1>4 DEF Ingress!IngressInv

\* A step that refuses nothing.
LEMMA GoingKeeps ==
    ASSUME Ingress!LimitsArePositive, Ingress!IngressInv, Ingress!Rest, x4' = x4, x7' = x7,
           x3' \in {"reading", "inflating", "handled"},
           x5' \in 0 .. MaxBodySize, x6' \in 0 .. BodyDeadline,
           x3' = "reading"
             => Ingress!Unacceptable = 0 /\ x5' <= Ingress!MaxInput /\ x5' <= x2.wire,
           x3' = "inflating" =>
             /\ Ingress!Compressed /\ x2.wire <= MaxCompressed
             /\ x5' <= x2.inflated /\ ~ Ingress!TooLarge(x5'),
           Ingress!BodiesAreWithinLimits'
    PROVE  Ingress!IngressInv'
<1>1. /\ x1' = x1 /\ x2' = x2 /\ Ingress!Compressed' = Ingress!Compressed
           /\ Ingress!MaxInput' = Ingress!MaxInput
      /\ Ingress!Unacceptable' = Ingress!Unacceptable
           /\ Ingress!TooLarge(x5)' = Ingress!TooLarge(x5')
  BY DEF Ingress!Rest, Ingress!Compressed, Ingress!MaxInput, Ingress!Unacceptable,
         Ingress!TooLarge
<1>2. Ingress!TypeOK'
  BY <1>1 DEF Ingress!IngressInv, Ingress!TypeOK
<1>3. Ingress!RefusedIsDrained'
  BY DEF Ingress!RefusedIsDrained
<1>4. x3' = "inflating" => ~ Ingress!TooLarge(x5)'
  BY <1>1
<1> QED
  BY <1>1, <1>2, <1>3, <1>4 DEF Ingress!IngressInv

\* A request that is turned away, or whose handler reads nothing, or a body.
LEMMA ArrivedKeeps ==
    ASSUME Ingress!LimitsArePositive, Ingress!IngressInv,
           Ingress!TurnedAway \/ Ingress!HandledAtOnce \/ Ingress!ReadBody
    PROVE  Ingress!IngressInv'
<1>1. /\ Ingress!TypeOK /\ x3 = "arrived" /\ x5 = 0 /\ x5' = x5 /\ x6' = x6 /\ Ingress!Rest
      /\ x5' \in 0 .. MaxBodySize /\ x6' \in 0 .. BodyDeadline /\ x7 \in BOOLEAN
  BY DEF Ingress!IngressInv, Ingress!TypeOK, Ingress!TurnedAway, Ingress!HandledAtOnce,
         Ingress!ReadBody
<1>2. x1' = x1 /\ x2' = x2 /\ x2 \in Ingress!Entities
  BY <1>1, IngressRest DEF Ingress!TypeOK
<1>3. CASE Ingress!TurnedAway
  <2>1. Ingress!Refusal(x1) \in {400, 401, 403, 404} /\ Ingress!Refused(Ingress!Refusal(x1))
          /\ x7' = x7
    BY <1>3, RefusalsAreStatuses DEF Ingress!TurnedAway
  <2> QED
    BY <1>1, <2>1, RefusedKeeps
<1>4. CASE Ingress!HandledAtOnce
  <2>1. x3' = "handled" /\ x4' = x4 /\ x7' = x7
    BY <1>4 DEF Ingress!HandledAtOnce
  <2>2. x1.surface \notin Ingress!Readers
    BY <1>4 DEF Ingress!HandledAtOnce, Ingress!IngressInv, Ingress!Readers
  <2>3. Ingress!BodiesAreWithinLimits'
    BY <1>2, <2>2 DEF Ingress!BodiesAreWithinLimits
  <2> QED
    BY <1>1, <2>1, <2>3, GoingKeeps
<1>5. CASE Ingress!ReadBody
  <2>1. CASE Ingress!Unacceptable = 0
    <3>1. x3' = "reading" /\ x4' = x4 /\ x7' = x7
      BY <1>5, <2>1 DEF Ingress!ReadBody
    <3>2. x5' <= Ingress!MaxInput /\ x5' <= x2.wire
      BY <1>1, <1>2, IngressNumbers, EntitiesAreMeasured DEF Ingress!MaxInput
    <3>3. Ingress!BodiesAreWithinLimits'
      BY <3>1 DEF Ingress!BodiesAreWithinLimits
    <3> QED
      BY <1>1, <2>1, <3>1, <3>2, <3>3, GoingKeeps
  <2>2. CASE Ingress!Unacceptable # 0
    <3>1. Ingress!Refused(Ingress!Unacceptable) /\ x7' = TRUE
            /\ Ingress!Unacceptable \in {413, 415}
      BY <1>5, <2>2 DEF Ingress!ReadBody, Ingress!Unacceptable
    <3> QED
      BY <1>1, <3>1, RefusedKeeps
  <2> QED
    BY <2>1, <2>2
<1> QED
  BY <1>3, <1>4, <1>5

\* A body is read within the limit.
LEMMA ReadingKeeps ==
    ASSUME Ingress!LimitsArePositive, Ingress!IngressInv, Ingress!Data \/ Ingress!Broken
    PROVE  Ingress!IngressInv'
<1>1. /\ Ingress!TypeOK /\ x3 = "reading" /\ x6' = x6 /\ Ingress!Rest /\ x2 \in Ingress!Entities
      /\ x6' \in 0 .. BodyDeadline /\ x7 \in BOOLEAN /\ x5 \in 0 .. MaxBodySize
      /\ Ingress!Unacceptable = 0
  BY DEF Ingress!IngressInv, Ingress!TypeOK, Ingress!Data, Ingress!Broken
<1>2. /\ Ingress!MaxInput \in Nat /\ MaxBodySize \in Nat /\ x2.wire \in Nat
           /\ x2.wire <= MaxBodySize
  BY <1>1, IngressNumbers, EntitiesAreMeasured DEF Ingress!MaxInput
<1>3. CASE Ingress!Data
  <2>1. x5' = x5 + 1 /\ x5 < x2.wire
    BY <1>3 DEF Ingress!Data
  <2>2. x5' \in 0 .. MaxBodySize /\ x5' <= x2.wire
    BY <1>1, <1>2, <2>1
  <2>3. CASE x5' > Ingress!MaxInput
    <3>1. Ingress!Refused(413) /\ x7' = TRUE
      BY <1>3, <2>3 DEF Ingress!Data
    <3> QED
      BY <1>1, <2>2, <3>1, RefusedKeeps
  <2>4. CASE ~ (x5' > Ingress!MaxInput)
    <3>1. x3' = "reading" /\ x4' = x4 /\ x7' = x7
      BY <1>1, <1>3, <2>4 DEF Ingress!Data
    <3>2. x5' <= Ingress!MaxInput
      BY <1>2, <2>2, <2>4
    <3>3. Ingress!BodiesAreWithinLimits'
      BY <3>1 DEF Ingress!BodiesAreWithinLimits
    <3> QED
      BY <1>1, <2>2, <3>1, <3>2, <3>3, GoingKeeps
  <2> QED
    BY <2>3, <2>4
<1>4. CASE Ingress!Broken
  <2>1. Ingress!Refused(400) /\ x7' = TRUE /\ x5' = x5
    BY <1>4 DEF Ingress!Broken
  <2> QED
    BY <1>1, <2>1, RefusedKeeps
<1> QED
  BY <1>3, <1>4

\* A body ends: it is handled, or inflated.
LEMMA EndKeeps ==
    ASSUME Ingress!LimitsArePositive, Ingress!IngressInv, Ingress!EndOfBody
    PROVE  Ingress!IngressInv'
<1>1. /\ Ingress!TypeOK /\ x3 = "reading" /\ x5 = x2.wire /\ x6' = x6 /\ Ingress!Rest
      /\ x2 \in Ingress!Entities /\ x7' = x7
      /\ x6' \in 0 .. BodyDeadline /\ x7' \in BOOLEAN /\ x5 \in 0 .. MaxBodySize
      /\ x5 <= Ingress!MaxInput
  BY DEF Ingress!IngressInv, Ingress!TypeOK, Ingress!EndOfBody
<1>2. MaxBodySize \in Nat
        /\ Ingress!MaxInput = IF Ingress!Compressed THEN MaxCompressed ELSE MaxDecompressed
  BY IngressNumbers DEF Ingress!MaxInput
<1>3. CASE ~ Ingress!Compressed
  <2>1. x3' = "handled" /\ x4' = x4 /\ x5' = x5
    BY <1>3 DEF Ingress!EndOfBody
  <2>2. x1' = x1 /\ x2' = x2 /\ Ingress!Compressed' = Ingress!Compressed
    BY <1>1, IngressRest
  <2>3. Ingress!BodiesAreWithinLimits'
    BY <1>1, <1>2, <1>3, <2>1, <2>2 DEF Ingress!BodiesAreWithinLimits
  <2> QED
    BY <1>1, <2>1, <2>3, GoingKeeps
<1>4. CASE Ingress!Compressed
  <2>1. x2.wire <= MaxCompressed
    BY <1>1, <1>2, <1>4
  <2>2. \/ Ingress!Refused(408) /\ x5' = x5
        \/ Ingress!Refused(400) /\ x5' = x5
        \/ Ingress!Refused(413) /\ x5' = x5
        \/ x3' = "inflating" /\ x5' = 0 /\ x4' = x4
    BY <1>4 DEF Ingress!EndOfBody
  <2>3. CASE Ingress!Refused(408) /\ x5' = x5
    BY ZenonT(40), <1>1, <1>4, <2>1, <2>3, RefusedKeeps
  <2>4. CASE Ingress!Refused(400) /\ x5' = x5
    BY <1>1, <1>4, <2>1, <2>4, RefusedKeeps
  <2>5. CASE Ingress!Refused(413) /\ x5' = x5
    BY ZenonT(40), <1>1, <1>4, <2>1, <2>5, RefusedKeeps
  <2>6. CASE x3' = "inflating" /\ x5' = 0 /\ x4' = x4
    <3>1. x5' \in 0 .. MaxBodySize /\ x5' <= x2.inflated /\ ~ Ingress!TooLarge(x5')
      BY <1>1, <1>2, <2>6, EntitiesAreMeasured, TooLargeIs
    <3>2. Ingress!BodiesAreWithinLimits'
      BY <2>6 DEF Ingress!BodiesAreWithinLimits
    <3> QED
      BY <1>1, <1>4, <2>1, <2>6, <3>1, <3>2, GoingKeeps
  <2> QED
    BY <2>2, <2>3, <2>4, <2>5, <2>6
<1> QED
  BY <1>3, <1>4

\* What is inflated stays within the limits, and so does what is handled.
LEMMA InflatingKeeps ==
    ASSUME Ingress!LimitsArePositive, Ingress!IngressInv, Ingress!Inflate \/ Ingress!Inflated
    PROVE  Ingress!IngressInv'
<1>1. /\ Ingress!TypeOK /\ x3 = "inflating" /\ x6' = x6 /\ Ingress!Rest
      /\ x2 \in Ingress!Entities /\ x7' = x7
      /\ x6' \in 0 .. BodyDeadline /\ x7' \in BOOLEAN /\ x5 \in 0 .. MaxBodySize
      /\ Ingress!Compressed /\ x2.wire <= MaxCompressed
      /\ x5 <= x2.inflated /\ ~ Ingress!TooLarge(x5)
  BY DEF Ingress!IngressInv, Ingress!TypeOK, Ingress!Inflate, Ingress!Inflated
<1>2. /\ MaxBodySize \in Nat /\ x2.inflated \in Nat /\ x2.inflated <= MaxBodySize
      /\ x2.wire \in Nat
  BY <1>1, IngressNumbers, EntitiesAreMeasured
<1>3. CASE Ingress!Inflate
  <2>1. x5' = x5 + 1 /\ x5 < x2.inflated
    BY <1>3 DEF Ingress!Inflate
  <2>2. x5' \in 0 .. MaxBodySize /\ x5' <= x2.inflated
    BY <1>1, <1>2, <2>1
  <2>3. \/ Ingress!Refused(408)
        \/ Ingress!Refused(413)
        \/ ~ Ingress!TooLarge(x5') /\ x3' = x3 /\ x4' = x4
    BY <1>3 DEF Ingress!Inflate
  <2>4. CASE Ingress!Refused(408)
    BY ZenonT(40), <1>1, <2>2, <2>4, RefusedKeeps
  <2>5. CASE Ingress!Refused(413)
    BY ZenonT(40), <1>1, <2>2, <2>5, RefusedKeeps
  <2>6. CASE ~ Ingress!TooLarge(x5') /\ x3' = x3 /\ x4' = x4
    <3>1. Ingress!BodiesAreWithinLimits'
      BY <1>1, <2>6 DEF Ingress!BodiesAreWithinLimits
    <3> QED
      BY <1>1, <2>2, <2>6, <3>1, GoingKeeps
  <2> QED
    BY <2>3, <2>4, <2>5, <2>6
<1>4. CASE Ingress!Inflated
  <2>1. x5' = x5 /\ x5 = x2.inflated
    BY <1>4 DEF Ingress!Inflated
  <2>2. CASE x2.valid
    <3>1. x3' = "handled" /\ x4' = x4
      BY <1>4, <2>2 DEF Ingress!Inflated
    <3>2. x1' = x1 /\ x2' = x2 /\ Ingress!Compressed' = Ingress!Compressed
      BY <1>1, IngressRest
    <3>3. /\ x5 <= MaxDecompressed
          /\ x5 <= MaxRatio * (IF x2.wire = 0 THEN 1 ELSE x2.wire)
      <4> DEFINE w == IF x2.wire = 0 THEN 1 ELSE x2.wire
      <4>1. ~ (x5 > MaxDecompressed) /\ ~ (x5 > MaxRatio * w)
        BY <1>1, TooLargeIs
      <4>2. w \in Nat \ {0} /\ MaxRatio \in Nat \ {0} /\ MaxDecompressed \in Nat /\ x5 \in Nat
        BY <1>1, <1>2, IngressNumbers
      <4> HIDE DEF w
      <4>3. MaxRatio * w \in Nat
        BY <4>2, RatioAllows
      <4>4. x5 <= MaxDecompressed /\ x5 <= MaxRatio * w
        BY <4>1, <4>2, <4>3
      <4> QED
        BY <4>4 DEF w
    <3>4. Ingress!BodiesAreWithinLimits'
      BY <1>1, <2>1, <2>2, <3>1, <3>2, <3>3 DEF Ingress!BodiesAreWithinLimits
    <3> QED
      BY <1>1, <2>1, <3>1, <3>4, GoingKeeps
  <2>3. CASE ~ x2.valid
    <3>1. Ingress!Refused(400)
      BY <1>4, <2>3 DEF Ingress!Inflated
    <3> QED
      BY <1>1, <2>1, <3>1, RefusedKeeps
  <2> QED
    BY <2>2, <2>3
<1> QED
  BY <1>3, <1>4

\* Time passes, or runs out.
LEMMA TimeKeeps ==
    ASSUME Ingress!LimitsArePositive, Ingress!IngressInv, Ingress!TimesOut \/ Ingress!Tick
    PROVE  Ingress!IngressInv'
<1>1. /\ Ingress!TypeOK /\ Ingress!Rest /\ x2 \in Ingress!Entities /\ x5' = x5
           /\ BodyDeadline \in Nat
      /\ x6 \in 0 .. BodyDeadline /\ x7 \in BOOLEAN /\ x5 \in 0 .. MaxBodySize
  BY IngressNumbers DEF Ingress!IngressInv, Ingress!TypeOK, Ingress!TimesOut, Ingress!Tick
<1>2. CASE Ingress!TimesOut
  <2>1. /\ Ingress!Refused(408) /\ x6' = x6
        /\ x3 = "reading" \/ (x3 = "inflating" /\ x2.encoding = "gzip")
        /\ x7' = (x3 = "reading")
    BY <1>2 DEF Ingress!TimesOut
  <2>2. x7' \in BOOLEAN
    BY <2>1, Zenon
  <2>3. Ingress!Refused(408) /\ x6' \in 0 .. BodyDeadline /\ x5' \in 0 .. MaxBodySize
    BY <1>1, <2>1
  <2>4. CASE x3 = "reading"
    <3>1. x7' = TRUE
      BY <2>1, <2>4
    <3> QED
      BY <1>1, <2>3, <3>1, RefusedKeeps
  <2>5. CASE x3 = "inflating"
    <3>1. Ingress!Compressed /\ x2.wire <= MaxCompressed
      BY <2>5 DEF Ingress!IngressInv
    <3> QED
      BY ZenonT(40), <1>1, <2>2, <2>3, <3>1, RefusedKeeps
  <2> QED
    BY <2>1, <2>4, <2>5
<1>3. CASE Ingress!Tick
  <2>1. /\ x3 \in {"reading", "inflating"} /\ x6' = x6 + 1 /\ x6 < BodyDeadline
        /\ x3' = x3 /\ x4' = x4 /\ x7' = x7
    BY <1>3 DEF Ingress!Tick
  <2>2. x6' \in 0 .. BodyDeadline
    BY <1>1, <2>1
  <2>3. Ingress!BodiesAreWithinLimits'
    BY <2>1 DEF Ingress!BodiesAreWithinLimits
  <2> QED
    BY <1>1, <2>1, <2>2, <2>3, GoingKeeps DEF Ingress!IngressInv
<1> QED
  BY <1>2, <1>3

\* Every step keeps the invariant.
LEMMA IngressGoesOn ==
    ASSUME Ingress!LimitsArePositive, Ingress!IngressInv, [Ingress!Next]_(Ingress!vars)
    PROVE  Ingress!IngressInv'
<1>1. CASE UNCHANGED Ingress!vars
  BY <1>1
     DEF Ingress!vars, Ingress!IngressInv, Ingress!TypeOK, Ingress!BodiesAreWithinLimits,
         Ingress!RefusedIsDrained, Ingress!Compressed, Ingress!MaxInput,
         Ingress!Unacceptable, Ingress!TooLarge
<1> QED
  BY <1>1, ArrivedKeeps, ReadingKeeps, EndKeeps, InflatingKeeps, TimeKeeps DEF Ingress!Next

\* What the invariant says.
LEMMA IngressIs ==
    Ingress!IngressInv
      => Ingress!TypeOK /\ Ingress!BodiesAreWithinLimits /\ Ingress!RefusedIsDrained
        /\ Ingress!DoorsAgree
BY DoorsDoAgree DEF Ingress!IngressInv, Ingress!TypeOK

-----------------------------------------------------------------------------
(* Names: the lemmas of ClaudeTools' NamesInv.  x1 is the tools, x2 the    *)
(* next one, x3 the aliases, x4 what was sent and x5 the answer.           *)

\* Four tools of five names that collide when sanitised or look like aliases.
Names == INSTANCE ClaudeTools WITH
    Exempt <- PlainTools, Words <- AliasWords, BaseIndex <- NameHash, Sanitized <- SanitizedName,
    tools <- x1, next <- x2, forward <- x3, sent <- x4, answer <- x5

ASSUME NamesFit == Names!NamesAssumption

\* A set of numbers that is not empty has a least one.
LEMMA OneIsLeast ==
    ASSUME NEW F \in SUBSET Nat, F # {}
    PROVE  \E a \in F : \A b \in F : a <= b
<1> DEFINE less == {p \in Nat \X Nat : p[1] < p[2]}
<1>1. IsWellFoundedOn(less, Nat)
  BY NatLessThanWellFounded DEF OpToRel
<1> HIDE DEF less
<1>2. PICK x \in F : \A y \in F : ~ (<<y, x>> \in less)
  BY <1>1, WFMin
<1>3. \A y \in F : ~ (y < x)
  BY <1>2 DEF less
<1> QED
  BY <1>3

\* The tools are a sequence, with their names in it.
LEMMA ToolsAreNamed ==
    ASSUME Names!NamesAssumption, NEW s \in Names!BoundedSeq(ToolNames, MaxTools)
    PROVE  /\ s \in Seq(ToolNames) /\ Len(s) \in 0 .. MaxTools /\ DOMAIN s = 1 .. Len(s)
           /\ Names!ToSet(s) = {s[i] : i \in DOMAIN s}
           /\ \A i \in DOMAIN s : s[i] \in ToolNames
<1>1. PICK m \in 0 .. MaxTools : s \in [1 .. m -> ToolNames]
  BY DEF Names!BoundedSeq, Names!SeqOf
<1>2. s \in Seq(ToolNames) /\ Len(s) = m
  BY <1>1
<1> QED
  BY <1>1, <1>2 DEF Names!ToSet

\* A word of the list makes an alias.
LEMMA AliasesAreNames ==
    ASSUME Names!NamesAssumption, NEW n \in ToolNames, NEW a \in 0 .. (AliasWords - 1)
    PROVE  Names!Candidate(n, a) \in Names!AllNames /\ Names!Candidate(n, a) # None
<1>1. (NameHash[n] + a) % AliasWords \in 0 .. (AliasWords - 1)
  <2>1. NameHash[n] + a \in Nat /\ AliasWords \in Nat /\ AliasWords > 0
    BY DEF Names!NamesAssumption
  <2> QED
    BY <2>1
<1>2. Names!Candidate(n, a) \in Names!AllNames
  <2>1. Names!Candidate(n, a) \in {AliasName[<<w,
            SanitizedName[m]>>] : w \in 0 .. (AliasWords - 1),
                                                          m \in ToolNames}
    BY <1>1 DEF Names!Candidate
  <2> QED
    BY <2>1 DEF Names!AllNames
<1> QED
  BY <1>2 DEF Names!NamesAssumption

\* Before the first tool there is no alias.
LEMMA NamesBegin ==
    ASSUME Names!NamesAssumption, Names!Init
    PROVE  Names!NamesInv
<1>1. /\ x1 \in Seq(ToolNames) /\ Len(x1) \in Nat
      /\ \A i \in DOMAIN x1 : x1[i] \in ToolNames
  BY ToolsAreNamed DEF Names!Init
<1>2. x1 \in [DOMAIN x1 -> Names!AllNames]
  <2>1. x1 = [i \in DOMAIN x1 |-> x1[i]] /\ \A i \in DOMAIN x1 : x1[i] \in Names!AllNames
    BY <1>1 DEF Names!AllNames
  <2> QED
    BY <2>1
<1>3. Names!NamesAreTyped
  BY <1>1, <1>2 DEF Names!Init, Names!NamesAreTyped
<1>4. Names!SentAsNamed /\ Names!AliasesAreApart /\ Names!CalledAsSent
  BY DEF Names!Init, Names!SentAsNamed, Names!AliasesAreApart, Names!CalledAsSent
<1> QED
  BY <1>3, <1>4 DEF Names!NamesInv

\* aliasClaudeOAuthTools: an alias is new and nobody's name.
LEMMA AliasGiven ==
    ASSUME Names!NamesAssumption, Names!NamesInv, Names!AliasTool
    PROVE  Names!NamesInv'
<1> DEFINE name == x1[x2]
           free == {a \in 0 .. (AliasWords - 1) : Names!Candidate(name, a) \notin Names!Reserved}
           first == CHOOSE a \in free : \A b \in free : a <= b
           alias == Names!Candidate(name, first)
<1>1. /\ x1 \in Seq(ToolNames) /\ Len(x1) \in 0 .. MaxTools
      /\ DOMAIN x1 = 1 .. Len(x1) /\ Names!ToSet(x1) = {x1[i] : i \in DOMAIN x1}
      /\ \A i \in DOMAIN x1 : x1[i] \in ToolNames
  BY ToolsAreNamed DEF Names!NamesInv, Names!NamesAreTyped
<1>2. /\ x2 \in DOMAIN x1 /\ x2' = x2 + 1 /\ UNCHANGED <<x1, x5>>
      /\ x2' \in 1 .. (Len(x1) + 1) /\ x2 # Len(x1) + 1
  BY <1>1 DEF Names!AliasTool, Names!NamesInv, Names!NamesAreTyped
<1>3. name \in ToolNames
  BY <1>1, <1>2
<1>4. Names!CalledAsSent' /\ x5.called = None
  BY <1>2 DEF Names!NamesInv, Names!CalledAsSent
<1>5. CASE UNCHANGED <<x3, x4>>
  <2>1. Names!NamesAreTyped' /\ Names!SentAsNamed' /\ Names!AliasesAreApart'
    BY <1>2, <1>5
       DEF Names!NamesInv, Names!NamesAreTyped, Names!SentAsNamed, Names!AliasesAreApart
  <2> QED
    BY <1>4, <2>1 DEF Names!NamesInv
<1>6. CASE /\ x3[name] = None /\ free # {}
           /\ x3' = [x3 EXCEPT ![name] = alias]
           /\ x4' = [x4 EXCEPT ![x2] = alias]
  <2>1. first \in free
    <3>1. free \in SUBSET Nat
      OBVIOUS
    <3> HIDE DEF free
    <3> QED
      BY <1>6, <3>1, OneIsLeast
  <2>2. first \in 0 .. (AliasWords - 1) /\ alias \notin Names!Reserved
    BY <2>1
  <2>3. alias \in Names!AllNames /\ alias # None
    BY <1>3, <2>2, AliasesAreNames
  <2>4. alias \notin Names!ToSet(x1) /\ \A n \in ToolNames : x3[n] # alias
    BY <2>2, <2>3 DEF Names!Reserved, Names!Aliases
  <2> HIDE DEF first, free, alias
  <2>5. /\ x3' \in [ToolNames -> Names!AllNames \cup {None}]
        /\ x3'[name] = alias /\ \A n \in ToolNames \ {name} : x3'[n] = x3[n]
    BY <1>3, <1>6, <2>3 DEF Names!NamesInv, Names!NamesAreTyped
  <2>6. /\ x4' \in [DOMAIN x1 -> Names!AllNames]
        /\ x4'[x2] = alias /\ \A i \in DOMAIN x1 \ {x2} : x4'[i] = x4[i]
    BY <1>2, <1>6, <2>3 DEF Names!NamesInv, Names!NamesAreTyped
  <2>7. Names!NamesAreTyped'
    BY <1>2, <2>5, <2>6 DEF Names!NamesInv, Names!NamesAreTyped
  <2>8. Names!SentAsNamed'
    <3>1. ASSUME NEW i \in DOMAIN x1
          PROVE  \/ x4'[i] = x1[i]
                 \/ x3'[x1[i]] # None /\ x4'[i] = x3'[x1[i]]
      <4>1. CASE i = x2
        BY <2>3, <2>5, <2>6, <4>1
      <4>2. CASE i # x2
        <5>1. x4'[i] = x4[i] /\ x1[i] \in ToolNames
          BY <1>1, <2>6, <4>2
        <5>2. CASE x1[i] = name
          BY <1>6, <5>1, <5>2 DEF Names!NamesInv, Names!SentAsNamed
        <5>3. CASE x1[i] # name
          BY <2>5, <5>1, <5>3 DEF Names!NamesInv, Names!SentAsNamed
        <5> QED
          BY <5>2, <5>3
      <4> QED
        BY <4>1, <4>2
    <3> HIDE DEF name
    <3> QED
      BY <1>2, <3>1 DEF Names!SentAsNamed
  <2>9. Names!AliasesAreApart'
    <3> HIDE DEF name
    <3>1. \A n \in ToolNames : x3'[n] # None =>
            /\ x3'[n] \notin Names!ToSet(x1)
            /\ \A m \in ToolNames : x3'[m] = x3'[n] => m = n
      BY <1>3, <2>4, <2>5 DEF Names!NamesInv, Names!AliasesAreApart
    <3> QED
      BY <1>2, <3>1 DEF Names!AliasesAreApart
  <2> QED
    BY <1>4, <2>7, <2>8, <2>9 DEF Names!NamesInv
<1> QED
  BY <1>5, <1>6 DEF Names!AliasTool

\* restoreClaudeToolAliases: what was sent is restored to what it stands for.
LEMMA SentIsRestored ==
    ASSUME Names!NamesAssumption, Names!NamesInv, NEW i \in DOMAIN x1
    PROVE  Names!Restored(x4[i]) = x1[i]
<1>1. x1[i] \in ToolNames /\ x1[i] \in Names!ToSet(x1)
  BY ToolsAreNamed DEF Names!NamesInv, Names!NamesAreTyped
<1>2. CASE x4[i] \in Names!Aliases
  <2>1. PICK n \in ToolNames : x3[n] # None /\ x3[n] = x4[i]
    BY <1>2 DEF Names!Aliases
  <2>2. x4[i] # x1[i]
    BY <1>1, <2>1 DEF Names!NamesInv, Names!AliasesAreApart
  <2>3. x4[i] = x3[x1[i]] /\ x3[x1[i]] # None
    BY <2>2 DEF Names!NamesInv, Names!SentAsNamed
  <2>4. \A m \in ToolNames : x3[m] = x4[i] <=> m = x1[i]
    BY <1>1, <2>3 DEF Names!NamesInv, Names!AliasesAreApart
  <2>5. (CHOOSE m \in ToolNames : x3[m] = x4[i]) = x1[i]
    BY <1>1, <2>4
  <2> QED
    BY <1>2, <2>5 DEF Names!Restored
<1>3. CASE x4[i] \notin Names!Aliases
  <2>1. x4[i] = x1[i]
    BY <1>1, <1>3 DEF Names!NamesInv, Names!SentAsNamed, Names!Aliases
  <2> QED
    BY <1>3, <2>1 DEF Names!Restored
<1> QED
  BY <1>2, <1>3

\* The provider calls a tool by what it was sent as.
LEMMA ToolCalled ==
    ASSUME Names!NamesAssumption, Names!NamesInv, NEW i \in 1 .. Len(x1), Names!Call(i)
    PROVE  Names!NamesInv'
<1>1. DOMAIN x1 = 1 .. Len(x1) /\ x1[i] \in ToolNames /\ Len(x1) \in Nat
  BY ToolsAreNamed DEF Names!NamesInv, Names!NamesAreTyped
<1>2. Names!Restored(x4[i]) = x1[i]
  BY <1>1, SentIsRestored
<1>3. /\ x5' = [called |-> x4[i], given |-> x1[i]] /\ x2 > Len(x1)
      /\ UNCHANGED <<x1, x2, x3, x4>>
  BY <1>2 DEF Names!Call
<1>4. x4[i] \in Names!AllNames /\ x1[i] \in Names!AllNames
  <2>1. x4[i] \in Names!AllNames
    BY <1>1 DEF Names!NamesInv, Names!NamesAreTyped
  <2>2. x1[i] \in Names!AllNames
    BY <1>1 DEF Names!AllNames
  <2> QED
    BY <2>1, <2>2
<1>5. Names!NamesAreTyped'
  BY <1>3, <1>4 DEF Names!NamesInv, Names!NamesAreTyped
<1>6. Names!SentAsNamed' /\ Names!AliasesAreApart'
  BY <1>3 DEF Names!NamesInv, Names!SentAsNamed, Names!AliasesAreApart
<1>7. x2 = Len(x1) + 1
  BY <1>1, <1>3 DEF Names!NamesInv, Names!NamesAreTyped
<1>8. Names!CalledAsSent'
  BY <1>1, <1>3, <1>7 DEF Names!CalledAsSent
<1> QED
  BY <1>5, <1>6, <1>8 DEF Names!NamesInv

\* Every step keeps names apart.
LEMMA NamesGoOn ==
    ASSUME Names!NamesAssumption, Names!NamesInv, [Names!Next]_(Names!vars)
    PROVE  Names!NamesInv'
<1>1. CASE UNCHANGED Names!vars
  BY <1>1
     DEF Names!vars, Names!NamesInv, Names!NamesAreTyped, Names!SentAsNamed,
         Names!AliasesAreApart, Names!CalledAsSent
<1> QED
  BY <1>1, AliasGiven, ToolCalled DEF Names!Next

\* The client gets its names back.
LEMMA NamesAre ==
    ASSUME Names!NamesAssumption, Names!NamesInv
    PROVE  Names!AliasesAreReversible /\ Names!TypeOK
<1>1. DOMAIN x1 = 1 .. Len(x1) /\ Len(x1) \in 0 .. MaxTools
      /\ Names!ToSet(x1) = {x1[i] : i \in DOMAIN x1}
      /\ \A i \in DOMAIN x1 : x1[i] \in ToolNames
  BY ToolsAreNamed DEF Names!NamesInv, Names!NamesAreTyped
<1>2. \A i, j \in DOMAIN x1 : x4[i] = x4[j] => x1[i] = x1[j]
  BY SentIsRestored
<1>3. Names!AliasesAreReversible
  BY <1>1, <1>2 DEF Names!NamesInv, Names!CalledAsSent, Names!AliasesAreReversible
<1>4. Names!ToSet(x4) \subseteq Names!AllNames
  BY DEF Names!NamesInv, Names!NamesAreTyped, Names!ToSet
<1>5. x2 \in 1 .. (MaxTools + 1)
  BY <1>1 DEF Names!NamesInv, Names!NamesAreTyped, Names!NamesAssumption
<1>6. Names!TypeOK
  BY <1>4, <1>5 DEF Names!NamesInv, Names!NamesAreTyped, Names!TypeOK
<1> QED
  BY <1>3, <1>6

-----------------------------------------------------------------------------
(* Exchange: the lemmas of ResponseLifecycle's ExchangeInv.  x1 is the     *)
(* request, x2 the client, x3 abort, x4 where requestUpstream is, x5       *)
(* fetch, x6 the provider's body, x7 the one put in its place, x8 what was *)
(* got of it, x9 the consumer and x10 the kind of failure.                 *)

\* Bodies of at most two chunks, around what is collected of them.
Exchange == INSTANCE ResponseLifecycle WITH
    MaxChunks <- BodyChunks, MaxBytes <- DecodedBytes,
    request <- x1, client <- x2, abort <- x3, at <- x4, fetch <- x5, raw <- x6, stream <- x7,
    got <- x8, consumer <- x9, kind <- x10

ASSUME BodiesFit == Exchange!LimitsFit

\* A request begins with nothing read.
LEMMA ExchangeBegins ==
    ASSUME Exchange!LimitsFit, Exchange!Init
    PROVE  Exchange!ExchangeInv
BY DEF Exchange!Init, Exchange!LimitsFit, Exchange!ExchangeInv, Exchange!TypeOK, Exchange!Raw,
       Exchange!Fetch, Exchange!Readers, Exchange!BytesAddUp, Exchange!SignalKnows,
       Exchange!BeforeTheHeaders, Exchange!StreamOwnsTheSignal, Exchange!ReadersHaveABody,
       Exchange!ThrownIsOver

\* A signal that is cleaned up is one, and keeps its reason.
LEMMA CleanedUpIs ==
    ASSUME NEW s \in [reason : {"none", "closed", "timeout"}, timer : BOOLEAN,
                      listening : BOOLEAN]
    PROVE  /\ Exchange!CleanedUp(s) \in [reason : {"none", "closed", "timeout"}, timer : BOOLEAN,
                                listening : BOOLEAN]
           /\ Exchange!CleanedUp(s).reason = s.reason
           /\ ~Exchange!CleanedUp(s).timer /\ ~Exchange!CleanedUp(s).listening
BY DEF Exchange!CleanedUp

\* A body that is given up is not open, and holds what it held.
LEMMA GivenUpIs ==
    ASSUME NEW b \in Exchange!Raw
    PROVE  /\ Exchange!GivenUp(b) \in Exchange!Raw /\ Exchange!GivenUp(b).state # "open"
           /\ Exchange!GivenUp(b).left = b.left
BY DEF Exchange!GivenUp, Exchange!Raw

\* A chunk goes from the provider to the reader.
LEMMA ChunkKeeps ==
    ASSUME Exchange!LimitsFit, Exchange!ExchangeInv, Exchange!Chunk, UNCHANGED <<x1, x2>>
    PROVE  /\ x3' = x3 /\ x6' \in Exchange!Raw /\ x7' = "open" /\ x7 = "open"
           /\ x8' \in 0 .. BodyChunks
           /\ Exchange!BytesAddUp' /\ Exchange!SignalKnows' /\ Exchange!StreamOwnsTheSignal'
BY DEF Exchange!LimitsFit, Exchange!Chunk, Exchange!ExchangeInv, Exchange!TypeOK, Exchange!Raw,
       Exchange!Fetch, Exchange!Readers, Exchange!BytesAddUp, Exchange!SignalKnows,
       Exchange!BeforeTheHeaders, Exchange!StreamOwnsTheSignal, Exchange!ReadersHaveABody,
       Exchange!ThrownIsOver

\* A body that ends, however it does, has let go of the signal.
LEMMA BodyEnds ==
    ASSUME Exchange!LimitsFit, Exchange!ExchangeInv, UNCHANGED <<x1, x2>>, x8' = x8,
           Exchange!Over \/ Exchange!Broken \/ (x7 = "open" /\ Exchange!GiveUp)
    PROVE  /\ x3' \in [reason : {"none", "closed", "timeout"}, timer : BOOLEAN,
                          listening : BOOLEAN]
           /\ x3'.reason = "none" /\ ~x3'.timer /\ ~x3'.listening
           /\ x6' \in Exchange!Raw /\ x6'.state # "open"
           /\ x7 = "open" /\ x7' \in {"closed", "errored", "cancelled"}
           /\ Exchange!Over => x7' = "closed"
           /\ Exchange!BytesAddUp' /\ Exchange!SignalKnows' /\ Exchange!StreamOwnsTheSignal'
<1>1. /\ x7 = "open" /\ x6.state = "open" /\ x3' = Exchange!CleanedUp(x3)
      /\ x6' \in Exchange!Raw /\ x6'.state # "open" /\ x6'.left = x6.left
      /\ x7' \in {"closed", "errored", "cancelled"}
      /\ Exchange!Over => x7' = "closed"
      /\ x7' = "closed" => x6'.state = "done" /\ x6'.left = 0
  <2>1. CASE Exchange!Over
    BY <2>1 DEF Exchange!Over, Exchange!ExchangeInv, Exchange!TypeOK, Exchange!Raw
  <2>2. CASE Exchange!Broken
    BY <2>2
       DEF Exchange!Over, Exchange!Broken, Exchange!ExchangeInv, Exchange!TypeOK, Exchange!Raw
  <2>3. CASE x7 = "open" /\ Exchange!GiveUp
    BY <2>3, GivenUpIs
       DEF Exchange!Over, Exchange!GiveUp, Exchange!ExchangeInv, Exchange!TypeOK,
           Exchange!StreamOwnsTheSignal
  <2> QED
    BY <2>1, <2>2, <2>3
<1>2. /\ x3' \in [reason : {"none", "closed", "timeout"}, timer : BOOLEAN,
                     listening : BOOLEAN]
      /\ x3'.reason = x3.reason /\ ~x3'.timer /\ ~x3'.listening
  BY <1>1, CleanedUpIs DEF Exchange!ExchangeInv, Exchange!TypeOK
<1>3. x3.reason = "none"
  BY <1>1 DEF Exchange!ExchangeInv, Exchange!StreamOwnsTheSignal
<1>4. Exchange!BytesAddUp'
  BY <1>1 DEF Exchange!ExchangeInv, Exchange!BytesAddUp
<1>5. Exchange!SignalKnows'
  BY <1>2, <1>3 DEF Exchange!SignalKnows
<1>6. Exchange!StreamOwnsTheSignal'
  BY <1>1, <1>2 DEF Exchange!StreamOwnsTheSignal
<1> QED
  BY <1>1, <1>2, <1>3, <1>4, <1>5, <1>6

\* A reader of the returned body goes on, or ends with it.
LEMMA ReaderKeeps ==
    ASSUME Exchange!LimitsFit, Exchange!ExchangeInv, x4 = "returned", x9 = "reading",
           UNCHANGED <<x1, x2, x4, x5, x10>>,
           \/ Exchange!Chunk /\ x9' \in {"reading", "writing"}
           \/ Exchange!Over /\ x9' = "whole"
           \/ Exchange!Broken /\ x9' \in {"empty", "failed"}
           \/ x7 = "open" /\ Exchange!GiveUp /\ x8' = x8 /\ x9' \in {"empty", "failed"}
           \/ /\ x7 = "errored" /\ UNCHANGED <<x3, x6, x7, x8>>
              /\ \/ x9' \in {"empty", "failed"}
                 \/ x9' = "cancelled" /\ x3.reason = "closed"
           \/ /\ x7 = "closed" /\ UNCHANGED <<x3, x6, x7, x8>>
              /\ x9' = "whole"
    PROVE  Exchange!ExchangeInv'
<1>1. CASE Exchange!Chunk /\ x9' \in {"reading", "writing"}
  <2>1. /\ x3' = x3 /\ x6' \in Exchange!Raw /\ x7' = "open" /\ x7 = "open"
        /\ x8' \in 0 .. BodyChunks
        /\ Exchange!BytesAddUp' /\ Exchange!SignalKnows' /\ Exchange!StreamOwnsTheSignal'
    BY <1>1, ChunkKeeps
  <2>2. Exchange!TypeOK'
    BY <1>1, <2>1 DEF Exchange!ExchangeInv, Exchange!TypeOK
  <2>3. Exchange!BeforeTheHeaders' /\ Exchange!ReadersHaveABody' /\ Exchange!ThrownIsOver'
    BY <1>1, <2>1
       DEF Exchange!ExchangeInv, Exchange!BeforeTheHeaders, Exchange!ReadersHaveABody,
           Exchange!ThrownIsOver
  <2> QED
    BY <2>1, <2>2, <2>3 DEF Exchange!ExchangeInv
<1>2. CASE \/ Exchange!Over /\ x9' = "whole"
           \/ Exchange!Broken /\ x9' \in {"empty", "failed"}
           \/ x7 = "open" /\ Exchange!GiveUp /\ x8' = x8 /\ x9' \in {"empty", "failed"}
  <2>1. /\ x3' \in [reason : {"none", "closed", "timeout"}, timer : BOOLEAN,
                       listening : BOOLEAN]
        /\ x6' \in Exchange!Raw /\ x7' \in {"closed", "errored", "cancelled"} /\ x8' = x8
        /\ Exchange!Over => x7' = "closed"
        /\ Exchange!BytesAddUp' /\ Exchange!SignalKnows' /\ Exchange!StreamOwnsTheSignal'
    <3>1. UNCHANGED <<x1, x2>> /\ x8' = x8
      BY <1>2 DEF Exchange!Over, Exchange!Broken
    <3>2. Exchange!Over \/ Exchange!Broken \/ (x7 = "open" /\ Exchange!GiveUp)
      BY <1>2
    <3> QED
      BY <3>1, <3>2, BodyEnds
  <2>2. Exchange!TypeOK'
    BY <1>2, <2>1 DEF Exchange!ExchangeInv, Exchange!TypeOK
  <2>3. Exchange!BeforeTheHeaders' /\ Exchange!ReadersHaveABody' /\ Exchange!ThrownIsOver'
    BY <1>2, <2>1
       DEF Exchange!ExchangeInv, Exchange!BeforeTheHeaders, Exchange!ReadersHaveABody,
           Exchange!ThrownIsOver
  <2> QED
    BY <2>1, <2>2, <2>3 DEF Exchange!ExchangeInv
<1>3. CASE /\ x7 \in {"errored", "closed"} /\ UNCHANGED <<x3, x6, x7, x8>>
           /\ \/ x9' \in {"empty", "failed"} /\ x7 = "errored"
              \/ x9' = "cancelled" /\ x3.reason = "closed" /\ x7 = "errored"
              \/ x9' = "whole" /\ x7 = "closed"
  <2>1. Exchange!TypeOK'
    BY <1>3 DEF Exchange!ExchangeInv, Exchange!TypeOK
  <2>2. Exchange!BytesAddUp' /\ Exchange!SignalKnows' /\ Exchange!StreamOwnsTheSignal'
    BY <1>3
       DEF Exchange!ExchangeInv, Exchange!BytesAddUp, Exchange!SignalKnows,
           Exchange!StreamOwnsTheSignal
  <2>3. Exchange!BeforeTheHeaders' /\ Exchange!ReadersHaveABody' /\ Exchange!ThrownIsOver'
    BY <1>3
       DEF Exchange!ExchangeInv, Exchange!BeforeTheHeaders, Exchange!ReadersHaveABody,
           Exchange!ThrownIsOver
  <2> QED
    BY <2>1, <2>2, <2>3 DEF Exchange!ExchangeInv
<1> QED
  BY <1>1, <1>2, <1>3

\* The answer is decoded, or given up.
LEMMA DecodeKeeps ==
    ASSUME Exchange!LimitsFit, Exchange!ExchangeInv, Exchange!DecodeRead
    PROVE  Exchange!ExchangeInv'
<1>1. /\ x4 \in {"first", "whole"} /\ x9 = "none" /\ UNCHANGED <<x1, x2, x5>>
      /\ x7 \in {"open", "errored"}
  BY DEF Exchange!DecodeRead, Exchange!ExchangeInv, Exchange!ReadersHaveABody
<1>2. CASE Exchange!Chunk /\ (Exchange!Returned \/ (x4' = "whole" /\ UNCHANGED <<x9, x10>>))
  <2>1. /\ x3' = x3 /\ x6' \in Exchange!Raw /\ x7' = "open" /\ x7 = "open"
        /\ x8' \in 0 .. BodyChunks
        /\ Exchange!BytesAddUp' /\ Exchange!SignalKnows' /\ Exchange!StreamOwnsTheSignal'
    BY <1>1, <1>2, ChunkKeeps
  <2>2. Exchange!TypeOK'
    BY <1>1, <1>2, <2>1 DEF Exchange!ExchangeInv, Exchange!TypeOK, Exchange!Returned
  <2>3. Exchange!BeforeTheHeaders' /\ Exchange!ReadersHaveABody' /\ Exchange!ThrownIsOver'
    BY <1>1, <1>2, <2>1
       DEF Exchange!ExchangeInv, Exchange!BeforeTheHeaders, Exchange!ReadersHaveABody,
           Exchange!ThrownIsOver, Exchange!Returned
  <2> QED
    BY <2>1, <2>2, <2>3 DEF Exchange!ExchangeInv
<1>3. CASE \/ Exchange!Over /\ Exchange!Returned
           \/ Exchange!Broken /\ Exchange!Thrown("transport") /\ UNCHANGED x9
           \/ x7 = "open" /\ Exchange!GiveUp /\ Exchange!Thrown("timeout") /\ UNCHANGED <<x8, x9>>
  <2>1. /\ x3' \in [reason : {"none", "closed", "timeout"}, timer : BOOLEAN,
                       listening : BOOLEAN]
        /\ x3'.reason = "none" /\ ~x3'.timer /\ ~x3'.listening
        /\ x6' \in Exchange!Raw /\ x6'.state # "open" /\ x8' = x8
        /\ x7' \in {"closed", "errored", "cancelled"}
        /\ Exchange!BytesAddUp' /\ Exchange!SignalKnows' /\ Exchange!StreamOwnsTheSignal'
    <3>1. UNCHANGED <<x1, x2>> /\ x8' = x8
      BY <1>1, <1>3 DEF Exchange!Over, Exchange!Broken
    <3>2. Exchange!Over \/ Exchange!Broken \/ (x7 = "open" /\ Exchange!GiveUp)
      BY <1>1, <1>3
    <3> QED
      BY <3>1, <3>2, BodyEnds
  <2>2. \/ x4' = "returned" /\ x9' = "reading" /\ x10' = x10
        \/ x4' = "thrown" /\ x9' = "none" /\ x10' \in {"transport", "timeout"}
    BY <1>1, <1>3, <2>1 DEF Exchange!Returned, Exchange!Thrown
  <2>3. Exchange!TypeOK'
    BY <1>1, <2>1, <2>2 DEF Exchange!ExchangeInv, Exchange!TypeOK
  <2>4. Exchange!BeforeTheHeaders' /\ Exchange!ReadersHaveABody' /\ Exchange!ThrownIsOver'
    BY <1>1, <2>1, <2>2
       DEF Exchange!ExchangeInv, Exchange!BeforeTheHeaders, Exchange!ReadersHaveABody,
           Exchange!ThrownIsOver
  <2> QED
    BY <2>1, <2>3, <2>4 DEF Exchange!ExchangeInv
<1>4. CASE /\ x7 = "errored" /\ UNCHANGED <<x3, x6, x7, x8, x9>>
           /\ Exchange!Thrown("timeout")
  <2>1. Exchange!TypeOK'
    BY <1>1, <1>4 DEF Exchange!ExchangeInv, Exchange!TypeOK, Exchange!Thrown
  <2>2. Exchange!BytesAddUp' /\ Exchange!SignalKnows' /\ Exchange!StreamOwnsTheSignal'
    BY <1>1, <1>4
       DEF Exchange!ExchangeInv, Exchange!BytesAddUp, Exchange!SignalKnows,
           Exchange!StreamOwnsTheSignal
  <2>3. Exchange!BeforeTheHeaders' /\ Exchange!ReadersHaveABody'
    BY <1>1, <1>4
       DEF Exchange!ExchangeInv, Exchange!BeforeTheHeaders, Exchange!ReadersHaveABody,
           Exchange!Thrown
  <2>4. Exchange!ThrownIsOver'
    BY <1>1, <1>4
       DEF Exchange!ExchangeInv, Exchange!StreamOwnsTheSignal, Exchange!ThrownIsOver,
           Exchange!Thrown
  <2> QED
    BY <2>1, <2>2, <2>3, <2>4 DEF Exchange!ExchangeInv
<1> QED
  BY <1>2, <1>3, <1>4 DEF Exchange!DecodeRead

\* The client leaves.
LEMMA DepartureKeeps ==
    ASSUME Exchange!LimitsFit, Exchange!ExchangeInv, Exchange!ClientCloses
    PROVE  Exchange!ExchangeInv'
<1>1. /\ x2 = "open" /\ x2' = "closed" /\ UNCHANGED <<x1, x4, x5, x8, x10>>
      /\ \/ x9' = x9
         \/ x9 = "writing" /\ x9' = "reading"
  BY DEF Exchange!ClientCloses
<1>2. /\ x3' \in [reason : {"none", "closed", "timeout"}, timer : BOOLEAN,
                     listening : BOOLEAN]
      /\ x6' \in Exchange!Raw /\ x6'.left = x6.left
      /\ \/ /\ x7 = "open" /\ x7' = "errored" /\ x6'.state # "open"
            /\ x3'.reason = "closed" /\ ~x3'.timer /\ ~x3'.listening
         \/ /\ x7 # "open" /\ x7' = x7 /\ x6' = x6
            /\ x3'.timer = x3.timer /\ x3'.listening = x3.listening
            /\ \/ x3'.reason = x3.reason /\ (x3.listening => x3.reason # "none")
               \/ x3.listening /\ x3'.reason = "closed"
  <2>1. CASE x7 = "open"
    <3>1. x3.reason = "none" /\ x3.listening
      BY <2>1 DEF Exchange!ExchangeInv, Exchange!StreamOwnsTheSignal
    <3>2. /\ x3' = Exchange!CleanedUp([x3 EXCEPT !.reason = "closed"])
          /\ x7' = "errored" /\ x6' = Exchange!GivenUp(x6)
      BY <2>1, <3>1 DEF Exchange!ClientCloses, Exchange!Signalled
    <3>3. /\ [x3 EXCEPT !.reason = "closed"]
                \in [reason : {"none", "closed", "timeout"}, timer : BOOLEAN,
                     listening : BOOLEAN]
          /\ [x3 EXCEPT !.reason = "closed"].reason = "closed" /\ x6 \in Exchange!Raw
      BY DEF Exchange!ExchangeInv, Exchange!TypeOK
    <3> QED
      BY <2>1, <3>2, <3>3, CleanedUpIs, GivenUpIs
  <2>2. CASE x7 # "open"
    BY <2>2 DEF Exchange!ClientCloses, Exchange!Signalled, Exchange!ExchangeInv, Exchange!TypeOK
  <2> QED
    BY <2>1, <2>2
<1>3. Exchange!TypeOK'
  BY <1>1, <1>2 DEF Exchange!ExchangeInv, Exchange!TypeOK
<1>4. Exchange!BytesAddUp' /\ Exchange!SignalKnows' /\ Exchange!StreamOwnsTheSignal'
  BY <1>1, <1>2
     DEF Exchange!ExchangeInv, Exchange!BytesAddUp, Exchange!SignalKnows,
         Exchange!StreamOwnsTheSignal
<1>5. Exchange!BeforeTheHeaders'
  BY <1>1, <1>2 DEF Exchange!ExchangeInv, Exchange!BeforeTheHeaders
<1>6. Exchange!ReadersHaveABody' /\ Exchange!ThrownIsOver'
  BY <1>1, <1>2 DEF Exchange!ExchangeInv, Exchange!ReadersHaveABody, Exchange!ThrownIsOver
<1> QED
  BY <1>3, <1>4, <1>5, <1>6 DEF Exchange!ExchangeInv

\* The exchange goes on as it is meant to.
LEMMA ExchangeGoesOn ==
    ASSUME Exchange!LimitsFit, Exchange!ExchangeInv, [Exchange!Next]_(Exchange!vars)
    PROVE  Exchange!ExchangeInv'
<1>1. ASSUME Exchange!NotSent PROVE Exchange!ExchangeInv'
  BY ZenonT(40), <1>1
     DEF Exchange!NotSent, Exchange!CleanedUp, Exchange!Thrown, Exchange!Aborted,
         Exchange!ExchangeInv, Exchange!TypeOK, Exchange!Raw, Exchange!Fetch, Exchange!Readers,
         Exchange!BytesAddUp, Exchange!SignalKnows, Exchange!BeforeTheHeaders,
         Exchange!StreamOwnsTheSignal, Exchange!ReadersHaveABody, Exchange!ThrownIsOver
<1>2. ASSUME Exchange!Send PROVE Exchange!ExchangeInv'
  BY <1>2
     DEF Exchange!Send, Exchange!Aborted, Exchange!ExchangeInv, Exchange!TypeOK, Exchange!Raw,
         Exchange!Fetch, Exchange!Readers, Exchange!BytesAddUp, Exchange!SignalKnows,
         Exchange!BeforeTheHeaders, Exchange!StreamOwnsTheSignal, Exchange!ReadersHaveABody,
         Exchange!ThrownIsOver
<1>3. ASSUME Exchange!FetchSettles PROVE Exchange!ExchangeInv'
  BY <1>3
     DEF Exchange!FetchSettles, Exchange!Aborted, Exchange!ExchangeInv, Exchange!TypeOK,
         Exchange!Raw, Exchange!Fetch, Exchange!Readers, Exchange!BytesAddUp,
         Exchange!SignalKnows, Exchange!BeforeTheHeaders, Exchange!StreamOwnsTheSignal,
         Exchange!ReadersHaveABody, Exchange!ThrownIsOver
<1>4. ASSUME Exchange!FetchRejected PROVE Exchange!ExchangeInv'
  BY ZenonT(40), <1>4
     DEF Exchange!FetchRejected, Exchange!CleanedUp, Exchange!Thrown, Exchange!ExchangeInv,
         Exchange!TypeOK, Exchange!Raw, Exchange!Fetch, Exchange!Readers, Exchange!BytesAddUp,
         Exchange!SignalKnows, Exchange!BeforeTheHeaders, Exchange!StreamOwnsTheSignal,
         Exchange!ReadersHaveABody, Exchange!ThrownIsOver
<1>5. ASSUME Exchange!Bodiless PROVE Exchange!ExchangeInv'
  BY ZenonT(40), <1>5
     DEF Exchange!Bodiless, Exchange!CleanedUp, Exchange!ExchangeInv, Exchange!TypeOK,
         Exchange!Raw, Exchange!Fetch, Exchange!Readers, Exchange!BytesAddUp,
         Exchange!SignalKnows, Exchange!BeforeTheHeaders, Exchange!StreamOwnsTheSignal,
         Exchange!ReadersHaveABody, Exchange!ThrownIsOver
<1>6. ASSUME Exchange!TooLarge PROVE Exchange!ExchangeInv'
  BY ZenonT(40), <1>6
     DEF Exchange!TooLarge, Exchange!GiveUp, Exchange!GivenUp, Exchange!CleanedUp,
         Exchange!Thrown, Exchange!ExchangeInv, Exchange!TypeOK, Exchange!Raw, Exchange!Fetch,
         Exchange!Readers, Exchange!BytesAddUp, Exchange!SignalKnows, Exchange!BeforeTheHeaders,
         Exchange!StreamOwnsTheSignal, Exchange!ReadersHaveABody, Exchange!ThrownIsOver
<1>7. ASSUME Exchange!Undecodable PROVE Exchange!ExchangeInv'
  BY ZenonT(40), <1>7
     DEF Exchange!Undecodable, Exchange!Over, Exchange!CleanedUp, Exchange!Thrown,
         Exchange!ExchangeInv, Exchange!TypeOK, Exchange!Raw, Exchange!Fetch, Exchange!Readers,
         Exchange!BytesAddUp, Exchange!SignalKnows, Exchange!BeforeTheHeaders,
         Exchange!StreamOwnsTheSignal, Exchange!ReadersHaveABody, Exchange!ThrownIsOver
<1>8. ASSUME Exchange!Drained PROVE Exchange!ExchangeInv'
  BY <1>8
     DEF Exchange!Drained, Exchange!ExchangeInv, Exchange!TypeOK, Exchange!Raw, Exchange!Fetch,
         Exchange!Readers, Exchange!BytesAddUp, Exchange!SignalKnows, Exchange!BeforeTheHeaders,
         Exchange!StreamOwnsTheSignal, Exchange!ReadersHaveABody, Exchange!ThrownIsOver
<1>9. ASSUME Exchange!TimesOut PROVE Exchange!ExchangeInv'
  <2>1. /\ x3' \in [reason : {"none", "closed", "timeout"}, timer : BOOLEAN,
                       listening : BOOLEAN]
        /\ x3'.listening = x3.listening /\ x3.timer /\ ~x3'.timer
        /\ x3'.reason = IF x3.reason = "none" THEN "timeout" ELSE x3.reason
        /\ UNCHANGED <<x1, x2, x4, x5, x6, x7, x8, x9, x10>>
    BY <1>9 DEF Exchange!TimesOut, Exchange!ExchangeInv, Exchange!TypeOK
  <2>2. Exchange!TypeOK'
    BY <2>1 DEF Exchange!ExchangeInv, Exchange!TypeOK
  <2>3. Exchange!BytesAddUp' /\ Exchange!SignalKnows' /\ Exchange!StreamOwnsTheSignal'
    BY <2>1
       DEF Exchange!ExchangeInv, Exchange!BytesAddUp, Exchange!SignalKnows,
           Exchange!StreamOwnsTheSignal
  <2>4. Exchange!BeforeTheHeaders' /\ Exchange!ReadersHaveABody' /\ Exchange!ThrownIsOver'
    BY <2>1
       DEF Exchange!ExchangeInv, Exchange!BeforeTheHeaders, Exchange!ReadersHaveABody,
           Exchange!ThrownIsOver
  <2> QED
    BY <2>2, <2>3, <2>4 DEF Exchange!ExchangeInv
<1>10. ASSUME Exchange!Headers PROVE Exchange!ExchangeInv'
  <2>1. /\ x4 = "fetching" /\ x5 = "headers" /\ x5' = "none"
        /\ UNCHANGED <<x1, x2, x8, x10>>
        /\ x4' \in {"first", "returned"}
        /\ x9' = IF x4' = "first" THEN "none" ELSE "reading"
    BY <1>10 DEF Exchange!Headers
  <2>2. /\ x3' \in [reason : {"none", "closed", "timeout"}, timer : BOOLEAN,
                       listening : BOOLEAN]
        /\ x6' \in Exchange!Raw /\ x6'.left = x6.left /\ x3'.reason = x3.reason
        /\ ~x3'.timer
        /\ \/ /\ x3.reason # "none" /\ x7' = "errored" /\ x6'.state # "open"
              /\ ~x3'.listening
           \/ /\ x3.reason = "none" /\ x7' = "open" /\ x6' = x6
              /\ x3'.listening = x3.listening
    BY <1>10, CleanedUpIs, GivenUpIs
       DEF Exchange!Headers, Exchange!Aborted, Exchange!ExchangeInv, Exchange!TypeOK
  <2>3. Exchange!TypeOK'
    BY <2>1, <2>2 DEF Exchange!ExchangeInv, Exchange!TypeOK, Exchange!Fetch
  <2>4. Exchange!BytesAddUp' /\ Exchange!SignalKnows'
    BY <2>1, <2>2 DEF Exchange!ExchangeInv, Exchange!BytesAddUp, Exchange!SignalKnows
  <2>5. Exchange!StreamOwnsTheSignal'
    BY <2>1, <2>2
       DEF Exchange!ExchangeInv, Exchange!TypeOK, Exchange!StreamOwnsTheSignal,
           Exchange!SignalKnows, Exchange!BeforeTheHeaders
  <2>6. Exchange!BeforeTheHeaders' /\ Exchange!ReadersHaveABody' /\ Exchange!ThrownIsOver'
    BY <2>1, <2>2 DEF Exchange!BeforeTheHeaders, Exchange!ReadersHaveABody, Exchange!ThrownIsOver
  <2> QED
    BY <2>3, <2>4, <2>5, <2>6 DEF Exchange!ExchangeInv
<1>11. ASSUME Exchange!DecodeRead PROVE Exchange!ExchangeInv'
  BY <1>11, DecodeKeeps
<1>12. ASSUME Exchange!ClientCloses PROVE Exchange!ExchangeInv'
  BY <1>12, DepartureKeeps
<1>13. ASSUME Exchange!RelayRead PROVE Exchange!ExchangeInv'
  BY <1>13, ReaderKeeps DEF Exchange!RelayRead
<1>14. ASSUME Exchange!CollectRead PROVE Exchange!ExchangeInv'
  BY <1>14, ReaderKeeps DEF Exchange!CollectRead
<1>15. ASSUME Exchange!ErrorRead PROVE Exchange!ExchangeInv'
  BY <1>15, ReaderKeeps DEF Exchange!ErrorRead
<1>16. ASSUME Exchange!AnswerRead PROVE Exchange!ExchangeInv'
  BY <1>16, ReaderKeeps DEF Exchange!AnswerRead
<1>17. CASE UNCHANGED Exchange!vars
  BY <1>17
     DEF Exchange!vars, Exchange!ExchangeInv, Exchange!TypeOK, Exchange!Raw, Exchange!Fetch,
         Exchange!Readers, Exchange!BytesAddUp, Exchange!SignalKnows, Exchange!BeforeTheHeaders,
         Exchange!StreamOwnsTheSignal, Exchange!ReadersHaveABody, Exchange!ThrownIsOver
<1> QED
  BY <1>1, <1>2, <1>3, <1>4, <1>5, <1>6, <1>7, <1>8, <1>9, <1>10, <1>11, <1>12, <1>13, <1>14,
     <1>15, <1>16, <1>17
     DEF Exchange!Next

\* Whatever way an exchange ends, it has let go of what it held.
LEMMA ExchangeIs ==
    ASSUME Exchange!LimitsFit, Exchange!ExchangeInv
    PROVE  Exchange!LifecycleIsClean
<1>1. Exchange!NothingIsHeld
  BY DEF Exchange!ExchangeInv, Exchange!NothingIsHeld, Exchange!ThrownIsOver,
         Exchange!ReadersHaveABody, Exchange!StreamOwnsTheSignal, Exchange!TypeOK
<1>2. Exchange!WholeMeansWhole
  BY DEF Exchange!LimitsFit, Exchange!ExchangeInv, Exchange!WholeMeansWhole, Exchange!BytesAddUp,
         Exchange!ReadersHaveABody,
         Exchange!StreamOwnsTheSignal, Exchange!TypeOK
<1>3. Exchange!NobodyReadsForTheDeparted /\ Exchange!KindIsTrue /\ Exchange!RejectionIsAnswered
  BY DEF Exchange!ExchangeInv, Exchange!NobodyReadsForTheDeparted, Exchange!KindIsTrue,
         Exchange!RejectionIsAnswered, Exchange!ThrownIsOver,
         Exchange!ReadersHaveABody, Exchange!StreamOwnsTheSignal, Exchange!SignalKnows
<1> QED
  BY <1>1, <1>2, <1>3 DEF Exchange!LifecycleIsClean

-----------------------------------------------------------------------------
(* Compatibility requests: the lemmas of CompatRoutes' CompatInv.  x1 is   *)
(* req, x2 the open admissions, x3 share and x4 pinned.                    *)

\* Compatibility requests, some of them of shares.
Compat == INSTANCE CompatRoutes WITH
    Requests <- CompatRequests, Shared <- CompatShared, Kind <- CompatKind,
    req <- x1, open <- x2, share <- x3, pinned <- x4

\* The compatibility requests begin with nothing.
LEMMA CompatBegins == Compat!Init => Compat!CompatInv
<1> SUFFICES ASSUME Compat!Init PROVE Compat!CompatInv
  OBVIOUS
<1>1. Compat!TypeOK
  BY DEF Compat!Init, Compat!TypeOK, Compat!Handling, Compat!Phases, Compat!Answers,
         Compat!ShareStates
<1>2. Compat!OnTheirWay
  BY DEF Compat!Init, Compat!OnTheirWay, Compat!Way
<1> QED
  BY <1>1, <1>2 DEF Compat!CompatInv

\* A step of one request leaves what the others hold alone.
LEMMA CompatOfOne ==
    ASSUME Compat!CompatInv, Compat!TypeOK', NEW r \in CompatRequests, Compat!Way(r)',
           \A s \in CompatRequests \ {r} :
             x1'[s] = x1[s] /\ x3'[s] = x3[s],
           \A a \in x2' : a[1] # r => a \in x2
    PROVE  Compat!CompatInv'
  BY DEF Compat!CompatInv, Compat!OnTheirWay, Compat!Way

\* What is open once the current admission is settled.
LEMMA CompatSettled ==
    ASSUME Compat!TypeOK, NEW r \in CompatRequests
    PROVE  /\ Compat!Settled(r) \subseteq CompatRequests \X Nat
           /\ \A a \in Compat!Settled(r) : a \in x2 /\ (a[1] = r => a[2] # x1[r].admission)
  BY DEF Compat!TypeOK, Compat!Settled

\* Noting one thing changes neither the admission nor other requests.
LEMMA CompatNoted ==
    ASSUME Compat!TypeOK, NEW r \in CompatRequests, NEW p \in Compat!Phases, Compat!Noted(r, p)
    PROVE  /\ x1' \in [CompatRequests -> Compat!Handling]
           /\ \A s \in CompatRequests \ {r} : x1'[s] = x1[s]
           /\ x1'[r].phase = p /\ x1'[r].admission = x1[r].admission
<1>1. CASE x1' = [x1 EXCEPT ![r].phase = p]
  BY <1>1 DEF Compat!TypeOK, Compat!Handling
<1>2. CASE \E v \in Compat!Answers : x1' = [x1 EXCEPT ![r].phase = p, ![r].answer = v]
  <2>1. PICK v \in Compat!Answers : x1' = [x1 EXCEPT ![r].phase = p, ![r].answer = v]
    BY <1>2
  <2> QED
    BY ZenonT(40), <2>1 DEF Compat!TypeOK, Compat!Handling
<1>3. CASE \E v \in BOOLEAN : x1' = [x1 EXCEPT ![r].phase = p, ![r].ok = v]
  <2>1. PICK v \in BOOLEAN : x1' = [x1 EXCEPT ![r].phase = p, ![r].ok = v]
    BY <1>3
  <2> QED
    BY ZenonT(40), <2>1 DEF Compat!TypeOK, Compat!Handling
<1>4. CASE \E v \in BOOLEAN : x1' = [x1 EXCEPT ![r].phase = p, ![r].refreshed = v]
  <2>1. PICK v \in BOOLEAN : x1' = [x1 EXCEPT ![r].phase = p, ![r].refreshed = v]
    BY <1>4
  <2> QED
    BY ZenonT(40), <2>1 DEF Compat!TypeOK, Compat!Handling
<1>5. CASE \E v \in {"first", "finalize"} : x1' = [x1 EXCEPT ![r].phase = p, ![r].stage = v]
  <2>1. PICK v \in {"first", "finalize"} : x1' = [x1 EXCEPT ![r].phase = p, ![r].stage = v]
    BY <1>5
  <2> QED
    BY ZenonT(40), <2>1 DEF Compat!TypeOK, Compat!Handling
<1>6. CASE \E v \in Nat : x1' = [x1 EXCEPT ![r].phase = p, ![r].polls = v]
  <2>1. PICK v \in Nat : x1' = [x1 EXCEPT ![r].phase = p, ![r].polls = v]
    BY <1>6
  <2> QED
    BY ZenonT(40), <2>1 DEF Compat!TypeOK, Compat!Handling
<1> QED
  BY <1>1, <1>2, <1>3, <1>4, <1>5, <1>6 DEF Compat!Noted

\* A fetch begins: another admission, and no other one.
LEMMA CompatBegun ==
    ASSUME Compat!CompatInv, NEW r \in CompatRequests, x1[r].phase \in {"chosen", "refreshing"},
           NEW job \in Compat!Handling, job.phase = "pacing", job.admission = x1[r].fetch + 1,
           x1' = [x1 EXCEPT ![r] = job], UNCHANGED <<x3, x4>>,
           x2' = Compat!Settled(r) \cup {<<r, x1[r].fetch + 1>>}
    PROVE  Compat!CompatInv'
<1>1. x1[r].fetch + 1 \in Nat
  BY DEF Compat!CompatInv, Compat!TypeOK, Compat!Handling
<1>2. /\ x1' \in [CompatRequests -> Compat!Handling]
      /\ \A s \in CompatRequests \ {r} : x1'[s] = x1[s]
      /\ x1'[r].phase = "pacing" /\ x1'[r].admission = x1[r].fetch + 1
  BY DEF Compat!CompatInv, Compat!TypeOK
<1>3. Compat!Way(r)
  BY DEF Compat!CompatInv, Compat!OnTheirWay
<1>4. x2' \subseteq CompatRequests \X Nat
  BY <1>1, CompatSettled DEF Compat!CompatInv
<1>5. \A a \in x2' :
        \/ a = <<r, x1[r].fetch + 1>>
        \/ a \in x2 /\ (a[1] = r => a[2] # x1[r].admission)
  BY CompatSettled DEF Compat!CompatInv
<1>6. \A a \in x2' : a[1] = r => a[2] = x1[r].fetch + 1
  BY <1>3, <1>5 DEF Compat!Way
<1>7. Compat!TypeOK'
  BY <1>2, <1>4 DEF Compat!CompatInv, Compat!TypeOK
<1>8. Compat!Way(r)'
  BY <1>2, <1>3, <1>6 DEF Compat!Way
<1>9. \A a \in x2' : a[1] # r => a \in x2
  BY <1>5
<1> QED
  BY <1>2, <1>7, <1>8, <1>9, CompatOfOne

\* The handler answers.
LEMMA CompatAnswered ==
    ASSUME Compat!TypeOK, NEW r \in CompatRequests, NEW answer \in Compat!Answers,
           x1' = [x1 EXCEPT ![r].phase = "done", ![r].answer = answer]
    PROVE  /\ x1' \in [CompatRequests -> Compat!Handling]
           /\ \A s \in CompatRequests \ {r} : x1'[s] = x1[s]
           /\ x1'[r].phase = "done" /\ x1'[r].answer = answer
  BY ZenonT(40) DEF Compat!TypeOK, Compat!Handling, Compat!Phases

\* The handler goes on with the reservation it has.
LEMMA CompatGoes ==
    ASSUME Compat!CompatInv, NEW r \in CompatRequests,
           NEW p \in Compat!Phases \ {"new", "done"}, Compat!Noted(r, p),
           x1[r].phase # "done", UNCHANGED <<x3, x4>>,
           \/ x2' = x2 /\ (x1[r].phase \in Compat!Fetching => p \in Compat!Fetching)
           \/ x2' = Compat!Settled(r)
    PROVE  Compat!CompatInv'
<1>1. /\ x1' \in [CompatRequests -> Compat!Handling]
      /\ \A s \in CompatRequests \ {r} : x1'[s] = x1[s]
      /\ x1'[r].phase = p /\ x1'[r].admission = x1[r].admission
  BY CompatNoted DEF Compat!CompatInv
<1>2. Compat!Way(r)
  BY DEF Compat!CompatInv, Compat!OnTheirWay
<1>3. x2' \subseteq CompatRequests \X Nat /\ x2' \subseteq x2
  BY CompatSettled DEF Compat!CompatInv, Compat!TypeOK
<1>4. \A a \in x2' : a[1] = r => a[2] = x1[r].admission /\ p \in Compat!Fetching
  BY <1>2, <1>3, CompatSettled DEF Compat!CompatInv, Compat!Way, Compat!Fetching
<1>5. Compat!TypeOK'
  BY <1>1, <1>3 DEF Compat!CompatInv, Compat!TypeOK
<1>6. Compat!Way(r)'
  BY <1>1, <1>2, <1>4 DEF Compat!Way, Compat!Fetching
<1> QED
  BY <1>1, <1>3, <1>5, <1>6, CompatOfOne

\* The handler answers: nothing is fetched any more, and what is booked is the answer.
LEMMA CompatEnds ==
    ASSUME Compat!CompatInv, NEW r \in CompatRequests, NEW answer \in {"ok", "failed"},
           Compat!EndBooked(r, answer), x1[r].phase # "done",
           \/ x2' = Compat!Settled(r)
           \/ x2' = x2 /\ x1[r].phase \notin {"pacing", "sent", "refreshing", "body"},
           x4' \subseteq CompatRequests
    PROVE  Compat!CompatInv'
<1>1. /\ x1' \in [CompatRequests -> Compat!Handling]
      /\ \A s \in CompatRequests \ {r} : x1'[s] = x1[s]
      /\ x1'[r].phase = "done" /\ x1'[r].answer = answer
  BY CompatAnswered DEF Compat!EndBooked, Compat!End, Compat!CompatInv, Compat!Answers
<1>2. /\ x3' \in [CompatRequests -> Compat!ShareStates]
      /\ \A s \in CompatRequests \ {r} : x3'[s] = x3[s]
      /\ x3'[r] \in {"none", answer}
  <2>1. x3[r] \in {"none", "reserved"}
    BY DEF Compat!CompatInv, Compat!OnTheirWay, Compat!Way
  <2>2. CASE Compat!End(r, answer, Compat!Closed(r, answer))
    BY <2>1, <2>2
       DEF Compat!End, Compat!Closed, Compat!CompatInv, Compat!TypeOK, Compat!ShareStates
  <2>3. CASE answer = "failed" /\ Compat!End(r, answer, x3)
    BY <2>1, <2>3 DEF Compat!End, Compat!CompatInv, Compat!TypeOK, Compat!ShareStates
  <2> QED
    BY <2>2, <2>3 DEF Compat!EndBooked
<1>3. /\ x2' \subseteq CompatRequests \X Nat
      /\ \A a \in x2' : a \in x2 /\ a[1] # r
  BY CompatSettled DEF Compat!CompatInv, Compat!TypeOK, Compat!OnTheirWay, Compat!Way
<1>4. Compat!TypeOK'
  BY <1>1, <1>2, <1>3 DEF Compat!TypeOK
<1>5. Compat!Way(r)'
  BY <1>1, <1>2, <1>3 DEF Compat!Way
<1> QED
  BY <1>1, <1>2, <1>3, <1>4, <1>5, CompatOfOne

\* Every step of a compatibility request keeps what it has behind it: one step
\* per action.
LEMMA CompatGoesOn == Compat!CompatInv /\ [Compat!Next]_(Compat!vars) => Compat!CompatInv'
<1> SUFFICES ASSUME Compat!CompatInv, [Compat!Next]_(Compat!vars) PROVE Compat!CompatInv'
  OBVIOUS
<1>a. x4 \subseteq CompatRequests
  BY DEF Compat!CompatInv, Compat!TypeOK
<1>1. ASSUME NEW r \in CompatRequests, Compat!Invalid(r) PROVE Compat!CompatInv'
  BY <1>a, <1>1, CompatEnds DEF Compat!Invalid, Compat!EndBooked
<1>2. ASSUME NEW r \in CompatRequests, Compat!NoCodex(r) PROVE Compat!CompatInv'
  BY <1>a, <1>2, CompatEnds DEF Compat!NoCodex, Compat!EndBooked
<1>3. ASSUME NEW r \in CompatRequests, Compat!LateInvalid(r) PROVE Compat!CompatInv'
  BY <1>a, <1>3, CompatEnds DEF Compat!LateInvalid, Compat!EndBooked
<1>4. ASSUME NEW r \in CompatRequests, Compat!NotEligible(r) PROVE Compat!CompatInv'
  BY <1>a, <1>4, CompatEnds DEF Compat!NotEligible, Compat!EndBooked
<1>5. ASSUME NEW r \in CompatRequests, Compat!Broken(r) PROVE Compat!CompatInv'
  BY <1>a, <1>5, CompatEnds DEF Compat!Broken, Compat!EndBooked
<1>6. ASSUME NEW r \in CompatRequests, Compat!RefreshFailed(r) PROVE Compat!CompatInv'
  BY <1>a, <1>6, CompatEnds DEF Compat!RefreshFailed, Compat!EndBooked
<1>7. ASSUME NEW r \in CompatRequests, Compat!BodyBroken(r) PROVE Compat!CompatInv'
  BY <1>a, <1>7, CompatEnds DEF Compat!BodyBroken, Compat!EndBooked
<1>8. ASSUME NEW r \in CompatRequests, Compat!ImageRead(r) PROVE Compat!CompatInv'
  <2>1. x4' \subseteq CompatRequests
    BY <1>a, <1>8 DEF Compat!ImageRead, Compat!Pin
  <2>2. Compat!EndBooked(r, "ok") \/ Compat!EndBooked(r, "failed")
    BY <1>8 DEF Compat!ImageRead, Compat!EndBooked
  <2> QED
    BY <1>8, <2>1, <2>2, CompatEnds DEF Compat!ImageRead
<1>9. ASSUME NEW r \in CompatRequests, Compat!Transcribed(r) PROVE Compat!CompatInv'
  <2>1. x4' \subseteq CompatRequests
    BY <1>a, <1>9 DEF Compat!Transcribed, Compat!Pin
  <2>2. Compat!EndBooked(r, "ok") \/ Compat!EndBooked(r, "failed")
    BY <1>9 DEF Compat!Transcribed, Compat!EndBooked
  <2> QED
    BY <1>9, <2>1, <2>2, CompatEnds DEF Compat!Transcribed
<1>10. ASSUME NEW r \in CompatRequests, Compat!FileFinalized(r) PROVE Compat!CompatInv'
  <2>1. x4' \subseteq CompatRequests
    BY <1>a, <1>10 DEF Compat!FileFinalized, Compat!Pin
  <2>2. Compat!EndBooked(r, "ok") \/ Compat!EndBooked(r, "failed")
    BY <1>10 DEF Compat!FileFinalized, Compat!EndBooked
  <2> QED
    BY <1>10, <2>1, <2>2, CompatEnds DEF Compat!FileFinalized
<1>11. ASSUME NEW r \in CompatRequests, Compat!Choose(r) PROVE Compat!CompatInv'
  BY SMTT(30), <1>11, CompatEnds, CompatSettled, CompatOfOne
     DEF Compat!Choose, Compat!Begin, Compat!CompatInv, Compat!TypeOK, Compat!OnTheirWay,
         Compat!Way, Compat!Handling, Compat!Phases, Compat!ShareStates
<1>12. ASSUME NEW r \in CompatRequests, Compat!Admit(r) PROVE Compat!CompatInv'
  <2> DEFINE isImage == CompatKind[r] = "image"
             n == x1[r].fetch + 1
             job == [[x1[r] EXCEPT !.fetch = n, !.admission = n]
                       EXCEPT !.phase = "pacing", !.refreshed = FALSE, !.deferred = isImage]
  <2>1. x1[r] \in Compat!Handling /\ n \in Nat /\ isImage \in BOOLEAN
    BY DEF Compat!CompatInv, Compat!TypeOK, Compat!Handling
  <2>2. x1' = [x1 EXCEPT ![r] = job]
    BY <1>12 DEF Compat!Admit, Compat!Begin
  <2>3. job \in Compat!Handling /\ job.phase = "pacing" /\ job.admission = n
    <3> HIDE DEF isImage, n
    <3> QED
      BY <2>1 DEF Compat!Handling, Compat!Phases
  <2>4. x2 = Compat!Settled(r)
    BY <1>12 DEF Compat!Admit, Compat!Settled, Compat!CompatInv, Compat!OnTheirWay, Compat!Way
  <2> QED
    BY <1>12, <2>2, <2>3, <2>4, CompatBegun DEF Compat!Admit
<1>13. ASSUME NEW r \in CompatRequests, Compat!Send(r) PROVE Compat!CompatInv'
  <2>1. Compat!Noted(r, "sent") /\ "sent" \in Compat!Phases
    BY <1>13
       DEF Compat!Send, Compat!Noted, Compat!Phases, Compat!CompatInv, Compat!TypeOK,
           Compat!Handling
  <2> QED
    BY <1>13, <2>1, CompatGoes DEF Compat!Send, Compat!Fetching
<1>14. ASSUME NEW r \in CompatRequests, Compat!Headers(r) PROVE Compat!CompatInv'
  <2>1. Compat!Noted(r, "body") /\ "body" \in Compat!Phases
    BY <1>14
       DEF Compat!Headers, Compat!Noted, Compat!Phases, Compat!CompatInv, Compat!TypeOK,
           Compat!Handling
  <2> QED
    BY <1>14, <2>1, CompatGoes DEF Compat!Headers, Compat!Fetching
<1>15. ASSUME NEW r \in CompatRequests, Compat!Unauthorized(r) PROVE Compat!CompatInv'
  <2>1. Compat!Noted(r, "refreshing") /\ "refreshing" \in Compat!Phases
    BY <1>15
       DEF Compat!Unauthorized, Compat!Noted, Compat!Phases, Compat!CompatInv, Compat!TypeOK,
           Compat!Handling
  <2> QED
    BY <1>15, <2>1, CompatGoes DEF Compat!Unauthorized, Compat!Fetching
<1>16. ASSUME NEW r \in CompatRequests, Compat!RefreshedElsewhere(r) PROVE Compat!CompatInv'
  <2>1. Compat!Noted(r, "pacing") /\ "pacing" \in Compat!Phases
    BY <1>16
       DEF Compat!RefreshedElsewhere, Compat!Noted, Compat!Phases, Compat!CompatInv,
           Compat!TypeOK, Compat!Handling
  <2> QED
    BY <1>16, <2>1, CompatGoes DEF Compat!RefreshedElsewhere, Compat!Fetching
<1>17. ASSUME NEW r \in CompatRequests, Compat!Refreshed(r) PROVE Compat!CompatInv'
  <2> DEFINE job == [Compat!Begin(r) EXCEPT !.phase = "pacing"]
  <2>1. x1[r] \in Compat!Handling /\ x1[r].fetch + 1 \in Nat
    BY DEF Compat!CompatInv, Compat!TypeOK, Compat!Handling
  <2>2. job \in Compat!Handling /\ job.phase = "pacing" /\ job.admission = x1[r].fetch + 1
    BY <2>1 DEF Compat!Begin, Compat!Handling, Compat!Phases
  <2> QED
    BY <1>17, <2>2, CompatBegun DEF Compat!Refreshed
<1>18. ASSUME NEW r \in CompatRequests, Compat!BodyRead(r) PROVE Compat!CompatInv'
  <2>1. Compat!Noted(r, "read") /\ "read" \in Compat!Phases
    BY <1>18
       DEF Compat!BodyRead, Compat!Noted, Compat!Phases, Compat!CompatInv, Compat!TypeOK,
           Compat!Handling
  <2> QED
    BY <1>18, <2>1, CompatGoes DEF Compat!BodyRead, Compat!Fetching
<1>19. ASSUME NEW r \in CompatRequests, Compat!FileCreated(r) PROVE Compat!CompatInv'
  <2>1. CASE Compat!End(r, "failed", x3)
    BY <1>a, <1>19, <2>1, CompatEnds DEF Compat!FileCreated, Compat!EndBooked
  <2>2. CASE ~Compat!End(r, "failed", x3)
    <3>1. Compat!Noted(r, "upload") /\ "upload" \in Compat!Phases
      BY <1>19, <2>2 DEF Compat!FileCreated, Compat!Noted, Compat!Phases
    <3> QED
      BY <1>19, <2>2, <3>1, CompatGoes DEF Compat!FileCreated, Compat!Fetching
  <2> QED
    BY <2>1, <2>2
<1>20. ASSUME NEW r \in CompatRequests, Compat!Uploaded(r) PROVE Compat!CompatInv'
  <2>1. CASE Compat!End(r, "failed", x3)
    BY <1>a, <1>20, <2>1, CompatEnds DEF Compat!Uploaded, Compat!EndBooked
  <2>2. CASE ~Compat!End(r, "failed", x3)
    <3>1. Compat!Noted(r, "chosen") /\ "chosen" \in Compat!Phases
      BY <1>20, <2>2 DEF Compat!Uploaded, Compat!Noted, Compat!Phases
    <3> QED
      BY <1>20, <2>2, <3>1, CompatGoes DEF Compat!Uploaded, Compat!Fetching
  <2> QED
    BY <2>1, <2>2
<1>21. ASSUME NEW r \in CompatRequests, Compat!FilePending(r) PROVE Compat!CompatInv'
  <2>1. x1[r].polls + 1 \in Nat
    BY DEF Compat!CompatInv, Compat!TypeOK, Compat!Handling
  <2>2. Compat!Noted(r, "chosen") /\ "chosen" \in Compat!Phases
    BY <1>21, <2>1 DEF Compat!FilePending, Compat!Noted, Compat!Phases
  <2> QED
    BY <1>21, <2>2, CompatGoes DEF Compat!FilePending, Compat!Fetching
<1>22. CASE UNCHANGED Compat!vars
  BY <1>22 DEF Compat!vars, Compat!CompatInv, Compat!TypeOK, Compat!OnTheirWay, Compat!Way
<1> QED
  BY <1>1, <1>2, <1>3, <1>4, <1>5, <1>6, <1>7, <1>8, <1>9, <1>10, <1>11, <1>12, <1>13, <1>14,
     <1>15, <1>16, <1>17, <1>18, <1>19, <1>20, <1>21, <1>22
     DEF Compat!Next

\* What they have behind them leaves nothing when they are over.
LEMMA CompatIs == Compat!CompatInv => Compat!RoutesLeaveNothing
<1> SUFFICES ASSUME Compat!CompatInv PROVE Compat!RoutesLeaveNothing
  OBVIOUS
<1>1. ASSUME NEW a \in x2 PROVE a[1] \in CompatRequests /\ a[2] \in Nat /\ a = <<a[1], a[2]>>
  BY DEF Compat!CompatInv, Compat!TypeOK
<1> QED
  BY <1>1
     DEF Compat!CompatInv, Compat!TypeOK, Compat!Handling, Compat!Answers, Compat!OnTheirWay,
         Compat!Way, Compat!RoutesLeaveNothing

-----------------------------------------------------------------------------
(* Raw requests: the lemmas of RawRoutes' RawInv.  x1 is req, x2 the open  *)
(* admissions, x3 share, x4 pinned and x5 whether the account is present.  *)

\* Raw requests, some of them of shares.
Raw == INSTANCE RawRoutes WITH
    Requests <- RawRequests, Shared <- RawShared,
    req <- x1, open <- x2, share <- x3, pinned <- x4, present <- x5

\* The raw requests begin with nothing.
LEMMA RawBegins == Raw!Init => Raw!RawInv
<1> SUFFICES ASSUME Raw!Init PROVE Raw!RawInv
  OBVIOUS
<1>1. x1 \in [RawRequests -> Raw!Handling] /\ \A r \in RawRequests :
        x1[r].phase = "new" /\ x1[r].admission = 0 /\ ~x1[r].again /\ ~x1[r].orphaned
  BY DEF Raw!Init, Raw!Handling, Raw!Phases, Raw!Answers
<1>2. Raw!TypeOK
  BY <1>1 DEF Raw!Init, Raw!TypeOK, Raw!ShareStates
<1>3. Raw!OnTheirWay
  <2>1. SUFFICES ASSUME NEW r \in RawRequests PROVE Raw!Way(r)
    BY DEF Raw!OnTheirWay
  <2>2. x2 = {} /\ x3[r] = "none"
    BY DEF Raw!Init
  <2> QED
    BY <1>1, <2>2 DEF Raw!Way, Raw!At
<1> QED
  BY <1>2, <1>3 DEF Raw!RawInv

\* A step of one request leaves what the others hold alone.
LEMMA RawOfOne ==
    ASSUME Raw!RawInv, Raw!TypeOK', NEW r \in RawRequests, Raw!Way(r)', UNCHANGED x5,
           \A s \in RawRequests \ {r} :
             /\ x1'[s] = x1[s] /\ x3'[s] = x3[s]
             /\ \A n \in 1..3 : <<s, n>> \in x2' <=> <<s, n>> \in x2
    PROVE  Raw!RawInv'
  BY DEF Raw!RawInv, Raw!OnTheirWay, Raw!Way, Raw!At

\* The handler answers.
LEMMA RawAnswered ==
    ASSUME Raw!TypeOK, NEW r \in RawRequests, NEW answer \in Raw!Answers, Raw!Answer(r, answer)
    PROVE  /\ x1' \in [RawRequests -> Raw!Handling]
           /\ \A s \in RawRequests \ {r} : x1'[s] = x1[s]
           /\ x1'[r].phase = "done" /\ x1'[r].answer = answer
           /\ x1'[r].admission = x1[r].admission /\ (x1'[r].again <=> x1[r].again)
           /\ (x1'[r].orphaned <=> x1[r].orphaned)
  BY ZenonT(40) DEF Raw!TypeOK, Raw!Answer, Raw!Handling, Raw!Phases

\* The handler goes on.
LEMMA RawWent ==
    ASSUME Raw!TypeOK, NEW r \in RawRequests, NEW phase \in Raw!Phases, Raw!Goto(r, phase)
    PROVE  /\ x1' \in [RawRequests -> Raw!Handling]
           /\ \A s \in RawRequests \ {r} : x1'[s] = x1[s]
           /\ x1'[r].phase = phase /\ x1'[r].answer = x1[r].answer
           /\ x1'[r].admission = x1[r].admission /\ (x1'[r].again <=> x1[r].again)
           /\ (x1'[r].orphaned <=> x1[r].orphaned)
  BY DEF Raw!TypeOK, Raw!Goto, Raw!Handling, Raw!Phases

\* An admission is noted with where the request is.
LEMMA RawAdmitted ==
    ASSUME Raw!TypeOK, NEW r \in RawRequests, NEW phase \in Raw!Phases, NEW n \in 0..3,
           x1' = [x1 EXCEPT ![r].phase = phase, ![r].admission = n]
    PROVE  /\ x1' \in [RawRequests -> Raw!Handling]
           /\ \A s \in RawRequests \ {r} : x1'[s] = x1[s]
           /\ x1'[r].phase = phase /\ x1'[r].admission = n
           /\ (x1'[r].again <=> x1[r].again) /\ (x1'[r].orphaned <=> x1[r].orphaned)
  BY DEF Raw!TypeOK, Raw!Handling

\* What the books of one request become.
LEMMA RawClosed ==
    ASSUME Raw!TypeOK, NEW r \in RawRequests, NEW how \in Raw!ShareStates, Raw!Close(r, how)
    PROVE  /\ x3' \in [RawRequests -> Raw!ShareStates]
           /\ \A s \in RawRequests \ {r} : x3'[s] = x3[s]
           /\ x3'[r] = IF x3[r] = "reserved" THEN how ELSE x3[r]
  BY DEF Raw!TypeOK, Raw!Close

\* What is open once the current admission is settled.
LEMMA RawSettled ==
    ASSUME Raw!TypeOK, NEW r \in RawRequests
    PROVE  /\ Raw!Settled(r) \subseteq RawRequests \X (1..3)
           /\ \A s \in RawRequests \ {r}, n \in 1..3 :
                <<s, n>> \in Raw!Settled(r) <=> <<s, n>> \in x2
           /\ \A n \in 1..3 : <<r, n>> \in Raw!Settled(r) <=> <<r, n>> \in x2
                /\ n # x1[r].admission
  BY DEF Raw!TypeOK, Raw!Settled

\* A request that ends with its admission settled and its reservation closed.
LEMMA RawOver ==
    ASSUME Raw!RawInv, NEW r \in RawRequests, ~Raw!At(r, "done"), UNCHANGED <<x4, x5>>,
           NEW answer \in Raw!Answers, Raw!Answer(r, answer), x2' = Raw!Settled(r),
           NEW how \in {"settled", "failed", "released"}, how = "settled" => answer = "ok",
           Raw!Close(r, how)
    PROVE  Raw!RawInv'
<1>1. /\ x1' \in [RawRequests -> Raw!Handling]
      /\ \A s \in RawRequests \ {r} : x1'[s] = x1[s]
      /\ x1'[r].phase = "done" /\ x1'[r].answer = answer
      /\ x1'[r].admission = x1[r].admission /\ (x1'[r].again <=> x1[r].again)
      /\ ~x1'[r].orphaned
  BY RawAnswered DEF Raw!RawInv, Raw!OnTheirWay, Raw!Way
<1>2. /\ x3' \in [RawRequests -> Raw!ShareStates]
      /\ \A s \in RawRequests \ {r} : x3'[s] = x3[s]
      /\ x3'[r] = IF x3[r] = "reserved" THEN how ELSE x3[r]
  BY RawClosed DEF Raw!RawInv, Raw!ShareStates, Raw!TypeOK
<1>3. /\ x2' \subseteq RawRequests \X (1..3)
      /\ \A s \in RawRequests \ {r}, n \in 1..3 : <<s, n>> \in x2' <=> <<s, n>> \in x2
      /\ \A n \in 1..3 : <<r, n>> \in x2' <=> <<r, n>> \in x2 /\ n # x1[r].admission
  BY RawSettled DEF Raw!RawInv
<1>4. Raw!TypeOK'
  BY <1>1, <1>2, <1>3 DEF Raw!RawInv, Raw!TypeOK
<1>5. Raw!Way(r)'
  BY <1>1, <1>2, <1>3 DEF Raw!RawInv, Raw!OnTheirWay, Raw!Way, Raw!At
<1> QED
  BY <1>1, <1>2, <1>3, <1>4, <1>5, RawOfOne

\* Every step of a raw request keeps what it has behind it: one step per action.
LEMMA RawGoesOn == Raw!RawInv /\ [Raw!Next]_(Raw!vars) => Raw!RawInv'
<1> SUFFICES ASSUME Raw!RawInv, [Raw!Next]_(Raw!vars) PROVE Raw!RawInv'
  OBVIOUS
<1>1. ASSUME NEW r \in RawRequests, Raw!PacerRefused(r) PROVE Raw!RawInv'
  BY <1>1, RawOver
     DEF Raw!PacerRefused, Raw!Release, Raw!RawInv, Raw!OnTheirWay, Raw!Way, Raw!At, Raw!Answers
<1>3. ASSUME NEW r \in RawRequests, Raw!NotRefreshable(r) PROVE Raw!RawInv'
  BY <1>3, RawOver
     DEF Raw!NotRefreshable, Raw!NeedsRefresh, Raw!Release, Raw!RawInv, Raw!OnTheirWay, Raw!Way,
         Raw!At, Raw!Answers
<1>4. ASSUME NEW r \in RawRequests, Raw!Broken(r) PROVE Raw!RawInv'
  BY <1>4, RawOver
     DEF Raw!Broken, Raw!Release, Raw!RawInv, Raw!OnTheirWay, Raw!Way, Raw!At, Raw!Answers
<1>5. ASSUME NEW r \in RawRequests, Raw!Failed(r) PROVE Raw!RawInv'
  BY <1>5, RawOver
     DEF Raw!Failed, Raw!SettleFailed, Raw!RawInv, Raw!OnTheirWay, Raw!Way, Raw!At, Raw!Answers
<1>6. ASSUME NEW r \in RawRequests, Raw!StreamEnds(r) PROVE Raw!RawInv'
  BY <1>6, RawOver
     DEF Raw!StreamEnds, Raw!SettleUsage, Raw!SettleFailed, Raw!RawInv, Raw!OnTheirWay, Raw!Way,
         Raw!At, Raw!Answers
<1>7. ASSUME NEW r \in RawRequests, Raw!StreamBreaks(r) PROVE Raw!RawInv'
  BY <1>7, RawOver
     DEF Raw!StreamBreaks, Raw!SettleFailed, Raw!RawInv, Raw!OnTheirWay, Raw!Way, Raw!At,
         Raw!Answers
<1>8. ASSUME NEW r \in RawRequests, Raw!BodyRead(r) PROVE Raw!RawInv'
  BY <1>8, RawOver
     DEF Raw!BodyRead, Raw!SettleUsage, Raw!RawInv, Raw!OnTheirWay, Raw!Way, Raw!At, Raw!Answers
<1>9. ASSUME NEW r \in RawRequests, Raw!BodyBreaks(r) PROVE Raw!RawInv'
  BY <1>9, RawOver
     DEF Raw!BodyBreaks, Raw!Release, Raw!RawInv, Raw!OnTheirWay, Raw!Way, Raw!At, Raw!Answers
<1>10. ASSUME NEW r \in RawRequests, Raw!Send(r) PROVE Raw!RawInv'
  BY <1>10, RawWent, RawOfOne
     DEF Raw!Send, Raw!NeedsRefresh, Raw!RawInv, Raw!TypeOK, Raw!OnTheirWay, Raw!Way, Raw!At,
         Raw!Phases
<1>11. ASSUME NEW r \in RawRequests, Raw!Unauthorized(r) PROVE Raw!RawInv'
  BY <1>11, RawWent, RawOfOne
     DEF Raw!Unauthorized, Raw!NeedsRefresh, Raw!RawInv, Raw!TypeOK, Raw!OnTheirWay, Raw!Way,
         Raw!At, Raw!Phases
<1>12. ASSUME NEW r \in RawRequests, Raw!Charged(r) PROVE Raw!RawInv'
  BY <1>12, RawWent, RawOfOne
     DEF Raw!Charged, Raw!NeedsRefresh, Raw!RawInv, Raw!TypeOK, Raw!OnTheirWay, Raw!Way, Raw!At,
         Raw!Phases
<1>13. ASSUME NEW r \in RawRequests, Raw!HttpFailure(r) PROVE Raw!RawInv'
  BY <1>13, RawWent, RawOfOne
     DEF Raw!HttpFailure, Raw!NeedsRefresh, Raw!RawInv, Raw!TypeOK, Raw!OnTheirWay, Raw!Way,
         Raw!At, Raw!Phases
<1>14. ASSUME NEW r \in RawRequests, Raw!NotRefreshed(r) PROVE Raw!RawInv'
  BY <1>14, RawWent, RawOfOne
     DEF Raw!NotRefreshed, Raw!NeedsRefresh, Raw!RawInv, Raw!TypeOK, Raw!OnTheirWay, Raw!Way,
         Raw!At, Raw!Phases
<1>15. ASSUME NEW r \in RawRequests, Raw!Refused(r) PROVE Raw!RawInv'
  BY <1>15, RawWent, RawAnswered, RawSettled, RawOfOne
     DEF Raw!Refused, Raw!NeedsRefresh, Raw!RawInv, Raw!TypeOK, Raw!OnTheirWay, Raw!Way, Raw!At,
         Raw!Phases, Raw!Answers, Raw!ShareStates
<1>16. ASSUME NEW r \in RawRequests, Raw!Admit(r) PROVE Raw!RawInv'
  <2>1. /\ x1' \in [RawRequests -> Raw!Handling]
        /\ \A s \in RawRequests \ {r} : x1'[s] = x1[s]
        /\ x1'[r].phase = "ensuring" /\ x1'[r].admission = 1
        /\ (x1'[r].again <=> x1[r].again) /\ (x1'[r].orphaned <=> x1[r].orphaned)
    <3>1. 1 \in 0..3 /\ "ensuring" \in Raw!Phases
      BY DEF Raw!Phases
    <3>2. x1' = [x1 EXCEPT ![r].phase = "ensuring", ![r].admission = 1]
      BY <1>16 DEF Raw!Admit
    <3> QED
      BY <3>1, <3>2, RawAdmitted, Zenon DEF Raw!RawInv
  <2>2. /\ x3' \in [RawRequests -> Raw!ShareStates]
        /\ \A s \in RawRequests \ {r} : x3'[s] = x3[s]
        /\ x3'[r] \in {x3[r], "reserved"}
    BY <1>16 DEF Raw!Admit, Raw!RawInv, Raw!TypeOK, Raw!ShareStates
  <2>3. Raw!TypeOK'
    BY <1>16, <2>1, <2>2 DEF Raw!Admit, Raw!RawInv, Raw!TypeOK
  <2>4. Raw!Way(r)'
    <3>1. /\ x1[r].phase = "new" /\ ~x1[r].again /\ ~x1[r].orphaned
          /\ x3[r] = "none" /\ x5
      BY <1>16 DEF Raw!Admit, Raw!RawInv, Raw!OnTheirWay, Raw!Way, Raw!At
    <3>2. \A n \in 1..3 : <<r, n>> \in x2' => n = 1
      <4>1. Raw!Way(r)
        BY DEF Raw!RawInv, Raw!OnTheirWay
      <4>2. x1[r].admission = 0 /\ \A n \in 1..3 : <<r, n>> \in x2 => n = x1[r].admission
        BY <3>1, <4>1 DEF Raw!Way, Raw!At
      <4> QED
        BY <1>16, <4>2 DEF Raw!Admit
    <3>3. x5'
      BY <1>16, <3>1 DEF Raw!Admit
    <3> QED
      BY <2>1, <2>2, <3>1, <3>2, <3>3 DEF Raw!Way, Raw!At
  <2> QED
    BY <1>16, <2>1, <2>2, <2>3, <2>4, RawOfOne DEF Raw!Admit
<1>18. ASSUME NEW r \in RawRequests, Raw!Refreshed(r) PROVE Raw!RawInv'
  <2>1. x1[r].admission + 1 \in 1..3 /\ ~Raw!At(r, "new") /\ ~Raw!At(r, "done")
    <3>1. x1[r].admission \in 0..3 /\ Raw!Way(r)
      BY DEF Raw!RawInv, Raw!TypeOK, Raw!Handling, Raw!OnTheirWay
    <3>2. Raw!At(r, "ensuring") \/ Raw!At(r, "refreshing")
      BY <1>18 DEF Raw!Refreshed, Raw!NeedsRefresh
    <3>3. x1[r].admission \in {1, 2}
      BY <3>1, <3>2 DEF Raw!Way, Raw!At
    <3> QED
      BY <3>2, <3>3 DEF Raw!At
  <2>2. /\ x1' \in [RawRequests -> Raw!Handling]
        /\ \A s \in RawRequests \ {r} : x1'[s] = x1[s]
        /\ x1'[r].phase = "pacing" /\ x1'[r].admission = x1[r].admission + 1
        /\ (x1'[r].again <=> x1[r].again) /\ (x1'[r].orphaned <=> x1[r].orphaned)
    <3>1. x1[r].admission + 1 \in 0..3 /\ "pacing" \in Raw!Phases
      BY <2>1 DEF Raw!Phases
    <3>2. x1' = [x1 EXCEPT ![r].phase = "pacing", ![r].admission = x1[r].admission + 1]
      BY <1>18 DEF Raw!Refreshed
    <3> QED
      BY <3>1, <3>2, RawAdmitted, Zenon DEF Raw!RawInv
  <2>3. /\ x2' \subseteq RawRequests \X (1..3)
        /\ \A s \in RawRequests \ {r}, n \in 1..3 : <<s, n>> \in x2' <=> <<s, n>> \in x2
        /\ \A n \in 1..3 : <<r, n>> \in x2' => n = x1[r].admission + 1
    BY <1>18, <2>1, RawSettled DEF Raw!Refreshed, Raw!RawInv, Raw!OnTheirWay, Raw!Way
  <2>4. Raw!TypeOK'
    BY <1>18, <2>2, <2>3 DEF Raw!Refreshed, Raw!RawInv, Raw!TypeOK
  <2>5. Raw!Way(r)'
    <3>1. x1[r].admission \in 0..3 /\ Raw!Way(r)
      BY DEF Raw!RawInv, Raw!TypeOK, Raw!Handling, Raw!OnTheirWay
    <3>2. x3'[r] \in {"none", "reserved"} /\ ~x1'[r].orphaned /\ x5'
      BY <1>18, <2>1, <2>2, <3>1 DEF Raw!Refreshed, Raw!Way
    <3>3. ~x1'[r].again => x1'[r].admission <= 2
      <4>1. ~x1[r].again => Raw!At(r, "ensuring")
        BY <1>18, <3>1 DEF Raw!Refreshed, Raw!NeedsRefresh, Raw!Way, Raw!At
      <4>2. ~x1[r].again => x1[r].admission = 1
        BY <3>1, <4>1 DEF Raw!Way, Raw!At
      <4> QED
        BY <2>2, <4>2
    <3> QED
      BY <2>1, <2>2, <2>3, <3>2, <3>3 DEF Raw!Way, Raw!At
  <2> QED
    BY <1>18, <2>2, <2>3, <2>4, <2>5, RawOfOne DEF Raw!Refreshed
<1>19. ASSUME NEW r \in RawRequests, Raw!TryAgain(r) PROVE Raw!RawInv'
  <2>1. /\ x1' \in [RawRequests -> Raw!Handling]
        /\ \A s \in RawRequests \ {r} : x1'[s] = x1[s]
        /\ x1'[r].phase = "refreshing" /\ x1'[r].admission = x1[r].admission
    BY <1>19 DEF Raw!TryAgain, Raw!RawInv, Raw!TypeOK, Raw!Handling, Raw!Phases
  <2>2. Raw!TypeOK'
    BY ZenonT(40), <1>19, <2>1 DEF Raw!TryAgain, Raw!RawInv, Raw!TypeOK
  <2>3. Raw!Way(r)'
    BY <1>19, <2>1 DEF Raw!TryAgain, Raw!RawInv, Raw!OnTheirWay, Raw!Way, Raw!At
  <2> QED
    BY <1>19, <2>1, <2>2, <2>3, RawOfOne DEF Raw!TryAgain
<1>20. ASSUME NEW r \in RawRequests, Raw!Succeeded(r) PROVE Raw!RawInv'
  <2>1. \E phase \in {"streaming", "reading"} : Raw!Goto(r, phase)
    BY <1>20 DEF Raw!Succeeded
  <2> QED
    BY <1>20, <2>1, RawWent, RawOfOne
       DEF Raw!Succeeded, Raw!RawInv, Raw!TypeOK, Raw!OnTheirWay, Raw!Way, Raw!At, Raw!Phases
<1>21. CASE Raw!Remove
  BY <1>21 DEF Raw!Remove, Raw!RawInv, Raw!TypeOK, Raw!OnTheirWay, Raw!Way, Raw!At
<1>22. CASE UNCHANGED Raw!vars
  BY <1>22 DEF Raw!vars, Raw!RawInv, Raw!TypeOK, Raw!OnTheirWay, Raw!Way, Raw!At
<1>23. ASSUME NEW r \in RawRequests, Raw!AccountIsGone(r) PROVE Raw!RawInv'
  <2>1. /\ x1' \in [RawRequests -> Raw!Handling]
        /\ \A s \in RawRequests \ {r} : x1'[s] = x1[s]
        /\ x1'[r].phase = "done" /\ x1'[r].admission = x1[r].admission /\ x1'[r].orphaned
        /\ (x1'[r].again <=> x1[r].again)
    <3>1. x1 \in [RawRequests -> Raw!Handling] /\ x1[r] \in Raw!Handling
      BY DEF Raw!RawInv, Raw!TypeOK
    <3>2. /\ x1'[r] = [x1[r] EXCEPT !.phase = "done", !.answer = "failed", !.orphaned = TRUE]
          /\ DOMAIN x1' = RawRequests
          /\ \A s \in RawRequests \ {r} : x1'[s] = x1[s]
      BY <1>23, <3>1 DEF Raw!AccountIsGone
    <3>3. "done" \in Raw!Phases /\ "failed" \in Raw!Answers
      BY DEF Raw!Phases, Raw!Answers
    <3>4. x1'[r] \in Raw!Handling
      BY <3>1, <3>2, <3>3 DEF Raw!Handling
    <3>5. x1' \in [RawRequests -> Raw!Handling]
      <4>1. x1' = [s \in RawRequests |-> x1'[s]]
        BY <1>23, <3>1 DEF Raw!AccountIsGone
      <4> QED
        BY <3>1, <3>2, <3>4, <4>1
    <3>6. x1'[r].phase = "done" /\ x1'[r].admission = x1[r].admission
      BY <3>1, <3>2 DEF Raw!Handling
    <3>7. x1'[r].orphaned /\ (x1'[r].again <=> x1[r].again)
      BY <3>1, <3>2 DEF Raw!Handling
    <3> QED
      BY <3>2, <3>5, <3>6, <3>7
  <2>2. Raw!TypeOK'
    BY <1>23, <2>1 DEF Raw!AccountIsGone, Raw!RawInv, Raw!TypeOK
  <2>3. Raw!Way(r)'
    BY <1>23, <2>1 DEF Raw!AccountIsGone, Raw!RawInv, Raw!OnTheirWay, Raw!Way, Raw!At
  <2> QED
    BY <1>23, <2>1, <2>2, <2>3, RawOfOne DEF Raw!AccountIsGone
<1> QED
  BY <1>1, <1>3, <1>4, <1>5, <1>6, <1>7, <1>8, <1>9, <1>10, <1>11, <1>12, <1>13, <1>14,
     <1>15, <1>16, <1>18, <1>19, <1>20, <1>21, <1>22, <1>23 DEF Raw!Next

\* What they have behind them leaves nothing when they are over.
LEMMA RawIs == Raw!RawInv => Raw!NothingIsLeft
<1> SUFFICES ASSUME Raw!RawInv PROVE Raw!NothingIsLeft
  OBVIOUS
<1>1. ASSUME NEW a \in x2 PROVE a[1] \in RawRequests /\ a[2] \in 1..3 /\ a = <<a[1], a[2]>>
  BY DEF Raw!RawInv, Raw!TypeOK
<1> QED
  BY ZenonT(40), <1>1 DEF Raw!RawInv, Raw!OnTheirWay, Raw!Way, Raw!NothingIsLeft, Raw!At

-----------------------------------------------------------------------------
(* Sessions: the lemmas of Routing's RoutingInv.  x1 is the time, x2 the   *)
(* state of the accounts, x3 lastUsed, x4 the sessions' pins, x5 the       *)
(* responses' pins, x6 req, x7 what was settled, x8 owed and x9 changes.   *)

\* Two requests of one session over two accounts of which one has no quota known.
Sessions == INSTANCE Routing WITH
    Accounts <- SessionAccounts, Requests <- SessionRequests, Sessions <- SessionIds,
    NoAccount <- None, NoRequest <- Nothing, Unknown <- None,
    Capacity <- AccountCapacity, Priority <- AccountPriority, Quota <- AccountQuota,
    Preferred <- PreferredAccounts, Costs <- SessionCosts, Ttl <- PinTtl,
    MaxTime <- SessionTime, MaxChanges <- SessionChanges,
    now <- x1, state <- x2, lastUsed <- x3, session <- x4, pin <- x5, req <- x6,
    settled <- x7, owed <- x8, changes <- x9

ASSUME SessionsFit == Sessions!RoutingAssumption

\* Costs and the threshold are natural numbers.
LEMMA CostsAreNatural == SessionCosts \subseteq Nat /\ Rotation \in Nat /\ SessionTime \in Nat
  BY SessionsFit DEF SessionsFit, Sessions!RoutingAssumption

\* No request begins with a pin.
LEMMA RoutingBegins == Sessions!Init => Sessions!RoutingInv
<1> SUFFICES ASSUME Sessions!Init PROVE Sessions!RoutingInv
  OBVIOUS
<1>1. Sessions!NoEntry \in Sessions!SessionEntry /\ Sessions!NoEntry.up = None
  BY DEF Sessions!NoEntry, Sessions!SessionEntry
<1>2. Sessions!Shapes
  BY <1>1 DEF Sessions!Init, Sessions!Shapes
<1>3. Sessions!Placed(Sessions!Idle)
  BY DEF Sessions!Idle, Sessions!Placed
<1>4. Sessions!JobsArePlaced
  BY <1>3 DEF Sessions!Init, Sessions!JobsArePlaced
<1>5. Sessions!SpendIsThePinsOwn
  BY <1>1 DEF Sessions!Init, Sessions!SpendIsThePinsOwn
<1> QED
  BY <1>2, <1>4, <1>5 DEF Sessions!RoutingInv

\* Only one request moves.
LEMMA JobMoves ==
    ASSUME Sessions!JobsArePlaced, NEW r \in SessionRequests, NEW job, Sessions!Placed(job),
           x6' = [x6 EXCEPT ![r] = job]
    PROVE  Sessions!JobsArePlaced'
  BY DEF Sessions!JobsArePlaced

\* Sessions lose entries, or have one that its account has paid for.
LEMMA SessionsChange ==
    ASSUME Sessions!RoutingInv, Sessions!JobsArePlaced', x1' \in Nat,
           x7' \in [SessionIds -> [SessionAccounts -> Nat]],
           \A s \in SessionIds, a \in SessionAccounts : x7[s][a] <= x7'[s][a],
           x4' = [s \in SessionIds |-> x4'[s]],
           \A s \in SessionIds :
              \/ x4'[s] = x4[s]
              \/ /\ x4'[s] \in Sessions!SessionEntry
                 /\ x4'[s].up # None =>
                      x4'[s].spent <= x7'[s][x4'[s].up]
    PROVE  Sessions!RoutingInv'
<1>1. x4' \in [SessionIds -> Sessions!SessionEntry]
  BY DEF Sessions!RoutingInv, Sessions!Shapes
<1>2. Sessions!Shapes'
  BY <1>1 DEF Sessions!Shapes
<1>3. ASSUME NEW s \in SessionIds, x4'[s].up # None
      PROVE  x4'[s].spent <= x7'[s][x4'[s].up]
  <2>1. CASE x4'[s] = x4[s]
    <3>1. /\ x4[s].up \in SessionAccounts /\ x4[s].spent \in Nat
          /\ x4[s].spent <= x7[s][x4[s].up]
      BY <1>3, <2>1
         DEF Sessions!RoutingInv, Sessions!Shapes, Sessions!SessionEntry,
             Sessions!SpendIsThePinsOwn
    <3>2. x7[s][x4[s].up] \in Nat /\ x7'[s][x4[s].up] \in Nat
      BY <3>1 DEF Sessions!RoutingInv, Sessions!Shapes
    <3> QED
      BY <2>1, <3>1, <3>2
  <2> QED
    BY <1>3, <2>1
<1> QED
  BY <1>2, <1>3 DEF Sessions!RoutingInv, Sessions!SpendIsThePinsOwn

\* A step that only moves requests.
LEMMA OnlyJobsMove ==
    ASSUME Sessions!RoutingInv, Sessions!JobsArePlaced', x1' \in Nat, UNCHANGED <<x4, x7>>
    PROVE  Sessions!RoutingInv'
  BY DEF Sessions!RoutingInv, Sessions!Shapes, Sessions!SpendIsThePinsOwn

\* candidatePlanDetails: a request for a named account is planned for no other.
LEMMA Chosen ==
    ASSUME Sessions!RoutingInv, NEW r \in SessionRequests,
           Sessions!Choose(r) PROVE Sessions!RoutingInv'
<1>1. PICK kind \in {"http", "raw", "socket"}, s \in SessionIds,
      wanted \in SessionAccounts \cup {None},
           previous \in {Nothing} \cup {p \in SessionRequests : x6[p].phase = "done"},
           strategy \in Strategies, seed \in 0..1 :
        LET pinned   == IF kind = "raw" THEN None ELSE Sessions!ResponseUpstream(previous)
            strict   == IF pinned # None THEN pinned ELSE wanted
            conflict == pinned # None /\ wanted \notin {None, pinned}
            affinity == Sessions!SessionUpstream(s)
            rotate   == IF affinity = None /\ strict = None THEN Sessions!SessionRotation(s)
                        ELSE None
            plan     == IF conflict THEN <<>> ELSE Sessions!Plan(affinity, strict, rotate,
            strategy, seed)
        IN /\ x6' = [x6 EXCEPT ![r] =
                [phase |-> IF plan = <<>> THEN "done" ELSE "planned", kind |-> kind,
                 session |-> s, plan |-> plan, at |-> None, strict |-> strict]]
           /\ x5' = IF pinned = None THEN x5 ELSE [x5 EXCEPT ![previous].used = x1]
           /\ x8' = IF strict = None THEN [x8 EXCEPT ![s] = None] ELSE x8
  BY DEF Sessions!Choose
<1> DEFINE pinned   == IF kind = "raw" THEN None ELSE Sessions!ResponseUpstream(previous)
           strict   == IF pinned # None THEN pinned ELSE wanted
           conflict == pinned # None /\ wanted \notin {None, pinned}
           affinity == Sessions!SessionUpstream(s)
           rotate   == IF affinity = None /\ strict = None THEN Sessions!SessionRotation(s)
                       ELSE None
           plan     == IF conflict THEN <<>> ELSE Sessions!Plan(affinity, strict, rotate,
           strategy, seed)
           job == [phase |-> IF plan = <<>> THEN "done" ELSE "planned", kind |-> kind,
                   session |-> s, plan |-> plan, at |-> None, strict |-> strict]
<1>2. strict # None => plan \in {<<>>, <<strict>>}
  <2> HIDE DEF strict, conflict, affinity, rotate
  <2> QED
    BY DEF Sessions!Plan
<1>3. Sessions!Placed(job)
  <2> HIDE DEF strict, plan
  <2> QED
    BY <1>2 DEF Sessions!Placed
<1>4. x6' = [x6 EXCEPT ![r] = job]
  BY <1>1
<1> HIDE DEF job
<1> QED
  BY <1>3, <1>4, JobMoves, OnlyJobsMove DEF Sessions!Choose, Sessions!RoutingInv, Sessions!Shapes

\* The dispatch loop takes the next account of the plan.
LEMMA Sent ==
    ASSUME Sessions!RoutingInv, NEW r \in SessionRequests,
           Sessions!Send(r) PROVE Sessions!RoutingInv'
<1> DEFINE a == Head(x6[r].plan)
           rest == Tail(x6[r].plan)
           job == IF a \in Sessions!Ready THEN [x6[r] EXCEPT !.phase = "sent", !.at = a,
               !.plan = rest]
                  ELSE [x6[r] EXCEPT !.plan = rest,
                                      !.phase = IF rest = <<>> THEN "done" ELSE "planned"]
<1>1. x6' = [x6 EXCEPT ![r] = job] /\ x6[r].phase = "planned"
  BY DEF Sessions!Send
<1>2. Sessions!Placed(x6[r])
  BY DEF Sessions!RoutingInv, Sessions!JobsArePlaced
<1>3. x6[r].strict # None => a = x6[r].strict /\ rest = <<>>
  <2>1. x6[r].strict # None => x6[r].plan = <<x6[r].strict>>
    BY <1>1, <1>2 DEF Sessions!Placed
  <2>2. \A x : Head(<<x>>) = x /\ Tail(<<x>>) = <<>>
    OBVIOUS
  <2> QED
    BY <2>1, <2>2
<1>4. Sessions!Placed(job)
  <2>1. CASE a \in Sessions!Ready
    <3>1. a \in SessionAccounts
      BY <2>1 DEF Sessions!Ready
    <3> HIDE DEF a, rest
    <3> QED
      BY <1>1, <1>2, <1>3, <2>1, <3>1 DEF Sessions!Placed
  <2>2. CASE a \notin Sessions!Ready
    <3> HIDE DEF a, rest
    <3> QED
      BY <1>1, <1>2, <1>3, <2>2 DEF Sessions!Placed
  <2> QED
    BY <2>1, <2>2
<1> HIDE DEF job
<1> QED
  BY <1>1, <1>4, JobMoves, OnlyJobsMove DEF Sessions!Send, Sessions!RoutingInv, Sessions!Shapes

\* The pins of an account that has no quota are dropped.
LEMMA AttemptFails ==
    ASSUME Sessions!RoutingInv, NEW r \in SessionRequests, NEW quota \in BOOLEAN,
           Sessions!Fail(r, quota)
    PROVE  Sessions!RoutingInv'
<1> DEFINE job == [x6[r] EXCEPT !.phase = IF x6[r].plan = <<>> THEN "done" ELSE "planned"]
<1>1. x6' = [x6 EXCEPT ![r] = job] /\ x6[r].phase = "sent"
  BY DEF Sessions!Fail
<1>2. Sessions!Placed(x6[r])
  BY DEF Sessions!RoutingInv, Sessions!JobsArePlaced
<1>3. Sessions!Placed(job)
  BY <1>1, <1>2 DEF Sessions!Placed
<1>4. Sessions!JobsArePlaced'
  <2> HIDE DEF job
  <2> QED
    BY <1>1, <1>3, JobMoves DEF Sessions!RoutingInv
<1>5. Sessions!NoEntry \in Sessions!SessionEntry /\ Sessions!NoEntry.up = None
  BY DEF Sessions!NoEntry, Sessions!SessionEntry
<1>6. x4' = [s \in SessionIds |-> x4'[s]]
      /\ \A s \in SessionIds : x4'[s] \in {x4[s], Sessions!NoEntry}
  BY DEF Sessions!Fail, Sessions!ClearSessionPins, Sessions!RoutingInv, Sessions!Shapes
<1>7. x1' = x1 /\ x7' = x7
  BY DEF Sessions!Fail
<1>8. /\ x1' \in Nat /\ x7' \in [SessionIds -> [SessionAccounts -> Nat]]
      /\ \A s \in SessionIds, a \in SessionAccounts : x7[s][a] <= x7'[s][a]
  BY <1>7 DEF Sessions!RoutingInv, Sessions!Shapes
<1> QED
  BY <1>4, <1>5, <1>6, <1>8, SessionsChange

\* A session is pinned to the account that answers, and owes it nothing yet
\* unless it was pinned to it before.
LEMMA Answers ==
    ASSUME Sessions!RoutingInv, NEW r \in SessionRequests, Sessions!Answer(r)
    PROVE  Sessions!RoutingInv'
<1> DEFINE a == x6[r].at
           s == x6[r].session
           job == [x6[r] EXCEPT !.phase = IF x2[a] = "gone" THEN "done" ELSE "relaying"]
<1>1. x6' = [x6 EXCEPT ![r] = job] /\ x6[r].phase = "sent"
  BY DEF Sessions!Answer
<1>2. Sessions!Placed(x6[r])
  BY DEF Sessions!RoutingInv, Sessions!JobsArePlaced
<1>3. Sessions!Placed(job) /\ a \in SessionAccounts /\ s \in SessionIds
  BY <1>1, <1>2 DEF Sessions!Placed
<1>4. Sessions!JobsArePlaced'
  <2> HIDE DEF job
  <2> QED
    BY <1>1, <1>3, JobMoves DEF Sessions!RoutingInv
<1>5. x1' = x1 /\ x7' = x7 /\ (x4' = x4 \/ x4' = Sessions!PinSession(s, a))
  BY DEF Sessions!Answer
<1>6. /\ x1' \in Nat /\ x7' \in [SessionIds -> [SessionAccounts -> Nat]]
      /\ \A t \in SessionIds, b \in SessionAccounts : x7[t][b] <= x7'[t][b]
  BY <1>5 DEF Sessions!RoutingInv, Sessions!Shapes
<1> DEFINE entry == [up |-> a, rotate |-> None, used |-> x1, kept |-> TRUE,
                     spent |-> IF x4[s].up = a THEN x4[s].spent ELSE 0]
           table == [x4 EXCEPT ![s] = entry]
<1> HIDE DEF a, s
<1>7. Sessions!NoEntry \in Sessions!SessionEntry /\ Sessions!NoEntry.up = None
  BY DEF Sessions!NoEntry, Sessions!SessionEntry
<1>8. /\ entry \in Sessions!SessionEntry /\ entry.up = a
      /\ a # None => entry.spent <= x7[s][a]
  <2>1. x4[s] \in Sessions!SessionEntry /\ x7[s][a] \in Nat /\ x1 \in Nat
    BY <1>3 DEF Sessions!RoutingInv, Sessions!Shapes
  <2>2. x4[s].up # None => x4[s].spent <= x7[s][x4[s].up]
    BY <1>3 DEF Sessions!RoutingInv, Sessions!SpendIsThePinsOwn
  <2>3. CASE x4[s].up = a
    BY <1>3, <2>1, <2>2, <2>3 DEF Sessions!SessionEntry
  <2>4. CASE x4[s].up # a
    BY <1>3, <2>1, <2>2, <2>4 DEF Sessions!SessionEntry
  <2> QED
    BY <2>3, <2>4
<1>9. /\ DOMAIN table = SessionIds /\ table[s] = entry
      /\ \A t \in SessionIds \ {s} : table[t] = x4[t]
  BY <1>3 DEF Sessions!RoutingInv, Sessions!Shapes
<1>10. Sessions!PinSession(s, a) =
         [k \in SessionIds |->
            IF k \in Sessions!Pruned(table, SessionLimit) THEN table[k] ELSE Sessions!NoEntry]
  BY DEF Sessions!PinSession
<1> HIDE DEF table, entry
<1>11. /\ x4' = [t \in SessionIds |-> x4'[t]]
       /\ \A t \in SessionIds :
            x4'[t] \in {x4[t], Sessions!NoEntry} \/ (t = s /\ x4'[t] = entry)
  BY <1>5, <1>9, <1>10 DEF Sessions!RoutingInv, Sessions!Shapes
<1> QED
  BY <1>4, <1>5, <1>6, <1>7, <1>8, <1>11, SessionsChange

\* Usage is charged to the pin of the account it was made on, or to nobody.
LEMMA Settles ==
    ASSUME Sessions!RoutingInv, NEW r \in SessionRequests, NEW cost \in SessionCosts,
           Sessions!Settle(r, cost)
    PROVE  Sessions!RoutingInv'
<1> DEFINE a == x6[r].at
           s == x6[r].session
           job == [x6[r] EXCEPT !.phase = "done"]
<1>1. /\ x6' = [x6 EXCEPT ![r] = job] /\ x6[r].phase = "relaying"
      /\ x7' = [x7 EXCEPT ![s][a] = x7[s][a] + cost]
      /\ x4' = Sessions!AddSessionUsage(s, a, cost) /\ x1' = x1
  BY DEF Sessions!Settle
<1>2. Sessions!Placed(x6[r])
  BY DEF Sessions!RoutingInv, Sessions!JobsArePlaced
<1>3. Sessions!Placed(job) /\ a \in SessionAccounts /\ s \in SessionIds /\ cost \in Nat
        /\ Rotation \in Nat
  BY <1>1, <1>2, CostsAreNatural DEF Sessions!Placed
<1>4. Sessions!JobsArePlaced'
  <2> HIDE DEF job
  <2> QED
    BY <1>1, <1>3, JobMoves DEF Sessions!RoutingInv
<1> HIDE DEF a, s
<1>5. /\ x1' \in Nat /\ x7' \in [SessionIds -> [SessionAccounts -> Nat]]
      /\ \A t \in SessionIds, b \in SessionAccounts : x7[t][b] <= x7'[t][b]
      /\ x7'[s][a] = x7[s][a] + cost
  <2>1. x7[s] \in [SessionAccounts -> Nat] /\ x7[s][a] \in Nat /\ x7[s][a] + cost \in Nat
    BY <1>3 DEF Sessions!RoutingInv, Sessions!Shapes
  <2>2. /\ x7' = [x7 EXCEPT ![s] = [x7[s] EXCEPT ![a] = x7[s][a] + cost]]
        /\ x7 \in [SessionIds -> [SessionAccounts -> Nat]] /\ x1' \in Nat
    BY <1>1 DEF Sessions!RoutingInv, Sessions!Shapes
  <2>3. [x7[s] EXCEPT ![a] = x7[s][a] + cost] \in [SessionAccounts -> Nat]
    BY <2>1
  <2>4. ASSUME NEW t \in SessionIds, NEW b \in SessionAccounts PROVE x7[t][b] <= x7'[t][b]
    <3>1. x7[t][b] \in Nat
      BY <2>2
    <3>2. CASE t = s /\ b = a
      BY <1>3, <2>1, <2>2, <3>1, <3>2
    <3>3. CASE ~ (t = s /\ b = a)
      BY <1>3, <2>1, <2>2, <3>1, <3>3
    <3> QED
      BY <3>2, <3>3
  <2> QED
    BY <1>3, <2>1, <2>2, <2>3, <2>4
<1>6. x4[s] \in Sessions!SessionEntry /\ x1 \in Nat /\ x4 = [t \in SessionIds |-> x4[t]]
  BY <1>3 DEF Sessions!RoutingInv, Sessions!Shapes
<1>7. CASE x4' = x4
  BY <1>4, <1>5, <1>6, <1>7, SessionsChange
<1>8. CASE x4' # x4
  <2> DEFINE spent == x4[s].spent + cost
  <2>1. /\ x4[s].up = a /\ x4[s].kept
        /\ x4' = [x4 EXCEPT ![s] =
             IF spent >= Rotation
             THEN [Sessions!NoEntry EXCEPT !.rotate = a, !.used = x1, !.kept = TRUE]
             ELSE [x4[s] EXCEPT !.spent = spent, !.used = x1]]
    BY <1>1, <1>8 DEF Sessions!AddSessionUsage
  <2>2. spent \in Nat /\ x7[s][a] \in Nat
    BY <1>3, <1>6 DEF Sessions!SessionEntry, Sessions!RoutingInv, Sessions!Shapes
  <2>3. a # None => spent <= x7'[s][a]
    BY <1>3, <1>5, <1>6, <2>1, <2>2
       DEF Sessions!RoutingInv, Sessions!SpendIsThePinsOwn, Sessions!SessionEntry
  <2> HIDE DEF spent
  <2>4. /\ [x4[s] EXCEPT !.spent = spent, !.used = x1] \in Sessions!SessionEntry
        /\ [x4[s] EXCEPT !.spent = spent, !.used = x1].up = a
        /\ [x4[s] EXCEPT !.spent = spent, !.used = x1].spent = spent
    BY <1>6, <2>1, <2>2 DEF Sessions!SessionEntry
  <2>5. /\ [Sessions!NoEntry EXCEPT !.rotate = a, !.used = x1,
               !.kept = TRUE] \in Sessions!SessionEntry
        /\ [Sessions!NoEntry EXCEPT !.rotate = a, !.used = x1, !.kept = TRUE].up = None
    BY <1>3, <1>6 DEF Sessions!NoEntry, Sessions!SessionEntry
  <2>6. /\ x4' = [t \in SessionIds |-> x4'[t]]
        /\ \A t \in SessionIds \ {s} : x4'[t] = x4[t]
        /\ x4'[s] \in Sessions!SessionEntry
        /\ x4'[s].up # None => x4'[s].spent <= x7'[s][x4'[s].up]
    BY <1>3, <1>6, <2>1, <2>3, <2>4, <2>5
  <2> QED
    BY <1>4, <1>5, <2>6, SessionsChange
<1> QED
  BY <1>7, <1>8

\* Every step keeps the pins honest: one step per action.
LEMMA RoutingGoesOn ==
    Sessions!RoutingInv /\ [Sessions!Next]_(Sessions!vars) => Sessions!RoutingInv'
<1> SUFFICES ASSUME Sessions!RoutingInv,
[Sessions!Next]_(Sessions!vars) PROVE Sessions!RoutingInv'
  OBVIOUS
<1>1. CASE \E r \in SessionRequests : Sessions!Choose(r) \/ Sessions!Send(r) \/ Sessions!Answer(r)
  BY <1>1, Chosen, Sent, Answers
<1>2. CASE \E r \in SessionRequests, quota \in BOOLEAN : Sessions!Fail(r, quota)
  BY <1>2, AttemptFails
<1>3. CASE \E r \in SessionRequests, cost \in SessionCosts : Sessions!Settle(r, cost)
  BY <1>3, Settles
<1>4. CASE UNCHANGED <<x4, x7, x6>> /\ x1' \in {x1, x1 + 1}
  <2>1. Sessions!JobsArePlaced' /\ x1' \in Nat
    BY <1>4 DEF Sessions!RoutingInv, Sessions!JobsArePlaced, Sessions!Shapes
  <2> QED
    BY <1>4, <2>1, OnlyJobsMove
<1> QED
  BY <1>1, <1>2, <1>3, <1>4 DEF Sessions!Next, Sessions!Change, Sessions!Tick, Sessions!vars

\* What the pins and the requests say.
LEMMA RoutingIs == Sessions!RoutingInv => Sessions!SpendIsThePinsOwn /\ Sessions!ContinuationsStay
<1> SUFFICES ASSUME Sessions!RoutingInv, NEW r \in SessionRequests, x6[r].strict # None
             PROVE  /\ x6[r].at \in {None, x6[r].strict}
                    /\ Sessions!ToSet(x6[r].plan) \subseteq {x6[r].strict}
  BY DEF Sessions!RoutingInv, Sessions!ContinuationsStay
<1>1. x6[r].at \in {None, x6[r].strict} /\ x6[r].plan \in {<<>>, <<x6[r].strict>>}
  BY DEF Sessions!RoutingInv, Sessions!JobsArePlaced, Sessions!Placed
<1> QED
  BY <1>1 DEF Sessions!ToSet

-----------------------------------------------------------------------------
(* Records: the lemmas of Persistence's CacheIsTheTable.  x1 is mem, x2    *)
(* the cache, x3 the disk, x4 what was promised and x5 the steps.          *)

\* Records of an account, its sessions and its requests.
Records == INSTANCE Persistence WITH
    Records <- TableRows, Absent <- None,
    mem <- x1, cache <- x2, disk <- x3, promised <- x4, steps <- x5

ASSUME RecordsFit == Records!RecordsAssumption

\* After a commit the named rows that memory has, and the removable ones that it
\* lacks, are on disk as a full comparison with memory would have them.
LEMMA OnlyDifferencesMatter ==
    ASSUME Records!CacheIsTheTable, NEW named, NEW removable,
           removable \subseteq named, named \subseteq TableRows
    PROVE  Records!Written(x3, Records!Changed(named, removable)) =
             [r \in TableRows |->
                IF r \in removable \/ (r \in named /\ x1[r] # None)
                THEN Records!Persisted(x1)[r] ELSE x4[r]]
<1> SUFFICES ASSUME NEW r \in TableRows
             PROVE  (IF r \in Records!Changed(named,
                    removable) THEN Records!Persisted(x1)[r] ELSE x3[r])
                      = (IF r \in removable \/ (r \in named /\ x1[r] # None)
                         THEN Records!Persisted(x1)[r] ELSE x4[r])
  BY DEF Records!Written
<1>1. Records!Persisted(x1)[r] = (IF r \in Transient THEN None ELSE x1[r])
  BY DEF Records!Persisted
<1>2. x2[r] = x3[r] /\ x4[r] = x3[r]
  BY DEF Records!CacheIsTheTable
<1>3. r \in Transient => x3[r] = None
  BY DEF Records!CacheIsTheTable
<1>4. r \in Records!Changed(named, removable) <=>
        \/ r \in named /\ Records!Persisted(x1)[r] # None /\ x2[r] # Records!Persisted(x1)[r]
        \/ r \in removable /\ x2[r] # None /\ Records!Persisted(x1)[r] = None
  BY DEF Records!Changed
<1> QED
  BY <1>1, <1>2, <1>3, <1>4

\* A save keeps the cache and the table the same, whether it commits or not.
LEMMA SavesKeepIt ==
    ASSUME Records!CacheIsTheTable, NEW named, NEW removable, NEW commits \in BOOLEAN,
           removable \subseteq named, named \subseteq TableRows,
           Records!WriteRecords(Records!Changed(named, removable), commits),
           Records!Promise(named, removable, commits), UNCHANGED <<x1, x5>>
    PROVE  Records!CacheIsTheTable'
<1>1. CASE ~commits
  BY <1>1 DEF Records!CacheIsTheTable, Records!WriteRecords, Records!Promise
<1>2. CASE commits
  <2> DEFINE table == Records!Written(x3, Records!Changed(named, removable))
  <2>1. x3' = table /\ x2' = table
    BY <1>2 DEF Records!WriteRecords, Records!CacheIsTheTable
  <2>2. x4' = table
    BY <1>2, OnlyDifferencesMatter DEF Records!Promise
  <2>3. \A r \in TableRows : Records!Persisted(x1)[r] \in Values \cup {None}
    BY DEF Records!Persisted, Records!CacheIsTheTable, Records!Rows
  <2>4. table \in Records!Rows
    BY <2>3 DEF Records!Written, Records!Rows, Records!CacheIsTheTable
  <2>5. \A r \in TableRows \cap Transient : table[r] = None
    BY DEF Records!Written, Records!Persisted, Records!CacheIsTheTable
  <2> QED
    BY <2>1, <2>2, <2>4, <2>5 DEF Records!CacheIsTheTable
<1> QED
  BY <1>1, <1>2

\* Nothing is saved at first.
LEMMA RecordsBegin == Records!Init => Records!CacheIsTheTable
  BY DEF Records!Init, Records!CacheIsTheTable, Records!Rows

\* Every step keeps the cache what the table is: one step per action.
LEMMA RecordsGoOn ==
    Records!CacheIsTheTable /\ [Records!Next]_(Records!vars) => Records!CacheIsTheTable'
<1> SUFFICES ASSUME Records!CacheIsTheTable,
[Records!Next]_(Records!vars) PROVE Records!CacheIsTheTable'
  OBVIOUS
<1>1. ASSUME NEW r \in TableRows, NEW v \in Values \cup {None}, Records!Change(r, v)
      PROVE  Records!CacheIsTheTable'
  BY <1>1 DEF Records!Change, Records!CacheIsTheTable, Records!Rows
<1>2. ASSUME NEW commits \in BOOLEAN, Records!Save(commits)
      PROVE  Records!CacheIsTheTable'
  BY <1>2, SavesKeepIt DEF Records!Save
<1>3. ASSUME NEW rows \in SUBSET TableRows, NEW collections \in SUBSET Records!Collections,
             NEW commits \in BOOLEAN, Records!SaveChanges(rows, collections, commits)
      PROVE  Records!CacheIsTheTable'
  <2> DEFINE whole == {r \in TableRows : Collection[r] \in collections}
  <2>1. whole \subseteq rows \cup whole /\ rows \cup whole \subseteq TableRows
    OBVIOUS
  <2> QED
    BY <1>3, <2>1, SavesKeepIt DEF Records!SaveChanges
<1>4. CASE Records!Restart
  BY <1>4 DEF Records!Restart, Records!CacheIsTheTable
<1>5. CASE UNCHANGED Records!vars
  BY <1>5 DEF Records!vars, Records!CacheIsTheTable
<1> QED
  BY <1>1, <1>2, <1>3, <1>4, <1>5 DEF Records!Next

\* What the records consist of, and how many changes were made.
LEMMA RecordsAreTyped ==
    /\ Records!Init => Records!TypeOK
    /\ Records!TypeOK /\ Records!CacheIsTheTable' /\ [Records!Next]_(Records!vars)
         => Records!TypeOK'
<1>1. Records!Init => Records!TypeOK
  BY RecordsFit
     DEF RecordsFit, Records!RecordsAssumption, Records!Init, Records!TypeOK, Records!Rows
<1>2. ASSUME Records!TypeOK, Records!CacheIsTheTable',
      [Records!Next]_(Records!vars) PROVE Records!TypeOK'
  <2>1. x1' \in Records!Rows /\ x2' \in Records!Rows /\ x3' \in Records!Rows
          /\ x4' \in Records!Rows
    BY <1>2 DEF Records!CacheIsTheTable
  <2>2. x5' \in {x5, x5 + 1} /\ (x5' = x5 \/ x5 < MaxSteps)
    BY <1>2
       DEF Records!Next, Records!vars, Records!Change, Records!Save, Records!SaveChanges,
           Records!Restart
  <2>3. x5' \in 0 .. MaxSteps
    BY <1>2, <2>2, RecordsFit DEF RecordsFit, Records!RecordsAssumption, Records!TypeOK
  <2> QED
    BY <2>1, <2>3 DEF Records!TypeOK, Records!Rows
<1> QED
  BY <1>1, <1>2

-----------------------------------------------------------------------------
(* Turns: the lemmas of Relay's RelayInv.  x1 is the client, x2 asked, x3  *)
(* the turn, x4 the queue, x5 due, x6 the target, x7 late, x8 pending, x9  *)
(* the chain, x10 serving, x11 waits, x12 the admission, x13 the leases,   *)
(* x14 the rows and x15 the reservations.                                  *)

\* One connection of a share with two turns, a queue of one and two accounts.
Turns == INSTANCE Relay WITH
    Accounts <- RelayAccounts, NoAccount <- None, Shared <- RelayShared, MaxTurns <- RelayTurns,
    MaxQueued <- RelayQueue, MaxResends <- RelayResends, MaxConns <- RelayConns,
    client <- x1, asked <- x2, turn <- x3, queue <- x4, due <- x5, target <- x6, late <- x7,
    pending <- x8, chain <- x9, serving <- x10, waits <- x11, admission <- x12, leases <- x13,
    rows <- x14, reserved <- x15

ASSUME TurnsFit == Turns!RelayAssumption

\* What a turn consists of.
LEMMA TurnFields ==
    DOMAIN Turns!NoTurn = {"active", "id", "compaction", "at", "rest", "attempt", "output",
    "closed",
                     "retried", "resends"}
  BY DEF Turns!NoTurn

\* A connection that begins holds nothing.
LEMMA RelayBegins == Turns!Init => Turns!RelayInv
<1> SUFFICES ASSUME Turns!Init PROVE Turns!RelayInv
  OBVIOUS
<1>1. None \notin RelayAccounts
  BY TurnsFit DEF TurnsFit, Turns!RelayAssumption
<1>2. /\ x3 = Turns!NoTurn /\ x15 = {} /\ x12 = None
      /\ x13 = [a \in RelayAccounts |-> 0] /\ x7 = [a \in RelayAccounts |-> 0]
  BY DEF Turns!Init
<1>3. Turns!AdmissionsInv
  BY <1>1, <1>2 DEF Turns!AdmissionsInv, Turns!AdmissionsAccounted, Turns!NoTurn
<1>4. Turns!ShareFollowsTurn
  BY <1>2 DEF Turns!ShareFollowsTurn
<1> QED
  BY <1>2, <1>3, <1>4 DEF Turns!RelayInv

\* What is settled is the turn's; what stays was renewed late.
LEMMA TurnSettled ==
    ASSUME Turns!RelayInv
    PROVE  /\ Turns!AllSettled \in [RelayAccounts -> Nat]
           /\ \A b \in RelayAccounts : Turns!AllSettled[b] <= x7[b]
<1>1. ASSUME NEW b \in RelayAccounts PROVE Turns!Held(b) \in Nat /\ Turns!Held(b) <= x7[b]
  <2>1. /\ x13[b] \in Nat /\ x7[b] \in Nat
        /\ x13[b] <= x7[b] + (IF x3.active /\ x12 = b THEN 1 ELSE 0)
        /\ x12 = b => x13[b] >= 1
    BY DEF Turns!RelayInv, Turns!AdmissionsInv, Turns!AdmissionsAccounted
  <2>2. CASE x12 = b
    BY <2>1, <2>2 DEF Turns!Held
  <2>3. CASE x12 # b
    BY <2>1, <2>3 DEF Turns!Held
  <2> QED
    BY <2>2, <2>3
<1> QED
  BY <1>1 DEF Turns!AllSettled

\* Nothing is taken: an admission is settled, kept while nobody ends the turn
\* that it is for, or one that was overwritten is lost.
LEMMA AdmissionsStay ==
    ASSUME Turns!RelayInv, UNCHANGED x7,
           \/ Turns!Settle
           \/ Turns!Keep /\ (~ x3.active \/ x3'.active = x3.active)
           \/ x12' = None /\ UNCHANGED x13 /\ ~ x3.active
    PROVE  Turns!AdmissionsInv'
<1>1. None \notin RelayAccounts
  BY TurnsFit DEF TurnsFit, Turns!RelayAssumption
<1>2. /\ x13 \in [RelayAccounts -> Nat] /\ x7 \in [RelayAccounts -> Nat]
      /\ \A a \in RelayAccounts :
            /\ x13[a] <= x7[a] + (IF x3.active /\ x12 = a THEN 1 ELSE 0)
            /\ x12 = a => x13[a] >= 1
  BY DEF Turns!RelayInv, Turns!AdmissionsInv, Turns!AdmissionsAccounted
<1>3. CASE Turns!Settle
  BY <1>1, <1>2, <1>3, TurnSettled
     DEF Turns!Settle, Turns!AdmissionsInv, Turns!AdmissionsAccounted
<1>4. CASE Turns!Keep /\ x3'.active = x3.active
  BY <1>2, <1>4 DEF Turns!Keep, Turns!AdmissionsInv, Turns!AdmissionsAccounted
<1>5. CASE Turns!Keep /\ ~ x3.active
  BY <1>2, <1>5 DEF Turns!Keep, Turns!AdmissionsInv, Turns!AdmissionsAccounted
<1>6. CASE x12' = None /\ UNCHANGED x13 /\ ~ x3.active
  BY <1>1, <1>2, <1>6 DEF Turns!AdmissionsInv, Turns!AdmissionsAccounted
<1> QED
  BY <1>3, <1>4, <1>5, <1>6

\* Counting one account's admission up.
LEMMA OneMore ==
    ASSUME NEW a, NEW f \in [RelayAccounts -> Nat]
    PROVE  [f EXCEPT ![a] = @ + 1] \in [RelayAccounts -> Nat]
<1>1. \A b \in RelayAccounts : f[b] + 1 \in Nat
  OBVIOUS
<1> QED
  BY <1>1

\* One admission more: the turn's, or a late one.
LEMMA AdmissionTaken ==
    ASSUME Turns!RelayInv, NEW a, NEW held \in [RelayAccounts -> Nat],
           \A b \in RelayAccounts : held[b] <= x7[b],
           x12' = a, x13' = [held EXCEPT ![a] = @ + 1],
           \/ x3'.active /\ UNCHANGED x7
           \/ x7' = [x7 EXCEPT ![a] = @ + 1]
    PROVE  Turns!AdmissionsInv'
<1>1. x7 \in [RelayAccounts -> Nat]
  BY DEF Turns!RelayInv, Turns!AdmissionsInv
<1>2. ASSUME NEW b \in RelayAccounts
      PROVE  /\ x13'[b] = IF b = a THEN held[b] + 1 ELSE held[b]
             /\ \/ x3'.active /\ x7'[b] = x7[b]
                \/ x7'[b] = IF b = a THEN x7[b] + 1 ELSE x7[b]
  BY <1>1
<1>3. x13' \in [RelayAccounts -> Nat] /\ x7' \in [RelayAccounts -> Nat]
  <2>1. [held EXCEPT ![a] = @ + 1] \in [RelayAccounts -> Nat]
    BY OneMore
  <2>2. [x7 EXCEPT ![a] = @ + 1] \in [RelayAccounts -> Nat]
    BY <1>1, OneMore
  <2> QED
    BY <1>1, <2>1, <2>2, Zenon
<1>4. ASSUME NEW b \in RelayAccounts
      PROVE  /\ x13'[b] <= x7'[b] + (IF x3'.active /\ x12' = b THEN 1 ELSE 0)
             /\ x12' = b => x13'[b] >= 1
  <2>1. held[b] \in Nat /\ x7[b] \in Nat /\ held[b] <= x7[b]
    BY <1>1
  <2>2. CASE b = a
    BY <1>2, <2>1, <2>2
  <2>3. CASE b # a
    BY <1>2, <2>1, <2>3
  <2> QED
    BY <2>2, <2>3
<1> QED
  BY <1>3, <1>4 DEF Turns!AdmissionsInv, Turns!AdmissionsAccounted

\* A refresh's renewal, whether or not its turn is still active.
LEMMA AdmissionRenewed ==
    ASSUME Turns!RelayInv, NEW a, Turns!Renew(a), x3' = x3
    PROVE  Turns!AdmissionsInv'
  BY TurnSettled, AdmissionTaken DEF Turns!Renew, Turns!Take

\* A step that neither the turn nor the share notices.
LEMMA RelayRests ==
    ASSUME Turns!RelayInv, Turns!AdmissionsInv', UNCHANGED <<x3, x15>>
    PROVE  Turns!RelayInv'
  BY DEF Turns!RelayInv, Turns!ShareFollowsTurn, Turns!Reservation, Turns!NoTurn

\* Once the reservation is gone, nothing is reserved.
LEMMA RelayEnds ==
    ASSUME Turns!RelayInv, Turns!AdmissionsInv', x15' = x15 \ {Turns!Reservation},
           DOMAIN x3' = DOMAIN Turns!NoTurn
    PROVE  Turns!RelayInv'
<1>1. x15' = {}
  BY DEF Turns!RelayInv, Turns!ShareFollowsTurn
<1> QED
  BY <1>1 DEF Turns!RelayInv, Turns!ShareFollowsTurn, Turns!NoTurn

\* A turn that begins finds nothing reserved.
LEMMA RelayStarts ==
    ASSUME Turns!RelayInv, ~ x3.active, Turns!AdmissionsInv',
           NEW n, NEW plan, NEW i, NEW c, x3' = Turns!Begun(n, plan, i, c),
           x15' = x15 \/ x15' = IF RelayShared THEN x15 \cup {<<n, 1>>} ELSE x15
    PROVE  Turns!RelayInv'
<1>2. x15 = {}
  BY DEF Turns!RelayInv, Turns!ShareFollowsTurn
<1>3. x3'.active /\ x3'.id = n /\ x3'.attempt = 1 /\ DOMAIN x3' = DOMAIN Turns!NoTurn
  BY DEF Turns!Begun, Turns!NoTurn
<1>4. Turns!ShareFollowsTurn'
  BY <1>2, <1>3 DEF Turns!ShareFollowsTurn, Turns!Reservation
<1> QED
  BY <1>2, <1>3, <1>4 DEF Turns!RelayInv, Turns!NoTurn

\* A turn that ends gives everything back.
LEMMA TurnEnds == ASSUME Turns!RelayInv, Turns!EndTurn, UNCHANGED x7 PROVE Turns!RelayInv'
<1>1. DOMAIN x3' = DOMAIN Turns!NoTurn
  BY DEF Turns!EndTurn, Turns!Ended, Turns!RelayInv
<1>2. Turns!AdmissionsInv'
  BY AdmissionsStay DEF Turns!EndTurn
<1> QED
  BY <1>1, <1>2, RelayEnds DEF Turns!EndTurn, Turns!CloseBooks

\* So does one that fails, or is refused by the pacer, or whose renewal is.
LEMMA TurnFails ==
    ASSUME Turns!RelayInv, Turns!FailTurn \/ Turns!PacingRefused \/ Turns!RenewalRefused,
           UNCHANGED x7
    PROVE  Turns!RelayInv'
<1>1. CASE Turns!EndTurn
  BY <1>1, TurnEnds
<1>2. CASE (Turns!Keep \/ Turns!Settle) /\ UNCHANGED <<x3, x15>>
  BY <1>2, AdmissionsStay, RelayRests
<1> QED
  BY <1>1, <1>2 DEF Turns!FailTurn, Turns!PacingRefused, Turns!RenewalRefused, Turns!Keep

\* A message of the client, new or from the queue.
LEMMA TurnArrives ==
    ASSUME Turns!RelayInv, NEW n, Turns!Arrive(n), UNCHANGED x7 PROVE Turns!RelayInv'
<1>1. CASE Turns!Enqueue(n) \/ Turns!Denied
  BY <1>1, AdmissionsStay, RelayRests DEF Turns!Enqueue, Turns!Denied, Turns!books, Turns!Keep
<1>2. CASE Turns!Refuse
  BY <1>2, AdmissionsStay, RelayRests DEF Turns!Refuse, Turns!Keep
<1>3. ASSUME ~ x3.active, NEW plan, NEW i,
             \/ Turns!StartCompaction(n, plan, i)
             \/ Turns!StartOnSocket(n, plan, i)
             \/ Turns!StartWithSocket(n, plan, i)
             \/ Turns!Undecryptable(n, plan, i)
      PROVE  Turns!RelayInv'
  <2>1. CASE Turns!Undecryptable(n, plan, i)
    BY <1>3, <2>1, AdmissionsStay, RelayStarts DEF Turns!Undecryptable
  <2>2. ASSUME Turns!TakeForTurn(n, plan[i]), NEW c, x3' = Turns!Begun(n, plan, i,
        c) PROVE Turns!RelayInv'
    <3>1. x3'.active
      BY <2>2 DEF Turns!Begun, Turns!NoTurn
    <3>2. x13 \in [RelayAccounts -> Nat] /\ \A b \in RelayAccounts : x13[b] <= x7[b]
      BY <1>3 DEF Turns!RelayInv, Turns!AdmissionsInv, Turns!AdmissionsAccounted
    <3>3. Turns!AdmissionsInv'
      BY <2>2, <3>1, <3>2, AdmissionTaken DEF Turns!TakeForTurn, Turns!Acquire
    <3> QED
      BY <1>3, <2>2, <3>3, RelayStarts DEF Turns!TakeForTurn
  <2> QED
    BY <1>3, <2>1, <2>2 DEF Turns!StartCompaction, Turns!StartOnSocket, Turns!StartWithSocket
<1> QED
  BY <1>1, <1>2, <1>3 DEF Turns!Arrive

\* A retry moves the reservation to the next attempt.
LEMMA TurnRetries == ASSUME Turns!RelayInv, NEW idle, Turns!RetryTurn(idle) PROVE Turns!RelayInv'
<1>1. PICK i \in DOMAIN x3.rest :
          /\ Turns!Take(x3.rest[i])
          /\ x3' = [x3 EXCEPT !.at = x3.rest[i], !.retried = TRUE,
                                  !.rest = SubSeq(@, i + 1, Len(@)), !.attempt = @ + 1]
          /\ x11' = x11 \cup {Turns!Waiting("credentials", x3.rest[i], 0, FALSE)}
  BY DEF Turns!RetryTurn
<1>3. /\ DOMAIN x3' = DOMAIN Turns!NoTurn /\ x3'.active = x3.active
      /\ x3'.id = x3.id /\ x3'.attempt = x3.attempt + 1
  BY <1>1, TurnFields DEF Turns!RelayInv
<1>4. x15' = IF RelayShared THEN (x15 \ {Turns!Reservation}) \cup {<<x3.id, x3.attempt + 1>>}
                            ELSE x15
  BY DEF Turns!RetryTurn
<1>5. x3.active
  BY DEF Turns!RetryTurn, Turns!MayRetry
<1>2. Turns!AdmissionsInv'
  BY <1>1, <1>3, <1>5, TurnSettled, AdmissionTaken DEF Turns!RetryTurn, Turns!Take
<1>6. Turns!ShareFollowsTurn'
  BY <1>3, <1>4, <1>5 DEF Turns!RelayInv, Turns!ShareFollowsTurn, Turns!Reservation
<1> QED
  BY <1>2, <1>3, <1>4, <1>6 DEF Turns!RelayInv, Turns!NoTurn

\* Every step of a connection keeps its books: one step per action.
LEMMA RelayGoesOn == Turns!RelayInv /\ [Turns!Next]_(Turns!vars) => Turns!RelayInv'
<1> SUFFICES ASSUME Turns!RelayInv, [Turns!Next]_(Turns!vars) PROVE Turns!RelayInv'
  OBVIOUS
<1>0. ASSUME UNCHANGED <<x3, Turns!books, x7>> PROVE Turns!RelayInv'
  BY <1>0, AdmissionsStay, RelayRests DEF Turns!books, Turns!Keep
<1>1. CASE UNCHANGED Turns!vars
  BY <1>0, <1>1 DEF Turns!vars, Turns!locals
<1>2. CASE Turns!Message \/ Turns!NextTurn
  <2>1. ASSUME NEW n, Turns!Arrive(n) PROVE Turns!RelayInv'
    <3>1. UNCHANGED x7
      BY <2>1
         DEF Turns!Arrive, Turns!Enqueue, Turns!Denied, Turns!Refuse, Turns!StartCompaction,
             Turns!StartOnSocket,
                  Turns!StartWithSocket, Turns!Undecryptable
    <3> QED
      BY <2>1, <3>1, TurnArrives
  <2>2. CASE UNCHANGED <<x3, Turns!books, x7>>
    BY <1>0, <2>2
  <2>3. CASE Turns!Malformed
    <3>1. Turns!AdmissionsInv'
      BY <2>3, AdmissionsStay DEF Turns!Malformed
    <3> QED
      BY <2>3, <3>1
         DEF Turns!Malformed, Turns!RelayInv, Turns!ShareFollowsTurn, Turns!Reservation,
             Turns!NoTurn
  <2> QED
    BY <1>2, <2>1, <2>2, <2>3 DEF Turns!Message, Turns!NextTurn
<1>3. ASSUME NEW w \in x11, Turns!Resume(w) PROVE Turns!RelayInv'
  <2>1. CASE (Turns!FailTurn \/ Turns!PacingRefused \/ Turns!RenewalRefused) /\ UNCHANGED x7
    BY <2>1, TurnFails
  <2>2. CASE Turns!EndTurn /\ UNCHANGED x7
    BY <2>2, TurnEnds
  <2>3. CASE UNCHANGED <<x3, Turns!books, x7>>
    BY <1>0, <2>3
  <2>4. ASSUME NEW a, Turns!Renew(a), UNCHANGED <<x3, x15>> PROVE Turns!RelayInv'
    BY <2>4, AdmissionRenewed, RelayRests
  <2>5. CASE Turns!CredentialsReady(w)
    BY <2>3, <2>4, <2>5 DEF Turns!CredentialsReady, Turns!Keep, Turns!books
  <2>6. CASE Turns!Reauthenticated(w)
    BY <2>3, <2>4, <2>6 DEF Turns!Reauthenticated, Turns!Keep, Turns!books
  <2>7. CASE Turns!CompactionPrepared(w) \/ Turns!CompactionReauthenticated(w)
    BY <2>3, <2>4, <2>7
       DEF Turns!CompactionPrepared, Turns!CompactionReauthenticated, Turns!Keep, Turns!books
  <2>8. CASE Turns!CompactionPacingRefused(w)
    <3>1. DOMAIN x3' = DOMAIN Turns!NoTurn
      BY <2>8 DEF Turns!CompactionPacingRefused, Turns!Ended, Turns!RelayInv
    <3>2. Turns!AdmissionsInv'
      BY <2>8, AdmissionsStay DEF Turns!CompactionPacingRefused
    <3> QED
      BY <2>8, <3>1, <3>2, RelayEnds DEF Turns!CompactionPacingRefused
  <2>9. CASE Turns!CredentialsFailed(w) \/ Turns!PacerRefused(w) \/ Turns!CompactionFailed(w)
    BY <2>1, <2>9 DEF Turns!CredentialsFailed, Turns!PacerRefused, Turns!CompactionFailed
  <2>10. CASE Turns!Compacted(w)
    BY <2>2, <2>10 DEF Turns!Compacted
  <2>11. CASE Turns!PacerAborted(w) \/ Turns!Connect(w)
    BY <2>1, <2>3, <2>11 DEF Turns!PacerAborted, Turns!Connect
  <2>12. CASE Turns!ReauthenticationFailed(w)
    <3>1. CASE (Turns!Keep \/ Turns!Settle) /\ UNCHANGED <<x3, x15, x7>>
      BY <3>1, AdmissionsStay, RelayRests
    <3> QED
      BY <2>1, <2>12, <3>1 DEF Turns!ReauthenticationFailed
  <2> QED
    BY <1>3, <2>5, <2>6, <2>7, <2>8, <2>9, <2>10, <2>11, <2>12 DEF Turns!Resume
<1>4. CASE \/ Turns!SocketOpened \/ Turns!Unauthorized \/ Turns!Unheeded
           \/ Turns!SocketLostInCompaction \/ Turns!HandshakeFailedIdle
  BY <1>0, <1>4
     DEF Turns!SocketOpened, Turns!Unauthorized, Turns!Unheeded, Turns!SocketLostInCompaction,
                    Turns!HandshakeFailedIdle
<1>5. CASE \/ Turns!PolicyRejected \/ Turns!IdleTimeout
           \/ Turns!FramePacingRefused \/ Turns!CapacityExhausted
  BY <1>5, TurnFails
     DEF Turns!PolicyRejected, Turns!IdleTimeout, Turns!FramePacingRefused,
         Turns!CapacityExhausted
<1>6. CASE Turns!SocketLost \/ Turns!RetryableFailure
  BY <1>6, TurnFails, TurnRetries DEF Turns!SocketLost, Turns!RetryableFailure
<1>7. CASE Turns!Send \/ Turns!DropFrame \/ Turns!Backpressure
  BY <1>0, <1>7 DEF Turns!Send, Turns!DropFrame, Turns!Backpressure
<1>8. CASE Turns!Resend
  <2>1. x3' = [x3 EXCEPT !.resends = @ + 1, !.attempt = IF RelayShared THEN @ ELSE @ + 1]
    BY <1>8 DEF Turns!Resend
  <2>2. DOMAIN x3' = DOMAIN Turns!NoTurn /\ x3'.active = x3.active /\ x3'.id = x3.id
    BY <2>1, TurnFields DEF Turns!RelayInv
  <2>3. RelayShared => x3'.attempt = x3.attempt
    BY <2>1, TurnFields DEF Turns!RelayInv
  <2>4. UNCHANGED Turns!books /\ UNCHANGED x7
    BY <1>8 DEF Turns!Resend
  <2>5. Turns!ShareFollowsTurn'
    BY <2>2, <2>3, <2>4 DEF Turns!ShareFollowsTurn, Turns!Reservation, Turns!RelayInv, Turns!books
  <2>6. Turns!AdmissionsInv'
    BY <2>2, <2>4, AdmissionsStay DEF Turns!books, Turns!Keep
  <2> QED
    BY <2>2, <2>4, <2>5, <2>6 DEF Turns!RelayInv, Turns!NoTurn, Turns!books
<1>9. CASE Turns!Output
  <2>1. x3' = [x3 EXCEPT !.output = TRUE] /\ UNCHANGED Turns!books /\ UNCHANGED x7
    BY <1>9 DEF Turns!Output
  <2>2. /\ DOMAIN x3' = DOMAIN Turns!NoTurn /\ x3'.active = x3.active
        /\ x3'.id = x3.id /\ x3'.attempt = x3.attempt
    BY <2>1, TurnFields DEF Turns!RelayInv
  <2>3. Turns!AdmissionsInv'
    BY <2>1, <2>2, AdmissionsStay DEF Turns!books, Turns!Keep
  <2> QED
    BY <2>1, <2>2, <2>3
       DEF Turns!RelayInv, Turns!ShareFollowsTurn, Turns!Reservation, Turns!NoTurn, Turns!books
<1>10. CASE Turns!Terminal
  <2>1. CASE x3.closed
    BY <1>0, <1>10, <2>1 DEF Turns!Terminal
  <2>2. CASE ~ x3.closed
    <3>1. /\ x3' = [Turns!Ended EXCEPT !.closed = TRUE, !.output = TRUE]
          /\ Turns!Settle /\ Turns!CloseBooks /\ UNCHANGED x7
      BY <1>10, <2>2 DEF Turns!Terminal
    <3>2. DOMAIN x3' = DOMAIN Turns!NoTurn
      BY <3>1 DEF Turns!Ended, Turns!RelayInv
    <3>3. Turns!AdmissionsInv'
      BY <3>1, AdmissionsStay
    <3> QED
      BY <3>1, <3>2, <3>3, RelayEnds DEF Turns!CloseBooks
  <2> QED
    BY <2>1, <2>2
<1>11. CASE Turns!CloseClient
  <2>1. DOMAIN x3' = DOMAIN Turns!NoTurn
    BY <1>11 DEF Turns!CloseClient, Turns!Ended, Turns!RelayInv
  <2>2. Turns!AdmissionsInv'
    BY <1>11, AdmissionsStay DEF Turns!CloseClient, Turns!books, Turns!Keep
  <2>3. CASE x3.active
    BY <1>11, <2>1, <2>2, <2>3, RelayEnds DEF Turns!CloseClient, Turns!CloseBooks
  <2>4. CASE ~ x3.active
    BY <1>11, <2>1, <2>2, <2>4
       DEF Turns!CloseClient, Turns!books, Turns!RelayInv, Turns!ShareFollowsTurn, Turns!NoTurn
  <2> QED
    BY <2>3, <2>4
<1> QED
  BY <1>1, <1>2, <1>3, <1>4, <1>5, <1>6, <1>7, <1>8, <1>9, <1>10, <1>11 DEF Turns!Next

-----------------------------------------------------------------------------
(* Streams: the lemmas of Delivery's StoryInv.  x1 is the route, x2 who    *)
(* pays, x3 the phase, x4 the event, x5 seen, x6 closed, x7 terminal, x8   *)
(* completed, x9 visible, x10 measured, x11 health, x12 told, x13 row,     *)
(* x14 share and x15 lease.                                                *)

\* Streams of few events.
Streams == INSTANCE Delivery WITH
    route <- x1, billed <- x2, phase <- x3, event <- x4, seen <- x5, closed <- x6,
    terminal <- x7, completed <- x8, visible <- x9, measured <- x10, health <- x11,
    told <- x12, row <- x13, share <- x14, lease <- x15

ASSUME StreamsFit == Streams!DeliveryAssumption

\* The number of events is a natural number.
LEMMA EventsAreBounded == MaxEvents \in Nat
  BY StreamsFit DEF StreamsFit, Streams!DeliveryAssumption

\* A stream that begins has told nothing.
LEMMA StoryBegins == Streams!Init => Streams!StoryInv
<1>1. Streams!Init => Streams!TypeOK
  <2> SUFFICES ASSUME Streams!Init PROVE Streams!TypeOK
    OBVIOUS
  <2>1. x15 \in {"absent", "running"} /\ x5 \in 0 .. MaxEvents
    BY EventsAreBounded DEF Streams!Init
  <2>2. x6 \in BOOLEAN /\ x7 \in BOOLEAN /\ x8 \in BOOLEAN
        /\ x9 \in BOOLEAN /\ x10 \in BOOLEAN
    BY DEF Streams!Init
  <2> QED
    BY <2>1, <2>2 DEF Streams!Init, Streams!TypeOK
<1>2. Streams!Init => Streams!StorySoFar /\ Streams!OneStory
  BY DEF Streams!Init, Streams!StorySoFar, Streams!OneStory, Streams!Ended
<1> QED
  BY <1>1, <1>2 DEF Streams!StoryInv

\* Every step of a stream goes on with the story so far.
LEMMA StoryGoesOn == Streams!StoryInv /\ [Streams!Next]_(Streams!vars) => Streams!StoryInv'
<1> SUFFICES ASSUME Streams!StoryInv, [Streams!Next]_(Streams!vars) PROVE Streams!StoryInv'
  OBVIOUS
<1> USE EventsAreBounded DEF Streams!StoryInv, Streams!TypeOK, Streams!StorySoFar,
            Streams!OneStory, Streams!Ended
<1>1. ASSUME NEW e \in Streams!Events, Streams!Read(e) PROVE Streams!StoryInv'
  <2>1. Streams!TypeOK'
    <3>1. x10' \in BOOLEAN
      BY <1>1 DEF Streams!Read
    <3>2. x7' \in BOOLEAN
      <4>1. CASE x1 = "native"
        BY <1>1, <4>1 DEF Streams!Read, Streams!Unhealthy
      <4>2. CASE x1 # "native"
        BY <1>1, <4>2 DEF Streams!Read
      <4> QED
        BY <4>1, <4>2
    <3> QED
    BY <1>1, <3>1, <3>2 DEF Streams!Read, Streams!Unhealthy, Streams!inputs
  <2>2. Streams!StorySoFar' /\ Streams!OneStory'
    BY <1>1 DEF Streams!Read, Streams!Unhealthy, Streams!inputs
  <2> QED
    BY <2>1, <2>2
<1>2. CASE x3 = "writing" /\ Streams!ChatWritten(x4) /\ Streams!Written
  BY ZenonT(40), <1>2
     DEF Streams!ChatWritten, Streams!Tell, Streams!Shown, Streams!Successful, Streams!Written,
         Streams!inputs, Streams!Events, Streams!Ends
<1>3. CASE x3 = "writing" /\ Streams!PublicWritten(x4) /\ Streams!Written
  BY <1>3
     DEF Streams!PublicWritten, Streams!Tell, Streams!Shown, Streams!Written, Streams!inputs,
         Streams!Events, Streams!Ends
<1>4. CASE x3 = "writing" /\ Streams!NativeWritten(x4) /\ Streams!Written
  <2>1. Streams!TypeOK'
    <3>1. x7' \in BOOLEAN /\ x8' \in BOOLEAN /\ x9' \in BOOLEAN
      BY <1>4 DEF Streams!NativeWritten, Streams!Successful
    <3>2. x15' \in {"absent", "running", "succeeded", "failed", "interrupted"}
      BY <1>4 DEF Streams!NativeWritten, Streams!LeaseAfter
    <3>3. /\ x12' \in {"nothing", "success", "failure"}
          /\ x11' \in {"none", "success", "neutral", "transient", "upstream"}
      BY <1>4, Zenon
         DEF Streams!NativeWritten, Streams!Tell, Streams!Unhealthy, Streams!Successful
    <3> QED
    BY <1>4, <3>1, <3>2, <3>3 DEF Streams!Written, Streams!inputs, Streams!Events, Streams!Ends
  <2>2. x8' <=> x4 = "done" \/ Streams!Successful(x4)
    BY <1>4 DEF Streams!NativeWritten
  <2>3. x11' = "success" <=> x8'
    BY <1>4 DEF Streams!NativeWritten
  <2>4. x8' => x7'
    BY <1>4 DEF Streams!NativeWritten
  <2>5. x3' = "reading" /\ x12 = "nothing" /\ x6' = x6
    BY <1>4 DEF Streams!Written
  <2>6. x12' = IF x4 = "done" \/ Streams!Successful(x4) THEN "success"
                ELSE IF Streams!Unhealthy(x4) THEN "failure" ELSE "nothing"
    BY <1>4, <2>5 DEF Streams!NativeWritten, Streams!Tell
  <2>7. ~ x7' => x12' = "nothing"
    BY <1>4, <2>6 DEF Streams!NativeWritten
  <2>8. Streams!StorySoFar' /\ Streams!OneStory'
    BY <1>4, <2>2, <2>3, <2>4, <2>5, <2>6, <2>7
       DEF Streams!NativeWritten, Streams!Tell, Streams!LeaseAfter, Streams!Successful,
           Streams!Unhealthy, Streams!Written, Streams!inputs, Streams!Events, Streams!Ends
  <2> QED
    BY <2>1, <2>8
<1>5. CASE Streams!BodyEnds
  BY <1>5
     DEF Streams!BodyEnds, Streams!Wind, Streams!Finished, Streams!FinishLease, Streams!Tell,
         Streams!inputs
<1>6. CASE Streams!WriteRejected
  BY <1>6
     DEF Streams!WriteRejected, Streams!Wind, Streams!Finished, Streams!FinishLease, Streams!Tell,
         Streams!Raise, Streams!inputs
<1>7. CASE Streams!ReadFails
  <2>1. PICK outcome \in {"transient", "neutral"} :
          Streams!Wind(FALSE, Streams!Raise(outcome), "nothing")
    BY <1>7 DEF Streams!ReadFails
  <2>2. Streams!Raise(outcome) \in {"neutral", "transient", "upstream"} /\ x3 = "reading" /\ ~ x7
    BY <1>7 DEF Streams!ReadFails, Streams!Raise
  <2>3. Streams!TypeOK'
    BY <2>1, <2>2
       DEF Streams!Wind, Streams!Finished, Streams!FinishLease, Streams!Tell, Streams!inputs
  <2>4. Streams!StorySoFar' /\ Streams!OneStory'
    BY <2>1, <2>2
       DEF Streams!Wind, Streams!Finished, Streams!FinishLease, Streams!Tell, Streams!inputs
  <2> QED
    BY <2>3, <2>4
<1>8. CASE Streams!ClientCloses
  BY <1>8 DEF Streams!ClientCloses, Streams!inputs
<1>9. CASE UNCHANGED Streams!vars
  BY <1>9 DEF Streams!vars, Streams!inputs
<1> QED
  BY <1>1, <1>2, <1>3, <1>4, <1>5, <1>6, <1>7, <1>8, <1>9 DEF Streams!Next, Streams!Written

-----------------------------------------------------------------------------
(* Handlers: the lemmas of Request's RequestInv.  x1 is the request, x2    *)
(* the phase, x3 the account, x4 row, x5 receipt, x6 admission, x7 share,  *)
(* x8 pin, x9 told and x10 whether the account is present.                 *)

\* One JSON request of any kind.
Handler == INSTANCE Request WITH
    req <- x1, phase <- x2, account <- x3, row <- x4, receipt <- x5, admission <- x6, share <- x7,
    pin <- x8, told <- x9, present <- x10

\* A handler that begins holds nothing.
LEMMA RequestBegins == Handler!Init => Handler!RequestInv
  BY SMTT(30)
     DEF Handler!Init, Handler!RequestInv, Handler!TypeOK, Handler!HeldOnTheWay,
         Handler!NothingStaysOpen, Handler!BooksTellTheStory, Handler!Phases, Handler!Requests

\* Every step of a handler accounts for what it holds: one step per action.
LEMMA RequestGoesOn == Handler!RequestInv /\ [Handler!Next]_(Handler!vars) => Handler!RequestInv'
<1> SUFFICES ASSUME Handler!RequestInv, [Handler!Next]_(Handler!vars) PROVE Handler!RequestInv'
  OBVIOUS
<1> USE DEF Handler!RequestInv, Handler!TypeOK, Handler!HeldOnTheWay, Handler!NothingStaysOpen,
            Handler!BooksTellTheStory, Handler!Abandoned, Handler!Bodiless, Handler!Phases,
            Handler!Books,
            Handler!Return, Handler!Receipt, Handler!Settle, Handler!FailRow
<1>1. CASE Handler!Refuse
  BY <1>1 DEF Handler!Refuse
<1>2. CASE Handler!NoCandidate
  BY <1>2 DEF Handler!NoCandidate
<1>3. CASE Handler!Accept
  BY <1>3 DEF Handler!Accept, Handler!Types
<1>4. CASE Handler!TestBegins
  BY <1>4 DEF Handler!TestBegins, Handler!Types
<1>5. CASE Handler!Durable
  BY <1>5 DEF Handler!Durable
<1>6. CASE Handler!Served
  BY <1>6 DEF Handler!Served, Handler!Types, Handler!PublicCodex, Handler!Bridge
<1>7. CASE Handler!Unserved
  BY <1>7 DEF Handler!Unserved
<1>8. CASE Handler!Failed
  BY <1>8 DEF Handler!Failed
<1>9. CASE Handler!DispatchThrows
  BY <1>9 DEF Handler!DispatchThrows
<1>10. CASE Handler!Thrown
  BY <1>10 DEF Handler!Thrown
<1>11. CASE Handler!ErrorRead
  BY <1>11 DEF Handler!ErrorRead
<1>12. CASE Handler!Begin
  BY <1>12
     DEF Handler!Begin, Handler!SettleUsage, Handler!Readings, Handler!PublicCodex, Handler!Bridge
<1>13. CASE Handler!BodyBreaks
  BY <1>13 DEF Handler!BodyBreaks, Handler!Release
<1>14. CASE Handler!CompactionFails
  BY <1>14 DEF Handler!CompactionFails, Handler!SettleFailed
<1>15. CASE Handler!CompactionIsWhole
  BY <1>15 DEF Handler!CompactionIsWhole, Handler!SettleUsage
<1>16. CASE Handler!AccountIsGone
  BY <1>16 DEF Handler!AccountIsGone, Handler!Settleable
<1>17. CASE Handler!TestAnswered
  BY <1>17 DEF Handler!TestAnswered, Handler!SettleUsage, Handler!Release
<1>18. CASE Handler!StreamEnds
  BY <1>18 DEF Handler!StreamEnds, Handler!SettleUsage, Handler!SettleFailed, Handler!Recover
<1>19. CASE Handler!BodyFails
  BY <1>19 DEF Handler!BodyFails, Handler!SettleFailed
<1>20. CASE Handler!BodyRead
  BY <1>20 DEF Handler!BodyRead, Handler!SettleUsage, Handler!Recover
<1>21. CASE Handler!Written
  BY <1>21 DEF Handler!Written
<1>22. CASE Handler!ClosedWhileWriting
  BY <1>22 DEF Handler!ClosedWhileWriting
<1>23. CASE Handler!Remove
  <2>1. /\ UNCHANGED <<x1, x2, x3, x4, x5, x6, x7, x9>>
        /\ ~ x10'
    BY <1>23 DEF Handler!Remove
  <2>2. x2 # "done"
    BY <1>23 DEF Handler!Remove
  <2>3. Handler!TypeOK'
    BY <1>23, <2>1 DEF Handler!Remove
  <2>4. Handler!HeldOnTheWay'
    BY <2>1 DEF Handler!PublicCodex, Handler!Bridge
  <2>5. Handler!NothingStaysOpen' /\ Handler!BooksTellTheStory'
    BY <2>1, <2>2
  <2> QED
    BY <2>3, <2>4, <2>5
<1>24. CASE UNCHANGED Handler!vars
  BY <1>24 DEF Handler!vars, Handler!PublicCodex, Handler!Bridge
<1>25. CASE Handler!StreamBodiless
  BY <1>25 DEF Handler!StreamBodiless
<1> QED
  BY ZenonT(40), <1>1, <1>2, <1>3, <1>4, <1>5, <1>6, <1>7, <1>8, <1>9, <1>10, <1>11, <1>12, <1>13,
     <1>14,
     <1>15, <1>16, <1>17, <1>18, <1>19, <1>20, <1>21, <1>22, <1>23, <1>24, <1>25 DEF Handler!Next

-----------------------------------------------------------------------------
(* The components whose theorems are in their own modules, and those that  *)
(* are only checked.                                                       *)

\* Two attempts over two keys with room for one row: rows are evicted under the
\* attempts in flight.
Circuits == INSTANCE UpstreamHealthProofs WITH
    Attempts <- CircuitAttempts, Routes <- CircuitRoutes, Models <- CircuitModels,
    Claude <- FALSE, Cooldowns <- CircuitCooldowns, NoLease <- None, MaxEpoch <- 0, MaxCrashes <- 0,
    health <- x1, generation <- x2, circuits <- x3, circuitSeq <- x4, modelCooldown <- x5,
    coolingDisabled <- x6, credentialEpoch <- x7, lease <- x8, now <- x9, disk <- x10,
    crashes <- x11

\* Two origins with room for one entry: eviction under leases.
Hosts == INSTANCE HostHealth WITH
    Requests <- HostRequests, NoLease <- None,
    entries <- x1, failures <- x2, nextGeneration <- x3, responses <- x4, lease <- x5, now <- x6

\* Callers of every kind, replacements and restarts.
Tokens == INSTANCE TokenRefresh WITH
    Kinds <- CallerKinds, NoToken <- None, MaxCrashes <- MaxRestarts,
    credentials <- x1, credentialEpoch <- x2, refresh <- x3, fetch <- x4, caller <- x5,
    timer <- x6, running <- x7, recovered <- x8, replacements <- x9, fetches <- x10,
    crashes <- x11, valid <- x12, attempts <- x13

\* Turns of a client on several connections, runs of them and restarts.
Receipts == INSTANCE NativeTurns WITH
    Keys <- TurnKeys, Json <- FALSE, MaxCrashes <- MaxRestarts,
    mem <- x1, disk <- x2, owner <- x3, active <- x4, lane <- x5, exec <- x6, got <- x7

\* Bodies with few blocks and marks of any kind.
Marks == INSTANCE ClaudeMarks WITH
    Bodies <- MarkedBodies, Limit <- MarkLimit,
    path <- x1, given <- x2, body <- x3, stage <- x4

\* In the run: the order of two accounts' rows, two accounts alike of which one
\* has no quota known, one compatibility request of each kind, four records,
\* names that collide when sanitised, four tokens of two people and two
\* workspaces, and every body with few blocks, with marks of any kind at the
\* blocks that the steps look at.
FirstBeforeSecond == "a1" :> 1 @@ "a2" :> 2
BothOrdinary == "a1" :> 0 @@ "a2" :> 0
BothFirst == "a1" :> 1 @@ "a2" :> 1
OneKnown == "a1" :> 30 @@ "a2" :> None
OneOfEachKind == "r1" :> "file" @@ "r2" :> "audio" @@ "r3" :> "image"
RowCollections ==
    "u" :> "upstreams" @@ "s1" :> "sessions" @@ "s2" :> "sessions" @@ "g" :> "gatewayRequests"
NamesThatCollide == {"a", "a!", "x", "m0a", "m1a"}
HashOfNames == [n \in NamesThatCollide |-> IF n = "x" THEN 1 ELSE 0]
NamesWithoutMarks == [n \in NamesThatCollide |-> IF n \in {"a", "a!"} THEN "a" ELSE n]
NamesOfAliases == [k \in {0, 1} \X NamesThatCollide |-> "m" \o ToString(k[1]) \o k[2]]
TwoAccounts == 1 :> {"codex", "claude", "compass"} @@ 2 :> {"codex"}
PersonOfEach == "t1" :> "e1" @@ "t1b" :> "e1" @@ "t2" :> "e2" @@ "t3" :> "e2"
OwnerOfEach == "t1" :> "p" @@ "t1b" :> "p" @@ "t2" :> "p" @@ "t3" :> "q"
DerivedFromEach == [t \in {"t1", "t1b", "t2", "t3"} |-> "local " \o t]
Block(kind, mark) == [kind |-> kind, mark |-> mark]
MarkedTools ==
    {<<>>,
     <<Block("tool", "1h"), Block("tool", "5m")>>,
     <<Block("tool", "none"), Block("deferred", "none")>>}
MarkedSystems == {<<>>, <<Block("text", "none")>>, <<Block("text", "1h")>>}
AnyMark == {"none", "bare", "5m", "1h"}
UserBlocks ==
    {<<Block("text", m)>> : m \in AnyMark}
        \cup {<<Block("result", "none"), Block("text", m)>> : m \in {"none", "5m", "1h"}}
        \cup {<<Block("text", "1h"), Block("text", m)>> : m \in AnyMark}
LaterMessages ==
    {<<>>,
     <<[role |-> "assistant", blocks |-> <<Block("thinking", "none")>>]>>,
     <<[role |-> "system", blocks |-> <<Block("string", "none")>>]>>}
        \cup {<<[role |-> "assistant", blocks |-> <<Block("text", m)>>]>> : m \in {"none", "1h"}}
BodiesWithFewMarks ==
    {[tools |-> t, system |-> s, messages |-> <<[role |-> "user", blocks |-> u]>> \o l] :
        t \in MarkedTools, s \in MarkedSystems, u \in UserBlocks, l \in LaterMessages}

ASSUME ParametersFit ==
    /\ Circuits!HealthAssumption /\ Circuits!NoLeaseAssumption /\ Hosts!HostHealthAssumption
    /\ Tokens!TokenRefreshAssumption /\ Tokens!NullAssumption
    /\ Receipts!NativeTurnsAssumption /\ Receipts!KeysFit /\ Marks!MarksAssumption

-----------------------------------------------------------------------------
Unused == 0

Idle15 == x15 = Unused
Idle14 == x14 = Unused /\ Idle15
Idle12 == x12 = Unused /\ x13 = Unused /\ Idle14
Idle11 == x11 = Unused /\ Idle12
Idle10 == x10 = Unused /\ x11 = Unused /\ Idle12
Idle9  == x9 = Unused /\ Idle10
Idle8  == x8 = Unused /\ Idle9
Idle7  == x7 = Unused /\ Idle8
Idle6  == x6 = Unused /\ Idle7
Idle5  == x5 = Unused /\ Idle6
Idle4  == x4 = Unused /\ Idle5

From12 == <<x12, x13, x14, x15>>
From10 == <<x10, x11, From12>>
From7  == <<x7, x8, x9, From10>>

vars == <<part, x1, x2, x3, x4, x5, x6, From7>>

Init ==
    \/ part = "circuits" /\ Circuits!Init /\ Idle12
    \/ part = "hosts"    /\ Hosts!Init    /\ Idle7
    \/ part = "tokens"   /\ Tokens!Init   /\ Idle14
    \/ part = "turns"    /\ Turns!Init
    \/ part = "receipts" /\ Receipts!Init /\ Idle8
    \/ part = "streams"  /\ Streams!Init
    \/ part = "routes"   /\ Compat!Init   /\ Idle5
    \/ part = "sessions" /\ Sessions!Init /\ Idle10
    \/ part = "records"  /\ Records!Init  /\ Idle6
    \/ part = "spending" /\ Spending!Init /\ Idle10
    \/ part = "facts"    /\ Facts!Init    /\ Idle9
    \/ part = "quotas"   /\ Quotas!Init   /\ Idle8
    \/ part = "catalogs" /\ Catalogs!Init /\ Idle7
    \/ part = "raw"      /\ Raw!Init /\ Idle6
    \/ part = "names"    /\ Names!Init /\ Idle6
    \/ part = "steering" /\ Lane!Init /\ Idle9
    \/ part = "requests" /\ Handler!Init /\ Idle11
    \/ part = "marks"    /\ Marks!Init /\ Idle5
    \/ part = "parameters" /\ Parameters!Init /\ Idle4
    \/ part = "ingress"   /\ Ingress!Init /\ Idle8
    \/ part = "exchange"  /\ Exchange!Init /\ Idle11
    \/ part = "accounts"  /\ Managed!Init /\ Idle7

Next ==
    /\ UNCHANGED part
    /\ \/ part = "circuits" /\ Circuits!Next /\ UNCHANGED From12
       \/ part = "hosts"    /\ Hosts!Next    /\ UNCHANGED From7
       \/ part = "tokens"   /\ Tokens!Next   /\ UNCHANGED <<x14, x15>>
       \/ part = "turns"    /\ Turns!Next
       \/ part = "receipts" /\ Receipts!Next /\ UNCHANGED <<x8, x9, From10>>
       \/ part = "streams"  /\ Streams!Next
       \/ part = "routes"   /\ Compat!Next   /\ UNCHANGED <<x5, x6, From7>>
       \/ part = "sessions" /\ Sessions!Next /\ UNCHANGED From10
       \/ part = "records"  /\ Records!Next  /\ UNCHANGED <<x6, From7>>
       \/ part = "spending" /\ Spending!Next /\ UNCHANGED From10
       \/ part = "facts"    /\ Facts!Next    /\ UNCHANGED <<x9, From10>>
       \/ part = "quotas"   /\ Quotas!Next   /\ UNCHANGED <<x8, x9, From10>>
       \/ part = "catalogs" /\ Catalogs!Next /\ UNCHANGED From7
       \/ part = "raw"      /\ Raw!Next /\ UNCHANGED <<x6, From7>>
       \/ part = "names"    /\ Names!Next /\ UNCHANGED <<x6, From7>>
       \/ part = "steering" /\ Lane!Next /\ UNCHANGED <<x9, From10>>
       \/ part = "requests" /\ Handler!Next /\ UNCHANGED <<x11, From12>>
       \/ part = "marks"    /\ Marks!Next /\ UNCHANGED <<x5, x6, From7>>
       \/ part = "parameters" /\ Parameters!Next /\ UNCHANGED <<x4, x5, x6, From7>>
       \/ part = "ingress"   /\ Ingress!Next /\ UNCHANGED <<x8, x9, From10>>
       \/ part = "exchange"  /\ Exchange!Next /\ UNCHANGED <<x11, From12>>
       \/ part = "accounts"  /\ Managed!Next /\ UNCHANGED From7

Spec == Init /\ [][Next]_vars

\* The behaviours of the accounts only.
AccountsAlone == part = "accounts" /\ Spec

Interchangeable ==
    Permutations({h1, h2, h3}) \cup Permutations({l1, l2})

-----------------------------------------------------------------------------
\* Each component's variables have their types.
TypeOK ==
    /\ part = "circuits" => Circuits!TypeOK
    /\ part = "hosts"    => Hosts!TypeOK
    /\ part = "tokens"   => Tokens!TypeOK
    /\ part = "turns"    => Turns!TypeOK
    /\ part = "receipts" => Receipts!TypeOK
    /\ part = "streams"  => Streams!TypeOK
    /\ part = "routes"   => Compat!TypeOK
    /\ part = "sessions" => Sessions!TypeOK
    /\ part = "records"  => Records!TypeOK
    /\ part = "spending" => Spending!TypeOK
    /\ part = "facts"    => Facts!TypeOK
    /\ part = "quotas"   => Quotas!TypeOK
    /\ part = "catalogs" => Catalogs!TypeOK
    /\ part = "raw"      => Raw!TypeOK
    /\ part = "names"    => Names!TypeOK
    /\ part = "steering" => Lane!TypeOK
    /\ part = "requests" => Handler!TypeOK
    /\ part = "marks"    => Marks!TypeOK
    /\ part = "parameters" => Parameters!TypeOK
    /\ part = "ingress"   => Ingress!TypeOK
    /\ part = "exchange"  => Exchange!TypeOK
    /\ part = "accounts"  => Managed!TypeOK

\* Circuits (store.js): a half-open circuit has one attempt that decides it, also
\* when rows are evicted under attempts.  Host health (codex-host-health.js):
\* evidence against a host that is not open comes only from requests begun after
\* the last response that cleared it, and a probe flag has a request in flight
\* that will give it back and a host that is open, also when entries are evicted
\* and created again under requests.  Quotas (upstream-quota-refresh.js): a quota
\* that was read is the quota of the credentials the account has now.  Catalogs
\* (codex-model-catalog.js): the models of an account were listed to its present
\* owner and exclude those the provider refused since, and an aggregated list
\* from the cache is what aggregating again would give.
EvidenceIsFenced ==
    /\ part = "circuits" => Circuits!HalfOpenHasOneOwner
    /\ part = "hosts" =>
        Hosts!EvidenceIsFenced /\ Hosts!ProbeFlagHasAnOwner /\ Hosts!ProbesBelongToOpenHosts
    /\ part = "quotas" => Quotas!ReadsAreTheOwners
    /\ part = "catalogs" =>
        Catalogs!CatalogsAreTheOwners /\ Catalogs!ListsAreCurrent /\ Catalogs!RefusedIsUnsupported

\* Token refresh (providers.js, store.js): however many callers share a refresh
\* and in whatever order they store it, the store keeps the refresh token that
\* is valid, and the state "refreshing" belongs to a refresh under way.
NoLostRotation ==
    part = "tokens" =>
        Tokens!NoLostRotation /\ Tokens!RefreshingHasAnOwner /\ Tokens!FailedIsRetried

\* WebSocket relay (proxy.js, relayWebSocket): whatever retries, refreshes,
\* resends, overwritten admissions and closes do, an account is left no
\* admission but the active turn's and those that a refresh renewed after its
\* turn had ended, and the share pays for the active turn's latest attempt alone.
\* Native lane (native-response-steering.js, event and close): one turn is paid
\* for at a time, and a response nobody asked for has a steering control and a
\* success before it.
TurnsGiveBack ==
    /\ part = "turns" => Turns!AdmissionsAccounted /\ Turns!ShareFollowsTurn
    /\ part = "steering" =>
        Lane!LaneGivesBack /\ Lane!SuccessorsAreSteered /\ Lane!SuccessorsAreAsked

\* Native turns (native-response-steering.js, close): a receipt in progress in
\* this process belongs to a connection that will finish it.
RunningHasALane == part = "receipts" => Receipts!RunningHasALane

\* Native turns (native-turn-recovery.js, beginNativeTurn): a turn runs again
\* only with a history that contains everything an earlier run showed.
NoBlindReplay == [][part = "receipts" => Receipts!RunsKnowTheAnswer]_vars

\* Streams (proxy.js, streamResponse): row, usage, share, health and the turn's
\* receipt tell one story of a stream, whichever of its ends comes first.
OneStory == part = "streams" => Streams!OneStory

\* Handlers of requests (proxy.js, proxyRequest and proxyRawRequest;
\* compatibility.js): whatever happens, a ledger row and a receipt are closed
\* and the books say what the client got; an admission and a reservation are
\* given back too, unless a stream had no body or, for a raw request, its
\* account was removed meanwhile.
\* Their exchanges with a provider (upstream-response-lifecycle.js): whoever
\* leaves, the client, the timer and the connection are let go of, a body that
\* is taken for whole is, and a failure is called what it was.
RoutesLeaveNothing ==
    /\ part = "routes" => Compat!RoutesLeaveNothing
    /\ part = "raw"      => Raw!NothingIsLeft
    /\ part = "requests"   => Handler!NothingStaysOpen /\ Handler!BooksTellTheStory
    /\ part = "exchange"   => Exchange!LifecycleIsClean

\* Sessions (store.js, pinSession, addSessionUsage, candidatePlanDetails): a pin
\* is charged only what its own session spent on its own account, and a response
\* continuation is sent to its pinned account or to none.
PinsAreHonest ==
    part = "sessions" => Sessions!SpendIsThePinsOwn /\ Sessions!ContinuationsStay

\* Records (store.js, saveChanges): what an operation saved is what the table
\* holds, whatever other records changed and whichever transaction failed.
\* Accounts (store.js, create, update, persistClaudeIdentity): they are saved as
\* they are, sealed, with the identity of the credentials they hold, and the
\* seats of one Codex workspace have one policy, whatever is entered, refreshed
\* or looked up meanwhile.
SavedIsDurable ==
    /\ part = "records"  => Records!SavedIsDurable
    /\ part = "accounts" => Managed!AccountsAreWhole

\* "Credential fields are encrypted with a local .data/.key" (node/README.md:334):
\* the record of an account on disk can be decrypted again.
CredentialsAreEncrypted == part = "accounts" => Managed!CredentialsAreEncrypted

\* Spending (domain.js, recordUsage): what an account is charged in a cap period
\* is at least what its remembered settlements cost.
SpentCoversTheWindow == part = "spending" => Spending!SpentCoversTheWindow

\* Compatibility learning (compatibility-learning.js, observe): a fact that
\* changes requests was seen often enough, far enough apart, of one generation.
FactsAreEvidenced == part = "facts" => Facts!FactsAreEvidenced

\* Anthropic tools (claude-protocol.js, aliasClaudeOAuthTools): the client gets
\* back the name it gave for whichever tool the provider calls.
AliasesAreReversible == part = "names" => Names!AliasesAreReversible

\* What enters (http-ingress.js) is whole and within the limits, and both doors
\* let the same clients in (server.js, proxy.js).  Anthropic bodies
\* (claude-protocol.js, prepareClaudeRequestBody) that leave have at most four
\* cache marks, none for an hour behind a shorter one, and parameters of thinking
\* that the provider accepts.
BodiesAreAcceptable ==
    /\ part = "marks"      => Marks!MarksAreLegal
    /\ part = "parameters" => Parameters!ThinkingIsAcceptable
    /\ part = "ingress"     => Ingress!BodiesAreWithinLimits /\ Ingress!RefusedIsDrained
                              /\ Ingress!DoorsAgree

-----------------------------------------------------------------------------
(* The theorems: what the components keep, this composition keeps *)

\* Token refresh (providers.js, store.js): no refresh token that was rotated is
\* lost, for every set of callers and every bound on restarts and attempts.
THEOREM RotationsAreKept == Spec => []NoLostRotation
<1> DEFINE Ours == part = "tokens"
           Kept == Tokens!NoLostRotation /\ Tokens!FailedIsRetried /\ Tokens!RefreshingHasAnOwner
<1>1. Tokens!Spec => []Kept
  BY ParametersFit, Tokens!NoRefreshIsLost DEF ParametersFit
<1>2. Init /\ Ours => Tokens!Init
  BY DEF Init
<1>3. [Next]_vars => (Ours' <=> Ours)
  BY DEF Next, vars
<1>4. [Next]_vars /\ Ours => [Tokens!Next]_(Tokens!vars)
  BY DEF Next, vars, Tokens!vars, Tokens!tokens, Tokens!ghosts, From7, From10, From12
<1>5. Kept \/ ~ Ours => NoLostRotation
  BY DEF NoLostRotation
<1> HIDE DEF Ours, Kept
<1> QED
  BY <1>1, <1>2, <1>3, <1>4, <1>5, PTL DEF Spec, Tokens!Spec

\* Native turns (native-response-steering.js): a receipt in progress belongs to a
\* connection that will finish it, for all keys, lanes and restarts.
THEOREM LanesFinishTheirTurns == Spec => []RunningHasALane
<1> DEFINE Ours == part = "receipts"
           Kept == Receipts!TypeOK /\ Receipts!RunningHasALane
<1>1. Receipts!Spec => []Kept
  BY ParametersFit, Receipts!TurnsAreFinished DEF ParametersFit
<1>2. Init /\ Ours => Receipts!Init
  BY DEF Init
<1>3. [Next]_vars => (Ours' <=> Ours)
  BY DEF Next, vars
<1>4. [Next]_vars /\ Ours => [Receipts!Next]_(Receipts!vars)
  BY DEF Next, vars, Receipts!vars, From7, From10, From12
<1>5. Kept \/ ~ Ours => RunningHasALane
  BY DEF RunningHasALane
<1> HIDE DEF Ours, Kept
<1> QED
  BY <1>1, <1>2, <1>3, <1>4, <1>5, PTL DEF Spec, Receipts!Spec

\* Native turns (native-turn-recovery.js): no step of any number of runs repeats a
\* turn whose history lacks what an earlier run showed.
THEOREM TurnsAreNotRepeatedBlindly == Spec => NoBlindReplay
<1> DEFINE Ours == part = "receipts"
           Known == Receipts!RunsKnowTheAnswer
<1>1. Receipts!Spec => [][Known]_(Receipts!vars)
  BY ParametersFit, Receipts!NoTurnRunsBlindly DEF ParametersFit, Receipts!NoBlindReplay
<1>2. Init /\ Ours => Receipts!Init
  BY DEF Init
<1>3. [Next]_vars => (Ours' <=> Ours)
  BY DEF Next, vars
<1>4. [Next]_vars /\ Ours => [Receipts!Next]_(Receipts!vars)
  BY DEF Next, vars, Receipts!vars, From7, From10, From12
<1>5. [Next]_vars /\ ([Known]_(Receipts!vars) \/ ~ Ours) => [Ours => Known]_vars
  <2> SUFFICES ASSUME [Next]_vars, [Known]_(Receipts!vars), Ours, vars' # vars
               PROVE  Known
    OBVIOUS
  <2> QED
    BY DEF Next, vars, Receipts!vars, From7, From10, From12
<1> HIDE DEF Ours, Known
<1>6. Spec => [][Ours => Known]_vars
  BY <1>1, <1>2, <1>3, <1>4, <1>5, PTL DEF Spec, Receipts!Spec
<1> QED
  BY <1>6 DEF Ours, Known, NoBlindReplay

\* Records (store.js, saveChanges) and accounts (store.js, create, update and
\* the rest): what was saved is in the table, for every set of records and
\* values; accounts are saved sealed, with one policy in a workspace and the
\* identity of their credentials, for any number of them, of tokens and of
\* updates refused halfway.
THEOREM SavesAreDurable == Spec => []SavedIsDurable
<1> DEFINE Kept == /\ part = "records" => Records!CacheIsTheTable
                   /\ part = "accounts" => Managed!AccountsInv
<1>1. Init => Kept
  BY AccountsFit, RecordsBegin, AccountsBegin DEF Init
<1>2. ASSUME [Next]_vars, Kept PROVE Kept'
  <2>1. part' = part
    BY <1>2 DEF Next, vars
  <2>2. CASE part = "records"
    <3>1. [Records!Next]_(Records!vars)
      BY <1>2, <2>2 DEF Next, vars, Records!vars, From7, From10, From12
    <3> QED
      BY <1>2, <2>1, <2>2, <3>1, RecordsGoOn
  <2>3. CASE part = "accounts"
    <3>1. [Managed!Next]_(Managed!vars)
      BY <1>2, <2>3 DEF Next, vars, Managed!vars, From7, From10, From12
    <3> QED
      BY AccountsFit, <1>2, <2>1, <2>3, <3>1, AccountsGoOn
  <2> QED
    BY <2>1, <2>2, <2>3
<1>3. Kept => SavedIsDurable
  BY AccountsFit, AccountsAre DEF SavedIsDurable, Records!CacheIsTheTable, Records!SavedIsDurable
<1> HIDE DEF Kept
<1> QED
  BY <1>1, <1>2, <1>3, PTL DEF Spec

\* Streams (proxy.js, streamResponse): row, usage, share, health and receipt tell
\* one story of a stream of any length.
THEOREM StreamsTellOneStory == Spec => []OneStory
<1> DEFINE Ours == part = "streams"
           Kept == Streams!StoryInv
<1>1. Init /\ Ours => Kept
  BY StoryBegins DEF Init
<1>2. [Next]_vars => (Ours' <=> Ours)
  BY DEF Next, vars
<1>3. [Next]_vars /\ Ours => [Streams!Next]_(Streams!vars)
  BY DEF Next, vars, Streams!vars, Streams!inputs, From7, From10, From12
<1>4. [Next]_vars /\ Ours /\ Kept => Kept'
  BY <1>3, StoryGoesOn
<1>5. (Ours => Kept) => OneStory
  BY DEF OneStory, Streams!StoryInv
<1> HIDE DEF Ours, Kept
<1> QED
  BY <1>1, <1>2, <1>4, <1>5, PTL DEF Spec

\* Handlers of requests (proxy.js, compatibility.js) and their exchanges with a
\* provider (upstream-response-lifecycle.js): whatever happens, rows and receipts
\* are closed and the books say what the client got, and admissions and
\* reservations are given back but for a stream without a body and a raw request
\* whose account was removed, for any number of raw and compatibility requests,
\* every choice of their shares and bodies of any size.
THEOREM HandlersLeaveNothing == Spec => []RoutesLeaveNothing
<1> DEFINE Kept == /\ part = "routes" => Compat!CompatInv
                   /\ part = "raw" => Raw!RawInv
                   /\ part = "requests" => Handler!RequestInv
                   /\ part = "exchange" => Exchange!ExchangeInv
<1>1. Init => Kept
  BY BodiesFit, CompatBegins, RawBegins, RequestBegins, ExchangeBegins DEF Init
<1>2. ASSUME [Next]_vars, Kept PROVE Kept'
  <2>1. part' = part
    BY <1>2 DEF Next, vars
  <2>2. CASE part = "routes"
    <3>1. [Compat!Next]_(Compat!vars)
      BY <1>2, <2>2 DEF Next, vars, Compat!vars
    <3> QED
      BY <1>2, <2>1, <2>2, <3>1, CompatGoesOn
  <2>3. CASE part = "raw"
    <3>1. [Raw!Next]_(Raw!vars)
      BY <1>2, <2>3 DEF Next, vars, Raw!vars
    <3> QED
      BY <1>2, <2>1, <2>3, <3>1, RawGoesOn
  <2>4. CASE part = "requests"
    <3>1. [Handler!Next]_(Handler!vars)
      BY <1>2, <2>4 DEF Next, vars, Handler!vars, Handler!Books, From7, From10, From12
    <3> QED
      BY <1>2, <2>1, <2>4, <3>1, RequestGoesOn
  <2>5. CASE part = "exchange"
    <3>1. [Exchange!Next]_(Exchange!vars)
      BY <1>2, <2>5 DEF Next, vars, Exchange!vars, From7, From10, From12
    <3> QED
      BY BodiesFit, <1>2, <2>1, <2>5, <3>1, ExchangeGoesOn
  <2> QED
    BY <2>1, <2>2, <2>3, <2>4, <2>5
<1>3. Kept => RoutesLeaveNothing
  BY BodiesFit, CompatIs, RawIs, ExchangeIs DEF RoutesLeaveNothing, Handler!RequestInv
<1> HIDE DEF Kept
<1> QED
  BY <1>1, <1>2, <1>3, PTL DEF Spec

\* Circuits (store.js), hosts (codex-host-health.js), quotas
\* (upstream-quota-refresh.js) and catalogs (codex-model-catalog.js): what was
\* learnt with old evidence, old leases or replaced credentials decides nothing,
\* for every set of attempts, requests and accounts.
THEOREM EvidenceStaysFenced == Spec => []EvidenceIsFenced
<1> DEFINE InCircuits == part = "circuits"
           InHosts == part = "hosts"
           OneOwner == Circuits!HalfOpenHasOneOwner
           Harmless == Hosts!EvidenceIsFenced /\ Hosts!ProbesBelongToOpenHosts
                         /\ Hosts!ProbeFlagHasAnOwner
           Kept == /\ part = "quotas" => Quotas!QuotaInv
                   /\ part = "catalogs" => Catalogs!CatalogInv
<1>1. Circuits!Spec => []OneOwner
  BY ParametersFit, Circuits!OneOwnerPerCircuit DEF ParametersFit
<1>2. Hosts!Spec => []Harmless
  BY ParametersFit, Hosts!OldEvidenceIsHarmless DEF ParametersFit
<1>3. /\ Init /\ InCircuits => Circuits!Init
      /\ Init /\ InHosts => Hosts!Init
      /\ Init => Kept
  <2>1. Init /\ part = "quotas" => Quotas!QuotaInv
    BY QuotaBegins DEF Init
  <2>2. Init /\ part = "catalogs" => Catalogs!CatalogInv
    BY CatalogsFit, CatalogBegins DEF Init
  <2> QED
    BY <2>1, <2>2 DEF Init
<1>4. [Next]_vars => (InCircuits' <=> InCircuits) /\ (InHosts' <=> InHosts)
  BY DEF Next, vars
<1>5. [Next]_vars /\ InCircuits => [Circuits!Next]_(Circuits!vars)
  BY DEF Next, vars, Circuits!vars, Circuits!account, From7, From10, From12
<1>6. [Next]_vars /\ InHosts => [Hosts!Next]_(Hosts!vars)
  BY DEF Next, vars, Hosts!vars
<1>7. ASSUME [Next]_vars, Kept PROVE Kept'
  <2>1. part' = part
    BY <1>7 DEF Next, vars
  <2>2. CASE part = "quotas"
    <3>1. [Quotas!Next]_(Quotas!vars)
      BY <1>7, <2>2 DEF Next, vars, Quotas!vars, From7
    <3> QED
      BY <1>7, <2>1, <2>2, <3>1, QuotaGoesOn
  <2>3. CASE part = "catalogs"
    <3>1. [Catalogs!Next]_(Catalogs!vars)
      BY <1>7, <2>3 DEF Next, vars, Catalogs!vars
    <3> QED
      BY <1>7, <2>1, <2>3, <3>1, CatalogsFit, CatalogGoesOn
  <2> QED
    BY <2>1, <2>2, <2>3
<1>8. (InCircuits => OneOwner) /\ (InHosts => Harmless) /\ Kept => EvidenceIsFenced
  <2>1. Quotas!QuotaInv => Quotas!ReadsAreTheOwners
    BY DEF Quotas!QuotaInv, Quotas!ReadsAreFenced, Quotas!ReadsAreTheOwners
  <2> QED
    BY <2>1, CatalogIs DEF EvidenceIsFenced
<1> HIDE DEF InCircuits, InHosts, OneOwner, Harmless, Kept
<1> QED
  BY <1>1, <1>2, <1>3, <1>4, <1>5, <1>6, <1>7, <1>8, PTL
     DEF Spec, Circuits!Spec, Hosts!Spec

\* Sessions (store.js, pinSession, addSessionUsage, candidatePlanDetails): no pin
\* is charged what others spent and no request leaves the account it is for, for
\* any accounts, strategies and limits and whatever order requests settle in.
THEOREM PinsStayHonest == Spec => []PinsAreHonest
<1> DEFINE Kept == part = "sessions" => Sessions!RoutingInv
<1>1. Init => Kept
  BY RoutingBegins DEF Init
<1>2. ASSUME [Next]_vars, Kept PROVE Kept'
  <2>1. part' = part
    BY <1>2 DEF Next, vars
  <2>2. CASE part = "sessions"
    <3>1. [Sessions!Next]_(Sessions!vars)
      BY <1>2, <2>2 DEF Next, vars, Sessions!vars, From7, From10
    <3> QED
      BY <1>2, <2>1, <2>2, <3>1, RoutingGoesOn
  <2> QED
    BY <2>1, <2>2
<1>3. Kept => PinsAreHonest
  BY RoutingIs DEF PinsAreHonest
<1> HIDE DEF Kept
<1> QED
  BY <1>1, <1>2, <1>3, PTL DEF Spec

\* Compatibility learning (compatibility-learning.js, observe): no request leaves
\* a field out on thin evidence, for any fields, requests, upgrades and restarts.
THEOREM FactsStayEvidenced == Spec => []FactsAreEvidenced
<1> DEFINE Kept == part = "facts" => Facts!LearningInv
<1>1. Init => Kept
  BY LearningBegins DEF Init
<1>2. ASSUME [Next]_vars, Kept PROVE Kept'
  <2>1. part' = part
    BY <1>2 DEF Next, vars
  <2>2. CASE part = "facts"
    <3>1. [Facts!Next]_(Facts!vars)
      BY <1>2, <2>2 DEF Next, vars, Facts!vars, From7, From10
    <3> QED
      BY <1>2, <2>1, <2>2, <3>1, LearningGoesOn
  <2> QED
    BY <2>1, <2>2
<1>3. Kept => FactsAreEvidenced
  BY LearningIs DEF FactsAreEvidenced
<1> HIDE DEF Kept
<1> QED
  BY <1>1, <1>2, <1>3, PTL DEF Spec

\* WebSocket relay (proxy.js, relayWebSocket) and native lane
\* (native-response-steering.js): an account is left no admission but the active
\* turn's and those renewed after their turn had ended, shares follow the turns,
\* and no response comes unasked or twice, for any accounts, turns, queues,
\* retries, sockets and controls.
THEOREM TurnsKeepTheirBooks == Spec => []TurnsGiveBack
<1> DEFINE Kept == /\ part = "turns" => Turns!RelayInv
                   /\ part = "steering" => Lane!LaneInv
<1>1. Init => Kept
  BY RelayBegins, SteeringBegins DEF Init
<1>2. ASSUME [Next]_vars, Kept PROVE Kept'
  <2>1. part' = part
    BY <1>2 DEF Next, vars
  <2>2. CASE part = "turns"
    <3>1. [Turns!Next]_(Turns!vars)
      BY <1>2, <2>2 DEF Next, vars, Turns!vars, Turns!locals, Turns!books, From7, From10, From12
    <3> QED
      BY <1>2, <2>1, <2>2, <3>1, RelayGoesOn
  <2>3. CASE part = "steering"
    <3>1. [Lane!Next]_(Lane!vars)
      BY <1>2, <2>3 DEF Next, vars, Lane!vars, From7
    <3> QED
      BY <1>2, <2>1, <2>3, <3>1, SteeringGoesOn
  <2> QED
    BY <2>1, <2>2, <2>3
<1>3. Kept => TurnsGiveBack
  BY SteeringIs DEF TurnsGiveBack, Turns!RelayInv, Turns!AdmissionsInv
<1> HIDE DEF Kept
<1> QED
  BY <1>1, <1>2, <1>3, PTL DEF Spec

\* Spending (domain.js, recordUsage, pruneSettlements): an account's spending
\* covers every settlement of the cap period that it remembers, for any attempts,
\* costs, caps, window, and order of repeated and corrected deliveries.
THEOREM SpendingIsCovered == Spec => []SpentCoversTheWindow
<1> DEFINE Ours == part = "spending"
           Kept == Spending!SpendingInv
<1>1. Init /\ Ours => Kept
  BY SpendingBegins DEF Init
<1>2. [Next]_vars => (Ours' <=> Ours)
  BY DEF Next, vars
<1>3. [Next]_vars /\ Ours => [Spending!Next]_(Spending!vars)
  BY DEF Next, vars, Spending!vars, From7, From10, From12
<1>4. [Next]_vars /\ Ours /\ Kept => Kept'
  BY <1>3, SpendingGoesOn
<1>5. (Ours => Kept) => SpentCoversTheWindow
  BY SpendingIs DEF SpentCoversTheWindow
<1> HIDE DEF Ours, Kept
<1> QED
  BY <1>1, <1>2, <1>4, <1>5, PTL DEF Spec

\* Anthropic tools (claude-protocol.js, aliasClaudeOAuthTools and
\* restoreClaudeToolAliases): whatever names the tools have, however they hash and
\* whatever sanitising leaves of them, the client gets its own names back.
THEOREM NamesAreGivenBack == Spec => []AliasesAreReversible
<1> DEFINE Ours == part = "names"
           Kept == Names!NamesInv
<1>1. Init /\ Ours => Kept
  BY NamesFit, NamesBegin DEF Init
<1>2. [Next]_vars => (Ours' <=> Ours)
  BY DEF Next, vars
<1>3. [Next]_vars /\ Ours => [Names!Next]_(Names!vars)
  BY DEF Next, vars, Names!vars
<1>4. [Next]_vars /\ Ours /\ Kept => Kept'
  BY <1>3, NamesFit, NamesGoOn
<1>5. (Ours => Kept) => AliasesAreReversible
  BY NamesFit, NamesAre DEF AliasesAreReversible
<1> HIDE DEF Ours, Kept
<1> QED
  BY <1>1, <1>2, <1>4, <1>5, PTL DEF Spec

\* Bodies (http-ingress.js, server.js, proxy.js, claude-protocol.js): what enters is
\* whole and within the limits, and what leaves has marks and parameters that the
\* provider accepts, for every set of bodies, limits and budgets.
THEOREM BodiesStayAcceptable == Spec => []BodiesAreAcceptable
<1> DEFINE Kept == /\ part = "marks" => Marks!MarksInv
                   /\ part = "parameters" => Parameters!ParametersInv
                   /\ part = "ingress" => Ingress!IngressInv
<1>0. /\ Marks!MarksAssumption /\ Parameters!ParametersAssumption /\ Ingress!LimitsArePositive
  BY ParametersFit, SuffixesFit, LimitsFit DEF ParametersFit, SuffixesFit, LimitsFit
<1>1. Init => Kept
  BY <1>0, Marks!MarksBegin, ParametersBegin, IngressBegins DEF Init
<1>2. ASSUME [Next]_vars, Kept PROVE Kept'
  <2>1. part' = part
    BY <1>2 DEF Next, vars
  <2>2. CASE part = "marks"
    <3>1. [Marks!Next]_(Marks!vars)
      BY <1>2, <2>2 DEF Next, vars, Marks!vars, From7, From10, From12
    <3> QED
      BY <1>0, <1>2, <2>1, <2>2, <3>1, Marks!MarksGoOn
  <2>3. CASE part = "parameters"
    <3>1. [Parameters!Next]_(Parameters!vars)
      BY <1>2, <2>3 DEF Next, vars, Parameters!vars, From7, From10, From12
    <3> QED
      BY <1>0, <1>2, <2>1, <2>3, <3>1, ParametersGoOn
  <2>4. CASE part = "ingress"
    <3>1. [Ingress!Next]_(Ingress!vars)
      BY <1>2, <2>4 DEF Next, vars, Ingress!vars, From7, From10, From12
    <3> QED
      BY <1>0, <1>2, <2>1, <2>4, <3>1, IngressGoesOn
  <2> QED
    BY <2>1, <2>2, <2>3, <2>4
<1>3. Kept => BodiesAreAcceptable
  BY ParametersAre, IngressIs DEF BodiesAreAcceptable, Marks!MarksInv
<1> HIDE DEF Kept
<1> QED
  BY <1>1, <1>2, <1>3, PTL DEF Spec
=============================================================================
