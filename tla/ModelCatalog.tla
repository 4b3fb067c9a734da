---------------------------- MODULE ModelCatalog ----------------------------
(***************************************************************************)
(* The catalog of models that codex accounts offer                         *)
(* (codex-model-catalog.js): an entry per account, fenced by the           *)
(* generation of the credentials it was read with, coalesced discoveries,  *)
(* models the provider refused, and the aggregated list with its cache.    *)
(*                                                                         *)
(* A row's content is the account it came from: Rank orders rows of one    *)
(* model the way compareNativeRows orders their texts.                     *)
(***************************************************************************)
EXTENDS Integers, Sequences, FiniteSets, FiniteSetsExt, SequencesExt

CONSTANTS
    Accounts, Models,
    None,
    Rank,                       \* [Accounts -> Nat]
    FreshTtl,                   \* freshTtlMs
    ListingTtls,                \* the cacheTtlMs of callers
    FailureSuppression,         \* failureSuppressionMs
    MaxCatalogs,                \* MAX_ACCOUNT_CATALOGS
    MaxAggregations,            \* MAX_AGGREGATION_CACHE_ENTRIES
    MaxNegative,                \* MAX_NEGATIVE_MODELS
    MaxGeneration, MaxRevision, MaxFetches, MaxTime     \* bounds

VARIABLES
    upstream,       \* generation and owner of each account's credentials
    entries,
    fetches,        \* [Accounts -> discoveries under way, by generation of their key]
    cache,          \* aggregationCache, oldest first
    revision,       \* entryRevision
    now

vars == <<upstream, entries, fetches, cache, revision, now>>

Never == -1

CatalogAssumption == MaxGeneration \in Nat \ {0} /\ {MaxRevision, MaxTime} \subseteq Nat
Generations == 1..MaxGeneration
Times == 0..MaxTime

\* `of` is the owner of the credentials the models were read with.
Entry == [generation : Generations, revision : 0..MaxRevision, hasCatalog : BOOLEAN,
          of : Generations \cup {None}, models : SUBSET Models, negative : SUBSET Models,
          lastSuccess : Times \cup {Never}, lastFailure : Times \cup {Never}]

\* generation and owner as the discovery read them last.
Fetch == [generation : Generations, owner : Generations]

Fetches(a) == DOMAIN fetches[a]

TypeOK ==
    /\ upstream \in [Accounts -> [generation : Generations, owner : Generations]]
    /\ entries \in [Accounts -> Entry \cup {None}]
    /\ \A a \in Accounts : Fetches(a) \subseteq Generations
                           /\ \A g \in Fetches(a) : fetches[a][g] \in Fetch
    /\ Len(cache) <= MaxAggregations
    /\ revision \in 0..MaxRevision /\ now \in Times
    /\ \A a \in Accounts : entries[a] # None => Cardinality(entries[a].negative) <= MaxNegative

Init ==
    /\ upstream = [a \in Accounts |-> [generation |-> 1, owner |-> 1]]
    /\ entries = [a \in Accounts |-> None]
    /\ fetches = [a \in Accounts |-> <<>>]
    /\ cache = <<>> /\ revision = 0 /\ now = 0

-----------------------------------------------------------------------------
(* Entries *)

Generation(a) == upstream[a].generation
MayChange == \A a \in Accounts : Generation(a) < MaxGeneration
Fresh(e) == e # None /\ e.hasCatalog /\ e.lastSuccess # Never /\ e.lastFailure = Never
            /\ now - e.lastSuccess < FreshTtl

NewEntry(g, r) ==
    [generation |-> g, revision |-> r, hasCatalog |-> FALSE, of |-> None, models |-> {},
     negative |-> {}, lastSuccess |-> Never, lastFailure |-> Never]

\* currentEntry drops the entry of other credentials; reconcile does it for all.
Current(es, a) == IF es[a] # None /\ es[a].generation = Generation(a) THEN es[a] ELSE None

Kept(es) == {a \in Accounts : es[a] # None}

\* prune: the least recently used go, except those with a discovery under way;
\* the model lets any go.
Removable(es) == {a \in Kept(es) : Fetches(a) = {}}
Excess(es) == Cardinality(Kept(es)) - MaxCatalogs

Prunings(es) ==
    {out \in SUBSET Removable(es) :
        Cardinality(out) = Min({Excess(es), Cardinality(Removable(es))})}

Pruned(es) ==
    IF Excess(es) <= 0 THEN {es}
    ELSE {[a \in Accounts |-> IF a \in out THEN None ELSE es[a]] : out \in Prunings(es)}

Reconciled == Pruned([a \in Accounts |-> Current(entries, a)])

\* entryFor
HasEntryFor(es, a, g) == es[a] # None /\ es[a].generation = g
EntryFor(es, a, g) == IF HasEntryFor(es, a, g) THEN es[a] ELSE NewEntry(g, revision + 1)
RevisionAfter(es, a, g) == IF HasEntryFor(es, a, g) THEN revision ELSE revision + 1

-----------------------------------------------------------------------------
(* Discovery *)

UnderWay == Cardinality({f \in Accounts \X Generations : f[2] \in Fetches(f[1])})

MayServe(e, ttl, refresh) ==
    ~refresh /\ (Fresh(e) \/ (ttl # Never /\ e.hasCatalog /\ e.lastSuccess # Never
                              /\ now - e.lastSuccess < ttl))
Suppressed(e) == e.lastFailure # Never /\ now - e.lastFailure < FailureSuppression

\* discoverAccount, and fetchAccount up to the refresh of the access token.
Discover(a) ==
    /\ \E es \in Reconciled, ttl \in ListingTtls \cup {Never}, refresh \in BOOLEAN :
        LET g == Generation(a)
            e == EntryFor(es, a, g)
            serve == MayServe(e, ttl, refresh) \/ Suppressed(e) \/ g \in Fetches(a)
        IN /\ serve \/ UnderWay < MaxFetches
           /\ entries' = [es EXCEPT ![a] = e]
           /\ revision' = RevisionAfter(es, a, g)
           /\ fetches' = IF serve THEN fetches
                         ELSE [fetches EXCEPT ![a] =
                                 [h \in Fetches(a) \cup {g} |->
                                    IF h = g THEN upstream[a] ELSE fetches[a][h]]]
    /\ revision' <= MaxRevision
    /\ UNCHANGED <<upstream, cache, now>>

Ended(a, key) == [fetches EXCEPT ![a] = [g \in Fetches(a) \ {key} |-> fetches[a][g]]]

\* ensureProviderCredentials, and once more after a 401: the access token may
\* have changed, by this refresh or while it was waiting; then the credentials
\* and their generation are read again.
RefreshCredentials(a, key) ==
    /\ key \in Fetches(a)
    /\ \E rotate \in BOOLEAN :
        /\ rotate => MayChange
        /\ upstream' = IF rotate THEN [upstream EXCEPT ![a].generation = Generation(a) + 1] ELSE upstream
        /\ fetches' = [fetches EXCEPT ![a][key] = upstream'[a]]
    /\ UNCHANGED <<entries, cache, revision, now>>

\* mutant: whatever was read is the account's catalog
AnyGeneration(a, fetch) == TRUE

StillCurrent(a, fetch) == Generation(a) = fetch.generation

\* A list: it replaces the catalog and everything the provider refused.
Answer(a, key, models) ==
    /\ key \in Fetches(a)
    /\ LET f == fetches[a][key]
           g == Generation(a)
           e == [EntryFor(entries, a, g) EXCEPT
                   !.hasCatalog = TRUE, !.of = f.owner, !.models = models, !.negative = {},
                   !.revision = RevisionAfter(entries, a, g) + 1, !.lastSuccess = now,
                   !.lastFailure = Never]
       IN IF StillCurrent(a, f)
          THEN /\ entries' \in Pruned([entries EXCEPT ![a] = e])
               /\ revision' = RevisionAfter(entries, a, g) + 1
          ELSE /\ entries' = [entries EXCEPT ![a] = Current(entries, a)]
               /\ UNCHANGED revision
    /\ revision' <= MaxRevision
    /\ fetches' = Ended(a, key)
    /\ UNCHANGED <<upstream, cache, now>>

\* Anything else: the account's catalog stays and is not asked for again soon,
\* unless the pacer refused or the credentials have changed.
Fail(a, key) ==
    /\ key \in Fetches(a)
    /\ LET f == fetches[a][key]
           e == [EntryFor(entries, a, f.generation) EXCEPT !.lastFailure = now]
       IN \/ /\ StillCurrent(a, f)
             /\ entries' = [entries EXCEPT ![a] = e]
             /\ revision' = RevisionAfter(entries, a, f.generation)
          \/ /\ entries' = [entries EXCEPT ![a] = Current(entries, a)]
             /\ UNCHANGED revision
    /\ revision' <= MaxRevision
    /\ fetches' = Ended(a, key)
    /\ UNCHANGED <<upstream, cache, now>>

\* markUnsupported: the provider does not know the model.
MarkUnsupported(a, m) ==
    /\ LET g == Generation(a)
           e == EntryFor(entries, a, g)
           r == RevisionAfter(entries, a, g)
       IN \E negative \in {n \in SUBSET (e.negative \cup {m}) :
                             m \in n /\ Cardinality(n) = Min({MaxNegative, Cardinality(e.negative \cup {m})})} :
            /\ entries' = [entries EXCEPT ![a] =
                 [e EXCEPT !.negative = negative, !.models = @ \ {m},
                           !.revision = IF m \in e.models THEN r + 1 ELSE @,
                           !.lastSuccess = Never, !.lastFailure = Never]]
            /\ revision' = IF m \in e.models THEN r + 1 ELSE r
    /\ revision' <= MaxRevision
    /\ UNCHANGED <<upstream, fetches, cache, now>>

-----------------------------------------------------------------------------
(* The list *)

Listed(es) == {a \in Accounts : Current(es, a) # None /\ es[a].hasCatalog}

\* The signature of cachedAggregation.
Signature(es) == [a \in Listed(es) |-> <<es[a].revision, Fresh(es[a])>>]

\* chooseNativeRow: fresh rows first.
Before(key, a, b) ==
    \/ key[a][2] /\ ~key[b][2]
    \/ key[a][2] = key[b][2] /\ Rank[a] < Rank[b]

RowOf(key, models, m) ==
    LET rows == {a \in DOMAIN key : m \in models[a]}
    IN IF rows = {} THEN None
       ELSE CHOOSE a \in rows : \A b \in rows \ {a} : Before(key, a, b)

ListOf(key, models) == [m \in Models |-> RowOf(key, models, m)]

Listing(es) == [a \in Listed(es) |-> es[a].models]
Aggregate(es) == ListOf(Signature(es), Listing(es))

CachedUnder(key) == {i \in DOMAIN cache : cache[i].key = key}

\* snapshot, scopedAccountsCatalog
Snapshot ==
    /\ \E es \in Reconciled :
        LET key == Signature(es)
        IN /\ entries' = es
           /\ cache' = IF CachedUnder(key) # {} THEN cache
                       ELSE LET longer == Append(cache, [key |-> key, list |-> Aggregate(es)])
                            IN IF Len(longer) > MaxAggregations THEN Tail(longer) ELSE longer
    /\ UNCHANGED <<upstream, fetches, revision, now>>

\* supports of the planner: FALSE and TRUE decide, None asks the provider.
Supports(a, m) ==
    LET e == Current(entries, a)
    IN IF e = None THEN None
       ELSE IF m \in e.negative THEN FALSE
       ELSE IF e.hasCatalog THEN m \in e.models ELSE None

-----------------------------------------------------------------------------
\* Other access tokens of the same owner, and other credentials.
Rotate(a) ==
    /\ MayChange
    /\ upstream' = [upstream EXCEPT ![a].generation = Generation(a) + 1]
    /\ UNCHANGED <<entries, fetches, cache, revision, now>>

Replace(a) ==
    /\ MayChange
    /\ upstream' = [upstream EXCEPT ![a] = [generation |-> @.generation + 1, owner |-> @.owner + 1]]
    /\ UNCHANGED <<entries, fetches, cache, revision, now>>

Tick ==
    /\ now < MaxTime
    /\ now' = now + 1
    /\ UNCHANGED <<upstream, entries, fetches, cache, revision>>

Next ==
    \/ \E a \in Accounts :
        \/ Discover(a) \/ Rotate(a) \/ Replace(a)
        \/ \E m \in Models : MarkUnsupported(a, m)
        \/ \E key \in Generations :
            \/ RefreshCredentials(a, key) \/ Fail(a, key)
            \/ \E models \in SUBSET Models : Answer(a, key, models)
    \/ Snapshot \/ Tick

Spec == Init /\ [][Next]_vars

-----------------------------------------------------------------------------
\* What the planner and the lists use of an account was read with credentials
\* of its present owner, whatever was replaced while it was read.
CatalogsAreTheOwners ==
    \A a \in Accounts : LET e == Current(entries, a)
                        IN e # None /\ e.hasCatalog => e.of = upstream[a].owner

\* A list from the cache is what aggregating the entries would give now: each
\* change of a catalog, of its freshness or of its credentials has another key.
ListsAreCurrent ==
    \A i \in CachedUnder(Signature(entries)) : cache[i].list = Aggregate(entries)

\* A model the provider refused is neither planned nor listed for the account
\* until it is discovered again.
RefusedIsUnsupported ==
    \A a \in Accounts : LET e == Current(entries, a)
                        IN e # None => e.negative \cap e.models = {}

\* Inductive, in four parts.  What the variables hold.
Shapes ==
    /\ upstream \in [Accounts -> [generation : Generations, owner : Generations]]
    /\ entries \in [Accounts -> Entry \cup {None}]
    /\ DOMAIN fetches = Accounts
    /\ revision \in 0..MaxRevision /\ now \in Times

\* A discovery that read the present generation read the present owner's.
FetchesAreFenced ==
    \A a \in Accounts : \A g \in Fetches(a) :
        LET f == fetches[a][g]
        IN /\ f \in Fetch /\ f.generation <= Generation(a)
           /\ f.generation = Generation(a) => f.owner = upstream[a].owner

\* Generations only grow, and so an entry or a discovery of the present one is of
\* the present owner.
OwnersAreFenced ==
    /\ FetchesAreFenced
    /\ \A a \in Accounts :
        /\ upstream[a].owner <= Generation(a)
        /\ entries[a] # None =>
            /\ entries[a].generation <= Generation(a)
            /\ entries[a].hasCatalog /\ entries[a].generation = Generation(a)
                 => entries[a].of = upstream[a].owner

\* No model is both offered and refused, and revisions are given once.
EntriesAreSound ==
    \A a \in Accounts : entries[a] # None =>
        /\ entries[a].negative \cap entries[a].models = {}
        /\ entries[a].revision <= revision

\* A cached list is made of models that an entry of the same revision still has.
MadeOf(c, es, r) ==
    \E models \in [DOMAIN c.key -> SUBSET Models] :
        /\ c.list = ListOf(c.key, models)
        /\ \A a \in DOMAIN c.key :
            /\ c.key[a][1] \in 0..r
            /\ a \in Accounts /\ es[a] # None /\ es[a].revision = c.key[a][1]
                 => es[a].models = models[a]

Remembered(c) == MadeOf(c, entries, revision)

CacheIsRemembered ==
    /\ cache \in Seq({cache[i] : i \in DOMAIN cache})
    /\ \A i \in DOMAIN cache : Remembered(cache[i])

\* What an entry must be to take an account's place at a step.
Renewed(a, e) ==
    /\ e \in Entry /\ e.generation = Generation(a)
    /\ e.hasCatalog => e.of = upstream[a].owner
    /\ e.negative \cap e.models = {}
    /\ e.revision <= revision'
    /\ \/ e.revision > revision
       \/ entries[a] # None /\ e.revision = entries[a].revision /\ e.models = entries[a].models

CatalogInv == Shapes /\ OwnersAreFenced /\ EntriesAreSound /\ CacheIsRemembered
=============================================================================
