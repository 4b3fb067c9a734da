# Verification of the Codex Pooler gateway

TLA+ models of the Node gateway in `node/` (the repository's primary
application), the TLC runs that check them on small instances, and TLAPS proofs
of fifteen components for every instance. Source files named below are in
`node/src/`, documents and tests in `node/`. The Elixir application at the
repository's root (`lib/`, `mix.exs`) is kept by the repository as an
unmaintained reference and is not modelled.

1. [The system](#1-the-system)
2. [Modules](#2-modules)
3. [What is checked](#3-what-is-checked)
4. [What is proved](#4-what-is-proved)
5. [Where code and documentation disagree](#5-where-code-and-documentation-disagree)
6. [Not modelled](#6-not-modelled)
7. [What is left](#7-what-is-left)

## 1. The system

One Node process accepts Codex, OpenAI and Anthropic requests and serves each
from a pool of upstream accounts (Codex, Claude, Compass). It is single
threaded: two requests interleave only where the code awaits. What makes it hard
is that nearly every decision is taken before an await and acted upon after it,
with accounts, credentials, cooldowns, circuits, caps and clients changing in
between, and that state which must survive a restart is written behind. The
other half of the program translates between dialects, in streams that may be
cut anywhere and that may end in several ways at once.

| Component (source) | State | Operations | What makes it correct |
|---|---|---|---|
| Account health and circuits (`store.js`, `upstream-outcomes.js`) | cooldown, probe flag, generation of an account; one circuit row per account, route and model | begin and settle an attempt; judge an answer; clear or disable a cooldown; replace credentials; evict rows; restart | an attempt decides only about the state it was admitted under; a cooldown or half-open circuit has one probe, which ends; an answer costs an account what it says of it |
| Upstream pacer (`upstream-pacer.js`) | per account: last start, queue, one timer, one microtask | acquire, schedule, expire, abort, policy change, forget, close | starts are spaced and in order; nobody waits for ever or starts after its deadline |
| Codex host health (`codex-host-health.js`) | per origin: failures, circuit, probe flag, generation; bounded in number | begin, settle, release, evict | evidence is fenced by generations; probe flags are given back |
| Token refresh (`codex-token-refresh.js`, `providers.js`, `store.js`) | stored tokens, epoch and refresh status; refreshes in flight; retry timers | coalesced and manual refresh, scheduler pass, timers, replacement, restart | a rotated token is never lost; failures are retried |
| Quota refresh, quotas and caps (`upstream-quota-refresh.js`, `providers.js`, `provider-credits.js`, `domain.js`) | quota of each account, the polls and denials behind it, spending caps | poll, headers, denial, replacement, bulk caps | a quota is of the credentials it was read with; an account that used it up is not sent to |
| Model catalog (`codex-model-catalog.js`) | an entry per account, refused models, an aggregated list | discover, refuse, suppress, aggregate | a list is the present owner's |
| Requests and ledger (`proxy.js`, `gateway-dispatch.js`, `store.js`, `domain.js`, `pricing.js`) | a request's plan, attempt and retries; rows; spending by cap period | reserve, begin, send, fail over, deliver, settle, price | everything taken is given back once; the loop ends; what was used is charged once, at the rates in force |
| Client and share authorization (`store.js`, `proxy.js`, `share-authorization.js`) | scopes, keys, sockets, markers of oversized frames; reservations | let in, revoke, mark, import; reserve, release | a client has the access the operator was told of, as long as its socket lives |
| Routing and sessions (`store.js`) | session pins, response pins, rotation | order and exclude candidates, charge a pin | a continuation stays with its account; a pin is charged its own use |
| Streaming (`openai-streaming.js`, `native-sse.js`, `responses-stream-integrity.js`, `upstream-response*.js`, `http-stream.js`) | parser, terminal state, reader and deadline of each stream | cut, decode, translate, number, relay, abort | a stream's row, charge, health and receipt tell one story; chunks do not matter; what is called complete is |
| Native turns, WebSocket relay (`native-*.js`, `proxy.js`) | receipts, lanes, two sockets, a queue of turns, steering controls | begin, recover, steer, queue, resend, close | a turn runs once, or again knowing what it showed; a connection gives back what it took |
| Compatibility learning (`compatibility-learning.js`, `codex-compatibility.js`) | learned facts, observations | observe, promote, expire, resend without a field | facts are evidenced; a resend omits what was rejected and nothing else |
| Compatibility and raw routes (`compatibility.js`, `proxy.js`) | the resources of one request | files, audio, images, pass-through | nothing is left behind |
| Protocol adapters (`claude-protocol.js`, `claude-thinking-replay.js`, `openai-adapters.js`) | conversation memory, thinking replay | translate payloads, marks, tools, histories | the provider accepts what leaves and the client gets back what is its own |
| Persistence (`store.js`, `data-portability.js`) | database in memory, record cache, table | save, save changes, fail, restart, import | what was saved is there after a restart |
| Server and management (`server.js`, `http-ingress.js`, `admission.js`) | bodies being read | admit, read, inflate, refuse; operations on accounts | limits hold for whatever arrives; both doors agree |

**Interactions.** `proxyRequest` takes a ledger row, a native receipt and a
session; `dispatchCandidates` asks the planner for candidates and, for each,
begins an attempt (health), reserves the share, opens an attempt in the ledger,
resolves credentials (token refresh), waits for the pacer, asks host health,
sends, and settles all of them on every way out. A rejection may teach the
compatibility facts and be sent again. `streamResponse` feeds one event to three
classifiers (health, row, client). The planner has its own copy of the health
gates. The schedulers of tokens and quotas, the operator (credentials, caps,
removal, pacing policy) and the client (disconnect) act whenever a request
awaits. Health, tokens, quotas and circuits are part of a record that is saved
by whoever saves it next; a restart reloads the last save.

**Hard behaviours.** Stale attempts settling late; probes that must end on every
path; eviction of bounded tables under live leases; timers set by several
parties; coalesced refreshes across a replacement; two dozen ways out of an
attempt; an account removed under a request; clients leaving at each await;
turns queued behind a turn that fails; a terminal event racing a close; records
lost or stuck at a restart; names, ids and marks that collide after they were
shortened. `PROJECT.json` lists 40 of these at their lines with the properties
that would notice them going wrong.

## 2. Modules

Modules are independent where the code's components meet only through calls: a
module accepts every answer that what it calls could give. Composition is in two
places. `Dispatch` composes health, pacing, credentials, share and ledger along
one request and implements the abstract `Ledger`; `AdmissionsBalance` checks in
return what `UpstreamHealth` assumes of its callers. `Request` is the handler
around that loop, with the loop's results as its answers.

### State between awaits

| Module | Code | What its state stands for |
|---|---|---|
| `UpstreamHealth` | `store.js` `beginUpstreamAttempt`, `settleUpstreamAttempt` | `health`, `generation`, `circuits` of one account; `lease` what each attempt was given; `disk` the record as last saved. The early return that leaves the probe flag set is kept. `PlanEligible` is the planner's copy of the gates |
| `Outcomes` | `upstream-outcomes.js` | one answer, event or error on its way to a class, the operator's rules, and what settling it costs the account |
| `Pacer` | `upstream-pacer.js` | entries in order, timer, microtask; each action runs the handler with the `schedule` it ends in. A timer may fire late |
| `HostHealth` | `codex-host-health.js` | `entries` is the map, `lease` what `withCodexHostHealth` holds. `responses` is a ghost that counts what cleared an origin |
| `TokenRefresh` | `codex-token-refresh.js`, `providers.js` | tokens are generations of a rotation; callers join the refresh in flight and resume one microtask at a time; network and timers come only when no microtask is pending (`Quiet`) |
| `QuotaRefresh` | `upstream-quota-refresh.js`, `providers.js`, headers in `proxy.js` | one account's owner, poll in flight and header of a request, with the epoch each carries |
| `ModelCatalog` | `codex-model-catalog.js` | entries with their fences, fetches in flight, the aggregated list with its revision |
| `Dispatch`, `Ledger` | `proxy.js` `dispatchCandidates`, `store.js` | `job[r]` is the local state of one call; each way out of an attempt is an action that gives back what its handler does in its order. Where settling throws because the account is gone, the rest does not happen (`Lost`) |
| `Request` | `proxy.js` `proxyRequest`, `testUpstreamConnection` | row, receipt, admission, share and pin of one JSON request, from first line to last |
| `RawRoutes`, `CompatRoutes` | `proxyRawRequest`; `compatibility.js` | the same for passed-through requests, files, audio and images, with their polls |
| `Routing` | `store.js` `candidatePlanDetails`, pins | strategies, tiers, capacity and quota order, session and response pins; requests settle in any order |
| `Usage` | `domain.js` `recordUsage`, `store.js` daily totals | settlements remembered in a window, caps by period, repeated deliveries |
| `Quotas` | `domain.js`, `provider-credits.js`, `store.js` | what windows, credits and denials permit, and whether a request that waited is still sent; bulk updates of caps |
| `Relay` | `proxy.js` `relayWebSocket`, public turns | the locals of the function; what waits for a promise is in `waits`; `target` holds the socket with its idle timer, `late` is history: the admissions renewed when no turn was active |
| `Steering` | `relayWebSocket`, `native-response-steering.js` | the native lane: socket, turns, successors, admissions |
| `NativeTurns` | `native-turn-recovery.js`, `store.js` | receipts in memory and on disk, lanes, runs |
| `Delivery` | `proxy.js` `streamResponse` | one stream on three lanes; between a write and what follows it the client may close |
| `ResponseLifecycle` | `upstream-response-lifecycle.js`, `upstream-deadlines.js`, `http-stream.js`, the readers of `proxy.js` | fetch, abort signal, deadlines, backpressure and the four ways a body is read |
| `Compatibility` | `compatibility-learning.js` | facts and observations per fingerprint, requests that learn concurrently |
| `Persistence` | `store.js` `saveChanges`, `persistRecordChanges` | memory, the cache of what is believed to be stored, the table; `promised` is a history variable |
| `Accounts` | `server.js`, `store.js`, `domain.js` | records that show the credentials they hold, sealed or plain; identity lookups in flight |
| `ClientAccess` | `store.js`, `proxy.js`, `data-portability.js` | keys, scopes, sockets, markers; saves that fail; an import |
| `ClaudeMemory` | `claude-protocol.js`, `claude-thinking-replay.js` | last message of each conversation, replay entries with their bytes |

### Data that is translated or judged

These start from an input of a set and run the code's passes over it, in its
order; `TLC` runs them over all inputs of the set.

| Module | Code |
|---|---|
| `Ingress` | `http-ingress.js`, and the doors in `server.js` and `proxy.js` |
| `ChatHistory`, `CodexInput`, `ToolSchemas`, `Compaction` | `openai-adapters.js`, `codex-compatibility.js`, `proxy.js`: histories, ids, efforts, tools and their schemas, compaction bridges |
| `ClaudeMarks`, `ClaudeParameters`, `ClaudeTools` | `claude-protocol.js`: cache marks in four passes, thinking and limits, tool aliases |
| `Decoding`, `Framing`, `FirstEvent` | `upstream-response.js`; `openai-streaming.js`, `native-sse.js`; `proxy.js` `inspectInitialSseEvent` |
| `ResponsesStream`, `PublicStream`, `ChatStream` | `openai-streaming.js`, `responses-stream-integrity.js`: certified tool events, numbering and prefix, chunks for Chat clients |
| `Prices` | `pricing.js`, `sse-usage-observer.js` |

The comment at the head of each module says what it leaves out. A definition
whose comment begins "mutant" is used by no specification: it is a plausible bug
with which some property must fail.

### One run for many components

Components that share no steps are checked together. `ServicesMC` and
`PayloadsMC` instantiate each of them with small parameters; `part`, chosen at
the start, says which one a behaviour is of, and `x1`, `x2`, ... stand for that
component's variables. A property of such a run is a conjunction of
implications, `part = "hosts" => Hosts!EvidenceIsFenced` and so on, gathered by
what it is about; nothing relates two parts. What each component assumes
of its parameters is an ASSUME of the module (`ParametersFit` and others), which TLC
evaluates. In `ServicesMC`
the parameters of the parts that theorems are about are CONSTANTS, so that the
theorems hold for all their values; `Services.cfg` gives them the small ones.

## 3. What is checked

Twelve runs. Deadlock is not checked in any of them: requests, attempts, turns
and inputs are finite, and the system legitimately stops when they are used up.
Every property of a passing run has a mutant of the code that violates it.

| Run | Bounds | Shows |
|---|---|---|
| `UpstreamHealth_account` | a Claude account (its behaviours include a Codex account's), 2 attempts, 1 circuit key, probe interval 2, threshold 2, clock to 4, 4 generations, 1 replacement, 1 crash | during a cooldown only its probe still counts; no probe outlives its cooldown; planner and begin agree; settlements of replaced credentials or older generations change nothing; success lifts only an older cooldown; an open circuit closes only through its probe |
| `Pacer_account` | 3 requests, 2 models, 3 policies, 1 switch, clock to 5 | no lost wake-up; spacing; order; deadlines; every waiter settles |
| `Dispatch_public` | a public and a share request, Codex and Compass, 2 attempts, removals, disconnects | admissions and reservations are given back, answered rows are closed, the ledger's promise is kept (refinement), every request ends |
| `Dispatch_messages` | 2 Anthropic requests, Claude and Compass, a cap of 1 that is set again once, 1 resend, 1 retry round | overspending is bounded; a reached cap stops sends |
| `Services` | 22 parts, below | everything taken is given back but for the leaks of section 5, every record belongs to somebody, no late event damages newer state, no body is sent that a provider refuses |
| `Payloads` | 19 parts, below | nothing a client or a provider said is lost, doubled or mixed up |
| `UpstreamHealth_probe` | as account, no crash | violated: `EarlyProbePermitted` |
| `TokenRefresh_replacement` | 2 requests, 1 replacement | violated: `CredentialsFollowTheOperator` |
| `Dispatch_disconnect` | 1 public request | violated: `DisconnectIsRecorded` |
| `Relay_refused` | 3 turns of a client without a share, queue of 1, 2 accounts, 3 connections | violated: `OnlyTheActiveTurnIsSent` |
| `QuotaRefresh_paced` | a Claude account, 1 replacement, 1 request | violated: `HeadersAreTheOwners` |
| `Accounts_refused` | the accounts of `Services` alone | violated: `CredentialsAreEncrypted` |

**Services.** Each wrapper and what it stands for; the part is named where it is
not evident:

| Property | Components' properties |
|---|---|
| `EvidenceIsFenced` | `HalfOpenHasOneOwner` (circuits: 2 attempts, 2 keys, room for 1 row); `EvidenceIsFenced`, `ProbeFlagHasAnOwner`, `ProbesBelongToOpenHosts` (hosts: 3 requests, 2 origins, room for 1); `ReadsAreTheOwners` (quotas: 1 account of each type, 1 replacement); `CatalogsAreTheOwners`, `ListsAreCurrent`, `RefusedIsUnsupported` (catalogs: 2 accounts with room for 1, 1 model, 1 change of credentials, 2 discoveries at once, 4 revisions, clock to 1) |
| `NoLostRotation` | `NoLostRotation`, `RefreshingHasAnOwner`, `FailedIsRetried` (2 callers of 3 kinds, 3 attempts, 1 replacement, 3 fetches, 1 restart) |
| `TurnsGiveBack` | `AdmissionsAccounted`, `ShareFollowsTurn` (relay of a share: 2 turns, queue of 1, 2 accounts, 2 connections, 1 resend); `LaneGivesBack`, `SuccessorsAreSteered`, `SuccessorsAreAsked` (native lane: 2 turns, 2 sockets, 1 control) |
| `RunningHasALane`, `NoBlindReplay` | the receipts of one turn: 2 connections, 2 runs, 1 restart |
| `OneStory` | one stream of up to 3 events on each of its routes |
| `RoutesLeaveNothing` | `RoutesLeaveNothing` (a file, an audio and an image request), `NothingIsLeft` (1 raw request of a share), `NothingStaysOpen`, `BooksTellTheStory` (1 JSON request of any kind), `LifecycleIsClean` (1 exchange with a provider: bodies of up to 2 chunks) |
| `PinsAreHonest` | `SpendIsThePinsOwn`, `ContinuationsStay` (2 requests of a session, 2 accounts, rotation after 2) |
| `SavedIsDurable` | `SavedIsDurable` (4 rows in 3 collections, 3 changes, failed saves and restarts), `AccountsAreWhole` (2 accounts, 4 tokens of 2 people and 2 workspaces, 2 epochs, 1 update refused halfway) |
| `SpentCoversTheWindow` | 3 attempts delivered up to 4 times, a window of 2, 2 caps |
| `FactsAreEvidenced` | 2 requests, 1 rejected field, 1 upgrade, 1 restart |
| `AliasesAreReversible` | lists of up to 4 tools whose names collide once sanitized |
| `BodiesAreAcceptable` | `MarksAreLegal` (a limit of 4, bodies with up to 6 marks of their own), `ThinkingIsAcceptable` (budgets and limits around the least one), `BodiesAreWithinLimits`, `RefusedIsDrained`, `DoorsAgree` (sizes up to 4 units, a deadline of 1) |

`Receipts` leaves out the JSON answer of a native turn, whose writing is not
behind the barrier that makes the property true (section 5).

**Payloads.**

| Property | Components' properties |
|---|---|
| `StreamsAreWhole` | `CompletionIsCertified`, `ChunksDoNotMatter`, `NothingIsDropped`, `RetryIsInvisible`, `WithheldIsBounded`, `DecodedFaithfully`, `ChatIsTold`, `StreamIsGrammatical` |
| `RecordsAreSound` | `ReplayIsAccountedFor`, `PreviousIsTheLatest` (Claude memory), `JudgedByItsOwn` (outcomes), `AccessIsSound` (three parts: keys, sockets, sockets of shares), `QuotasAreHonoured` (three parts: reports, bulk caps, policies), `ChargesAreSound` |
| `HistoryIsKept` | `HistoryIsKept` (Chat), `NothingIsCompactedAway`, `ReplacedByAWhole`, `RequestIsKept` (Codex), `ToolsAreKept` (tools and their schemas) |

These begin in about 47,000 inputs, those of `Services` in 36,000: every body,
list, history or report of up to two or three elements over the alphabets defined
in the two modules, which hold for each rule of the code a value on either side of
it.

**Why the bounds are enough.** The hazards are between pairs: a stale and a
current attempt, a probe and a late failure, two callers of one refresh, two
requests at one cap, two names that become one; three where a pair meets a
bystander (the pacer's queue, the host's threshold, the settlement that pushes
another out of a window of two). Thresholds are 2, so that "almost" and
"reached" both occur; tables hold one row, so that eviction happens under those
who use it; clocks pass every interval once. Generations, epochs and counts of
operator's acts are capped in guards above what those behaviours use. In
`Dispatch`, `MaxAttempts` is 2 instead of 8: one failover and one exhausted
budget. Symmetry is used for attempts, requests and callers, which the code does
not tell apart, and never in a run with a liveness property.

**Fairness.** `Pacer` assumes weak fairness of the clock, the timer and the
microtask: the event loop runs what is due. `Dispatch` assumes weak fairness of
each request's next step: each await in it is bounded, by deadlines for
credentials, headers and bodies and by the age limit of the pacer's queue.
Clients, operators and failures are under no obligation. The other runs check
safety and assume no fairness.

## 4. What is proved

TLC checks small instances; these theorems hold for every value of the constants
that the named assumptions admit. The bounds of the runs are guards, so a theorem
holds whatever they are.

### Account health

`UpstreamHealthProofs`, for every number of attempts, keys, cooldowns, intervals,
thresholds and bounds:

| Theorem | Property |
|---|---|
| `TypeCorrect` | `TypeOK` |
| `OnlyTheProbeIsAdmitted` | `CooldownAdmitsOnlyTheProbe` |
| `ProbesEndWithTheirCooldown` | `ProbeImpliesCooldown` |
| `OneOwnerPerCircuit` | `HalfOpenHasOneOwner` |
| `PlannerAgrees` | `PlannerAgreesWithBegin` |
| `StaleAttemptsDoNotJudge` | `ReplacedCredentialsAreNotJudged` |
| `LateSuccessLiftsNothing` | `SuccessLiftsOnlyOlderCooldown` |
| `OpenCircuitsWaitForTheirProbe` | `OpenClosesOnlyThroughProbe` |

All rest on `Invariance`, that `IInv` is inductive. None of the properties is
inductive alone, because each forgets why a lease cannot act. `IInv` adds these
facts. Leases are old: no lease carries a generation above the account's, nor a
circuit generation above the sequence, so that an increment fences every lease
handed out. A row and the leases on it agree about who may decide it: a
half-open row's generation is held by at most its probe, an open row's by
nobody. And the disk is hardly behind: it differs from memory only in what a
refused begin changed, so that what a crash reloads, with no leases at all,
satisfies the same facts. `LeasesAreOfTheirEpoch` and `ProbesFollowTheCooldown`
carry the two action properties: a lease that is still current uses the stored
credentials, and began no earlier than the cooldown it could lift. A settlement changes at most the row of its lease's key, only if
the generations match, and whatever then needs an owner gets a generation that
nobody holds (`CircuitStep`); each action's case follows from that.

Assumptions: `HealthAssumption` (what a cooldown can be; intervals, thresholds
and the circuit limit are positive; bounds are naturals) and `NoLeaseAssumption`
(the mark of an empty slot is no lease).

### Pacer

`Pacer`, for every finite set of requests, every set of models, every policy and
every bound:

| Theorem | Property |
|---|---|
| `PacerTypes` | `TypeOK` |
| `NobodyIsForgotten` | `WakeUpInTime` |
| `IntervalsHold` | `StartsAreSpaced` |
| `OrderHolds` | `FirstComeFirstStarted` |
| `DeadlinesHold` | `NoStartAfterDeadline` |

All rest on `QueueIsSound`, that `IInv` is inductive. Methods of the pacer are
operators on a state record, so the argument has two halves. What `schedule()`
does of any state is proved without the invariant: with pacing off it starts
whoever waits (`UnpacedScheduleIs`); with pacing on it expires who is overdue and
then either starts nobody, or starts one waiter that is ready, in time and first
of its model, and leaves a microtask or a timer at the earliest moment anybody
can expire or start (`PacedScheduleIs`). The invariant then says what it needs:
an account in use is `Sound`, which is that the queue holds exactly those who wait
(`Linked`), under numbers that are distinct and below the next one (`Numbered`),
that what is remembered of starts bounds all of them (`Remembered`), even though
the code drops the memory of models without an interval, and that starts were
spaced (`Spaced`). `Remembered` is what `StartsAreSpaced` lacks to be inductive,
and `Numbered` what the order needs. A removed account or a closed pacer is
`Quiet`: nobody waits and nothing is armed. Each handler has one lemma
(`AbortIsCareful`, `SetPolicyIsCareful`, ...). That a finite or infinite set of
moments has an earliest one follows from the well-foundedness of the naturals.
The only assumption is `PacerAssumption`: requests are finite, policies are well
formed.

### Host health

`HostHealth` proves `OldEvidenceIsHarmless` (`EvidenceIsFenced`,
`ProbesBelongToOpenHosts`, `ProbeFlagHasAnOwner`) from `HostsAreFenced`, that
`Fenced` is inductive: no lease and no entry has a generation above the counter,
so a new generation makes every lease handed out worthless; a lease that still
counts, and each failure kept for a host that is not open, has seen every
response of that host; a probe flag is owned by a lease that counts. An entry
that is evicted and created again gets a new generation, which is why the counter
belongs to the component and not to the entry. Trimming a list of failures keeps
a part of it (`TrimmedIsPart`); that there is an oldest recent failure follows
from the well-foundedness of the naturals. `HostHealthAssumption`: options are
positive, and the mark of an empty slot is no lease. Leases carry a ghost, the
number of responses they began after; the code's generation never reads it.

### Model catalog

`CatalogsAreTheOwners`, `ListsAreCurrent` and `RefusedIsUnsupported` follow from
the inductive `CatalogInv`, for any accounts, models, discoveries and limits; the
proof is the section *Catalogs* of `ServicesMC`, part of `EvidenceStaysFenced`. `OwnersAreFenced`: generations of
credentials only grow, and a discovery or an entry of the present generation is
of the present owner; so a list that comes late is dropped. `CacheIsRemembered`:
an aggregated list was made of some choice of models, and an entry which still
has the revision in the list's key still has these models. Because every change
of an entry's models has a revision that nothing had before (`Renewed`), a list
whose key fits is what aggregating again would give. `CatalogAssumption`: the
bounds are natural numbers.

### Dispatch

`Dispatch`, for every finite set of requests of any kind, every set of accounts,
every policy of retries, resends and deadlines, every number of removals and
disconnects:

| Theorem | Property |
|---|---|
| `AdmissionsAreSettled` | `AdmissionsBalance` |
| `SharesAreReleased` | `ReservationsReturned` |
| `AnswersAreClosed` | `AnsweredIsClosed` |
| `CapsAreNearlyKept` | `OvershootIsBounded` |
| `SpentCapsHold` | `SpentCapStopsSending` |
| `LedgerIsKept` | `LedgerKept`, the refinement of `Ledger` |
| `DispatchIsTyped` | `TypeOK` |

The loop has many exits, and each must give back what its request took. The
proofs reduce them: whatever a request does between two awaits, to the accounts
and to the share it either keeps what it holds, takes one more, frees one or,
where an exception leaves the loop, loses one, and to its row it makes one of
the moves of `RowMove`. `IInv` then relates where a job waits to what it holds:
a row is open, unpaid or running according to the job's place (`RowsFollow`),
admissions and reservations are exactly those of the jobs that hold one. It is
inductive (`BooksAreKept`), and the jobs that threw are what the properties
except (section 5). `CapsAreNearlyKept` needs `SpendingIsCapped`, which counts
what those who hold an account may still add: each was let in below the cap, so
a cap is passed by less than one charge for each request. It speaks of
Anthropic messages, the only requests that the loop checks against the cap, when
it chooses an account and again when it sends. `LedgerIsKept` is
the same decomposition read as turns of `Ledger`: each of a row's moves is one
abstract turn or a stutter.

`ParametersAssumption` says that requests are finite in number and parameters
are of their types, and that accounts are finite in number, for the largest of
their retry limits. `IInv` has a `Shape` of its own, which leaves a job's plan open;
`DispatchIsTyped` adds where the loop stands in it: the place and the round lie
within the candidates and the largest limit, the accounts tried are candidates. A
round's candidates are what a recursive function keeps of a list (`Among`), and
that it keeps only members is proved by the well-foundedness of the naturals
(see *Induction* below).

### Token refresh

`TokenRefresh` proves `RefreshIsSound` (`TypeOK`, `RefreshingHasAnOwner`,
`FailedIsRetried`) and `NoRefreshIsLost` (`NoLostRotation`) from one inductive
invariant, for every number of callers, attempts, fetches, replacements and
restarts. That the newest refresh token of a rotation is never lost takes all of
`TokensAreKept`: a caller that waits under the current epoch holds what is
stored; a fetch that uses the stored token is awaited by such a caller; accounts
that replace each other have different tokens; and the store is right, or a
caller that will make it right is about to resume, with an answer that is right.
`RefreshIsOwned` says who ends a status `refreshing`, `RetryIsArmed` that a failed
refresh with attempts left has a timer, also between the failure and its record.

Assumptions: `NullAssumption` (the marks of absence are no values), and in
`TokenRefreshAssumption` at least two attempts. With one attempt `FailedIsRetried`
would be false, because the callback arms its timer before it counts (section 5);
the code has a constant of several.

### Native turns

`NativeTurns` proves, for every number of keys, lanes, runs, restarts and bounds:

- `TurnsAreFinished`: a receipt in progress belongs to a lane that will finish it
  (`RunningHasALane`), with evictions and JSON answers included. The invariant
  `LInv` adds that a lane which is neither late nor closed delivers either an
  event of its current turn or the end of the one before.
- `NoTurnRunsBlindly`: a turn is run again only with a history that has every item
  its client was shown (`NoBlindReplay`). The invariant `RInv` adds four facts.
  A turn is on one lane, which holds its lease while it can be answered
  (`TurnsAreLeased`). What is being written is in doubt, in memory and on disk
  (`WritesAreDoubted`), so that whatever a crash reloads is in doubt as well. A
  receipt without a doubt names everything its client received
  (`ReceiptsAreComplete`), in both places. And a lane at rest has nothing in doubt
  (`RestIsCertain`), so that its next barrier may add to the receipt.

The second has two hypotheses, which are the two ways in which the code breaks
the property (section 5): `KeysFit`, no more keys than receipts are kept, as an
evicted receipt takes its fence with it; and no JSON answers, which are written
without the barrier. `NativeTurnsAssumption` says that bounds are positive.

### Many components together

`ServicesMC` proves every property of its run but the type invariant, for every
value of its constants:

| Theorem | Property | From |
|---|---|---|
| `RotationsAreKept` | `NoLostRotation` | `TokenRefresh!NoRefreshIsLost` |
| `LanesFinishTheirTurns` | `RunningHasALane` | `NativeTurns!TurnsAreFinished` |
| `TurnsAreNotRepeatedBlindly` | `NoBlindReplay` | `NativeTurns!NoTurnRunsBlindly` |
| `SavesAreDurable` | `SavedIsDurable` | `CacheIsTheTable`, `AccountsInv` |
| `EvidenceStaysFenced` | `EvidenceIsFenced` | `UpstreamHealthProofs!OneOwnerPerCircuit`, `HostHealth!OldEvidenceIsHarmless`, `QuotaInv`, `CatalogInv` |
| `StreamsTellOneStory` | `OneStory` | `StoryInv` |
| `HandlersLeaveNothing` | `RoutesLeaveNothing` | `RequestInv`, `RawInv`, `CompatInv`, `ExchangeInv` |
| `PinsStayHonest` | `PinsAreHonest` | `RoutingInv` |
| `FactsStayEvidenced` | `FactsAreEvidenced` | `LearningInv` |
| `TurnsKeepTheirBooks` | `TurnsGiveBack` | `RelayInv`, `LaneInv` |
| `SpendingIsCovered` | `SpentCoversTheWindow` | `SpendingInv` |
| `NamesAreGivenBack` | `AliasesAreReversible` | `NamesInv` |
| `BodiesStayAcceptable` | `BodiesAreAcceptable` | `ClaudeMarks!MarksInv`, `ParametersInv`, `IngressInv` |

`part` never changes, and a step of the composition is a step of its part, so
that what a component's specification promises holds while the part is its own:
four theorems carry a component's theorem over, and the cache marks are proved in
`ClaudeMarks`. For the other seventeen components
the inductive invariants are defined in their modules and proved here, in one
section each; such a section is written over `x1`, `x2`, ..., with a key to them
at its head. These sections come before the composition and use only their own
component; the rest of the module is the model that the run checks. The only
assumptions are the components', in `ParametersFit`, `QuotasFit`, `CatalogsFit`,
`FactsFit`, `SessionsFit`, `SpendingFits`, `NamesFit`, `SuffixesFit`, `LimitsFit`,
`StreamsFit`, `LaneFits`, `TurnsFit`, `BodiesFit`, `AccountsFit` and `RecordsFit`.

- **Quotas** (`QuotaInv`). A quota is stored only under the epoch that its reader
  expects. That it is the present owner's needs `Held`: tokens are their owner's,
  a reader knows no epoch that is yet to come, and if the account is still at the
  epoch it read at or expects, then the token it holds is the present owner's. The
  refresh of a token inside the read, by this reader or another, is the hard case:
  it has a new epoch but the same owner. Compass accounts are excepted, as in
  the property: another project of the same key leaves the epoch as it is.
- **Records** (`CacheIsTheTable`). Because the cache of what is believed to be
  stored is what is stored, a save that writes only the differences to it writes
  what a full save would (`OnlyDifferencesMatter`), and rows of requests in
  flight, which are never written, are never expected.
- **Accounts** (`AccountsInv`). An update works on the live record, so one that is
  refused halfway leaves it open, with the other half of its input in it; the
  invariant says that nothing else differs from disk (`OnlyTornDiffer`) and that
  such a record stays open until it is removed or read again (`TornAreOpen`). What
  a restart finds is sound only if no save of another operation wrote the open
  record before (section 5): `PoliciesAgree` speaks of the seats of a workspace on
  disk under that condition, and of the live ones when nothing is torn. An identity that
  a lookup finds belongs to the token that was asked with, and is saved only if
  the record still holds that token under its epoch. `AccountsAssumption`: every
  token has an owner, a person and a derived id, there is at least one epoch, and
  the mark of absence is no record and no lookup.
- **Sessions** (`RoutingInv`). A pin's spend never exceeds what its session
  settled on its account: moving a pin starts it at zero, and what settles late on
  the account it left is not added. `Placed` says that a request for a named
  account has a plan of that account or none, and was sent to no other.
- **Facts** (`LearningInv`). What an entry has counted was seen: its last
  observation is one of those noted, and if it counted more than one, two
  independent ones of its generation and of this build's protocol are. A fact on
  disk has such evidence under its own fingerprint, so that neither an upgrade nor
  a reset of another build's fact takes it away. `LearningAssumption` says that a
  fact takes more than one observation; with one there would be nothing to prove
  it from.
- **Streams** (`StoryInv`). `StorySoFar` says for each phase of a stream what was
  seen, measured, told and booked by then: before its end nothing is booked, and
  between two events health, result and answer agree. `OneStory` speaks of the
  end alone. Left out are the answer without a body, which `Dispatch` and
  `Request` have, and books that cannot be written (`proxy.js:2601`).
- **Requests** (`RequestInv`). `HeldOnTheWay` says what a handler holds at each of
  its awaits (a row, a receipt, an admission, a reservation, a pin); each step
  from there closes what it leaves behind. A stream without a body
  (`StreamBodiless`, `proxy.js:2258`) closes its row and receipt only, so
  `NothingStaysOpen` excepts the admission and the reservation of exactly that end.
- **Raw and compatibility requests** (`RawInv`, `CompatInv`). The same for any
  number of requests: `OnTheirWay` says that of a request's admissions only the
  current one can be open, that only a request at the provider or an orphaned one
  has it open, and that a reservation is open until the request is over. A raw
  request whose account was removed ends where its settlement throws
  (`AccountIsGone`, `store.js:999`): `NothingIsLeft` excepts its reservation and
  demands that an account was removed. A compatibility request loses none, since
  its caller releases the reservation in a `finally` (`compatibility.js:64`).
- **Exchanges** (`ExchangeInv`). One abort signal serves a request from its
  first wait to the last byte. Up to the headers it listens and nobody reads
  (`BeforeTheHeaders`); then it belongs to the body that is put in place of the
  provider's, which lets go of it however it ends (`StreamOwnsTheSignal`). While it
  listens it knows of a client that left (`SignalKnows`). Whoever reads has a body,
  and a reader that is done has ended it (`ReadersHaveABody`); an exchange that
  threw holds nothing and says why (`ThrownIsOver`); every byte is with the provider or
  with the reader (`BytesAddUp`). `LimitsFit` (as `BodiesFit`): sizes are natural
  numbers, and of a compressed answer at least a byte is collected.
- **Relay** (`RelayInv`). A retry and a renewal settle the admission before they
  take one, a message overwrites it (`Acquire`, `proxy.js:3473`), and the renewal
  does not ask whether its turn is still active (`proxy.js:3811`). So admissions
  are lost, and `AdmissionsAccounted` says which: an account has the active turn's
  and those counted in `late`, no other. It is inductive because a turn begins
  only when none is active, and then every admission is a late one; a step that
  ends a turn settles the one that is remembered. `ShareFollowsTurn` is inductive too: a
  turn begins only when none is active, hence nothing reserved; a retry moves the
  reservation to the next attempt; a resend of a share keeps its attempt. Without
  a share a resend counts on, so the invariant adds that nothing is reserved then.
- **Native lane** (`LaneInv`). The current turn is the last one, and so is the
  predecessor that a successor follows, hence no turn has two successors. A turn's
  epoch is at most its socket's, and that at most the account's; so a successor
  that finds its predecessor's epoch still current is of the same credentials,
  whatever sockets came between. `SuccessorsAreAsked` needs an account of every
  control: it is unanswered, or allows a successor, or has had it
  (`ControlsAreSpent`).
- **Spending** (`SpendingInv`). An attempt's answer may be delivered again with
  another cost, and what the window forgot meanwhile is charged in full again; so
  what was spent is not the sum of anything that is still known, only never less
  than the sum of what is remembered of the period. Each settlement changes one
  summand and charges the difference, at least; forgetting only takes summands
  away, whichever of several equally old ones go. The lemmas on sums over finite
  sets are proved first.
- **Tool names** (`NamesInv`). An alias is taken only when nobody has it and no tool
  is called so (`AliasesAreApart`), so two names that become one when sanitized
  are still sent apart, and what a call's name stands for is its tool.
- **Cache marks** (`MarksInv`). The four passes are stated on the set of places of a
  body, in the provider's order. That enforcing leaves at most so many marks
  needs a fact about orders: of n elements at least k have fewer than k before
  them (`RanksFill`), so the n - Limit that go first are indeed removed. That
  normalizing leaves no hour behind five minutes holds for any body, hence also
  after the operator's rules, and enforcing keeps it. A request on the "open"
  path is repaired only when it has no marks; the invariant says that one which
  came without any has at most the one a rule gave it.
- **Thinking** (`ParametersInv`). What normalizing leaves for the suffix: no
  "enabled", and a `max_tokens` that is the caller's or the default.
- **Ingress** (`IngressInv`). A body under way is acceptable so far; a refusal on
  the way drains the rest, except behind a decoder.

### Induction

The theorems of the library for induction over data take an operator as a
parameter and cannot be used. `NatLessThanWellFounded` and `WFMin` can: a set of
naturals that holds 0 and with each number the next holds all (`NatsAreReached`),
and a set of numbers has a least (`OneIsLeast`). With these the modules prove
what functions defined by recursion on the naturals and on lists compute
(`Among` in `Dispatch`, the aggregated lists of the catalog), sums over finite
sets, and ranks. `SelectSeq`, `SortSeq` and the folds of the community modules
are out of reach: they are RECURSIVE or rest on an operator that is.

### What is only checked

Proofs stand at the end of the modules they are about, except those of account
health and of the last section. Only model-checked are:

- `TypeOK` of `ServicesMC`, a conjunction over its parts. The types of all but
  four are lemmas of theorems above; missing are those of the catalog,
  the sessions, the relay and the native lane, whose invariants need less.
- The four properties of `Payloads`. `ToolSchemas` is recursive in its data, as
  schemas are, so the module that instantiates it can hold no proof; and most of
  the others cut, filter and fold lists.
- Liveness: `EveryWaiterSettles` and `EveryDispatchEnds`.

## 5. Where code and documentation disagree

Each has a run whose counterexample shows it; `PROJECT.json` quotes the lines.

1. **Early probe lost** (`store.js:923`). `beginUpstreamAttempt` marks the probe
   in flight, then is refused by the model cooldown or the circuit; the flag
   stays, and the early probe promised by `README.md:462` is not permitted again
   in that cooldown.
2. **Replaced credentials overwritten** (`providers.js:298`). Refreshes are
   coalesced by account, not by token: a caller with new credentials joins the
   old refresh and stores its tokens under the new epoch (`README.md:490`).
3. **Unrecorded disconnect** (`proxy.js:1325`). A client that closes before the
   upstream's headers leaves its row in progress (`test/proxy.test.js:1267`).
4. **Refused turn sent later** (`proxy.js:3593`). A public WebSocket turn that
   the pacer refused stays in the relay's list of waiting frames and goes out
   with the next turn's connection (`README.md:528`).
5. **Another owner's quota** (`proxy.js:1729`). The epoch that fences the quota
   headers of an answer is read when the request is sent, after it waited for
   the pacer, while its authorization was built before (`README.md:325`).
6. **Credentials left in plain** (`store.js:281`). An update that is refused after
   it began leaves the live record decrypted; requests of the account then fail,
   and the next save writes it that way (`README.md:334`).

Observed while modelling. The models keep the code's behaviour, so properties
that would forbid it are stated with the exception or, where a document speaks,
kept beside the others as definitions that no run checks.

*Health and hosts*
- A late ordinary failure reopens a host's circuit and clears the probe flag
  without a new generation, so that a second half-open probe starts
  (`codex-host-health.js:108`; `OneHalfOpenProbe`, `CODEX_PROXY_TODO.md:194`).
- The settlement of a model cooldown has no generation fence (`store.js:1004`).
- A begin that is refused after changing the health record does not save it.
- A 403 told in a stream's event marks a Codex account for sign-in, an HTTP 403
  does not; a Claude 402 is quota in one and not in the other
  (`README.md:460`, `462`).

*Tokens, quotas and catalogs*
- The refresh callback arms a timer with attempt 1 that the last attempt leaves
  armed (`codex-token-refresh.js:72`; `AttemptsAreBounded`, `README.md:325`).
- A refresh that fails after a replacement blames the new credentials
  (`store.js:372`, `409`); a restart between a failed refresh and the end of its
  pass leaves the account to the six-hour recovery.
- A replacement's quota refresh joins the old owner's, and a rate-limit block of
  the old owner outlives it (`providers.js:165`).
- Every token refresh bumps the credential epoch (`store.js:488`), so evidence of
  a denial and permission for credits lapse with it.
- The session window of a Claude report hides an exhausted week; bulk rules
  compare credits with thresholds in dollars when dollars are unknown
  (`store.js:2239`); an update refused halfway keeps `allowProviderCredits`
  (`domain.js:574`).
- A discovery under way clears the refusal that happened meanwhile
  (`codex-model-catalog.js:305`; `README.md:458`).

*Requests and ledger*
- A Codex stream without a body never settles its admission nor releases its
  share (`proxy.js:2257`); the properties of `Dispatch` and of `Request` except
  this case.
- Removing an account under a request makes `settleUpstreamAttempt` throw
  (`store.js:999`) inside handlers of `dispatchCandidates`, `proxyRequest`
  (`proxy.js:353` to `463`) and of connection tests: reservation and row stay
  open. In `proxyRawRequest` (`proxy.js:2869` to `3002`) the reservation does,
  unless the pacer refused. `pinSession` and `bindNativeTurnUpstream` throw as
  well (`store.js:1224`).
- Undecryptable credentials and a payload that the request builder rejects throw
  with the row open (`proxy.js:970`, `1281`); after a 401, any exception of the
  retry is answered with the first 401.
- Settlements are remembered for the last hundred attempts (`domain.js:788`).
- The plan after a pin's rotation may put the prior account first all the same
  (`proxy.js:294`, `store.js:1244`; `RotationIsHonoured`, `README.md:553`).
- A 12-hour cache mark on a part of a tool's output is not seen by the pricing
  of cache writes (`WritesOfOutputsArePaid`, `pricing.js:120`); models count as
  priced by their standard tier, so a share request in another tier may be free
  (`SharesArePaidFor`, `README.md:115`).

*WebSocket and native turns*
- Queued turns starve after a handler refused one (`README.md:210`); a compaction
  that the pacer refuses leaves its row open; an exception of `credentials()`
  after activation blocks the queue.
- A turn may end while its credentials are refreshed: the client closes
  (`README.md:462`), the idle timer of an older socket fires (`proxy.js:3693`), a
  frame of an earlier turn is refused by the pacer. The refresh renews the
  admission all the same (`proxy.js:3811`) and the next message overwrites it
  (`proxy.js:3473`): the account keeps an admission that nobody settles.
- A message that is no `response.create` settles the active turn's admission and
  releases its reservation (`proxy.js:3826`), while the turn goes on.
- The end of a turn clears the idle timer, and a turn on the socket left open arms
  none (`proxy.js:4271`, `3821`): until the upstream sends a frame it never times
  out.
- A steering turn whose `beginGatewayAttempt` throws leaves its row open
  (`native-response-steering.js:74`); a control that was accepted without a
  successor refuses later turns.
- The JSON answer of a native turn is written without the barrier of a stream
  (`proxy.js:468`; `README.md:188`); more than a thousand receipts push fences
  out (`store.js:952`).
- A turn of which the client is told that it failed may end as a successful
  request (`FailedIsNotSuccessful`, `README.md:555`).
- A retry over WebSocket drops the fields of the learned fact in force, not those
  its own turn learned (`RejectedOnce`, `proxy.js:3629`); the fallback from
  adaptive thinking may send an identical request again (`proxy.js:1864`).

*Keys, accounts and records*
- An oversized frame permits its fallback before the marker is stored
  (`FallbackIsConfirmed`, `store.js:987`); a scope's status changes in memory
  before its models are refused (`store.js:126`); a key whose save failed works
  until the restart; a scope's models bind HTTP only (`proxy.js:215`); an import
  may stop halfway.
- Duplicated accounts are detected at creation only; removal leaves response
  pins; the identity lookup of replaced Claude credentials joins the old one's
  (`claude-protocol.js:257`).
- A request that began before a compatibility fact narrowed promotes a smaller
  fact again.

*Payloads*
- A schema loses `patternProperties` and keeps `additionalProperties: false`
  (`PatternsOnlyWiden`); a namespaced tool may be forced but not allowed
  (`AllowedLikeForced`); a client's own namespace with the reserved suffix comes
  back under another name; shortened ids may collide.
- A conversation's entry that expires under a turn starts again at sequence 0
  (`claude-protocol.js:345`); counting tokens does not repair the order of cache
  marks; a thinking budget may reach `max_tokens` when that is 1024 or less.
- Ids of calls are trimmed and those of their outputs are not
  (`openai-adapters.js:436`, `445`).
- A chat stream that ends with a call it could not name says `tool_calls`; the
  numbers a recovered prefix gives may exceed their own maximum; the native
  discard parser misses a separator cut between `\n` and `\r`; a compaction that
  sees an event after a quota failure answers 502; a plain body that does not
  look like JSON or HTML is refused under `content-encoding`.

## 6. Not modelled

- The user interface (`node/ui`), rendering and the routing table of
  `server.js`: I/O and layout; the doors and operations behind them are modelled.
- Wire headers, device profiles and diagnostic words of Claude
  (`claude-payload.js`, `claude-bip39.js`), citations and images: tables and pure
  formatting, without a rule that state or order could break.
- Offline tools that compare releases and captures with the gateway's tables
  (`codex-compatibility` intake, fixtures, release scripts).
- Database drivers, migrations, and the coordination of refreshes between
  processes over one database; pruning of history and reports over it.
- Local token counting, explicit pins, the upgrade handshake of WebSockets and
  the byte counts of their backpressure limits.
- The sharing store, which is not part of the repository.
- The Elixir application.

## 7. What is left

Models of the last two groups' stateful members: pruning against rows in use,
coordination between processes. Proofs: the type invariants
of four components of `Services`, and what of `Payloads` keeps state
(`ClaudeMemory`, `ClientAccess`).
