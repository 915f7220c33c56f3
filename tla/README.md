# Metapi: specifications, model checking and proofs

Metapi is a gateway in front of many AI API sites. A downstream client calls
one address with one key. A *surface* (chat, responses, Gemini, embeddings,
images, ...) authenticates the call, the *token router* picks one of the
channels (an account of a site, or a pool of OAuth accounts) that serve the
requested model, the surface talks to that upstream, books what happened and,
when the attempt fails, asks the router for another channel. Beside the
requests run timers: projection of the proxy logs into usage totals, probes,
check-ins, balance and token refreshes.

The server is one Node process (Fastify, drizzle). Code between two `await`s is
atomic; what interleaves are requests, timers and the operator's API calls. The
database is SQLite, PostgreSQL or MySQL behind one interface. On SQLite a
statement completes before any other callback of the process runs, apart from
promise callbacks already queued ("microtask" below); on the two servers every
statement is a round trip during which everything else may run, and several
processes may share the database.

Paths below are relative to `src/src/server/` unless they start with `docs/`
or `README`.

Contents: 1 Inventory · 2 Plan · 3 Modules and code · 4 Runs ·
5 Fairness and assumptions · 6 Proofs · 7 Disagreements found · 8 Not modelled

## 1. Inventory

Each entry names what the component keeps, what changes it, whom it talks to,
what is hard, and what makes it correct. `PROJECT.json` has the same list with
a status, and under `hazards` the places where each one may go wrong.

### Modelled

**Proxy channel coordinator** (`services/proxyChannelCoordinator.ts`).
State: `channelRuntimeStates`, a map from channel to an object with the active
lease ids and a waiter queue; a timer per waiter and per lease; sticky bindings
from session to channel. Operations: `acquireChannelLease`, `release`, `touch`,
`drainQueue`, the two timers, `bind/get/clearStickyChannel`. Callers: every
surface; the limits are settings the operator changes while it runs. Hard:
leases and timers capture the state object while the drain looks it up again;
limits move under leases and queues; release, queue timer and expiry race.
Correct when slots are never over-granted, never lost, given in order, and
everyone who waits is told something.

**Usage projector** (`services/usageAggregationService.ts`,
`services/logCleanupService.ts`). State: one checkpoint row (watermark,
requested recompute, lease token and expiry) and three usage tables, fed from
`proxy_logs`. Operations: the pass (acquire, read, recompute, fetch and apply
batches, release), `requestUsageAggregatesRecompute`, the log cleanup. Hard:
every statement may fail, the process may die, two processes share the row,
logs are deleted under a pass, ids are neither commit order nor the order of the
days on a server. Correct when each log is counted exactly once, for good.

**Request failover loop** (`proxy-core/surfaces/chatSurface.ts`,
`sharedSurface.ts`, `proxy-core/channelSelection.ts`, selection and bookkeeping
in `services/tokenRouter.ts`, `services/proxyChannelRetry.ts`). State: per
request the excluded channels and the retry count; per channel, or per pool
member, the failure counters and `cooldownUntil`. Operations: select (pinned,
sticky, any, after a route refresh), lease, exchange, `recordSuccess`,
`recordFailure`, retry. Hard: bookkeeping of concurrent requests on one
channel, pools that may be tried again, responses already on the wire, leases
that must come back at every exit. Correct when each request ends, with no
channel tried twice, blame on the subject that failed, cooldowns that hold, and
no refusal while something was left to try.

**Site runtime health and breakers** (`services/tokenRouter.ts`). State: an
entry per site and per model on a site (failure streak, breaker level, time
until which it is open, penalties), one settings row, the load promise, the
debounce timer, the slot of the running persist. Operations: load on first use,
`recordSiteRuntimeFailure/Success`, the debounced persist,
`clearChannelFailureState`. Requests, probes and the operator call them. Hard:
a load that fails, outcomes that arrive while it runs, the shared persist, a
restart. Correct when breakers are earned by failures, the memory is that of the
row plus what happened since, and a clear clears.

**Route table and match caches** (`services/tokenRouter.ts`). State: one
snapshot of the enabled routes with the sources of groups, one match (route and
channels) per route. Operations: `findRoute`, `loadEnabledRoutes`,
`loadRouteMatch`, the patches of bookkeeping, the invalidations after writes of
the routes API and of the rebuild. Hard: loads that overlap writes and
invalidations, one channel in two matches, matches built from cached routes.
Correct when nothing that ceased to hold is offered for longer than the
lifetimes allow, and an invalidation takes effect.

**Snapshot caches** (`services/snapshotCacheService.ts`). State: entries in
order of use, a mark for a load in flight, a persisted copy. Operations:
`readSnapshotCache` (fresh, stale, joined, loaded, forced), `clearSnapshotCache`.
Hard: loads that overlap clears, evictions and each other. Correct when a reader
that joins joins a load of its key that is still running.

**Background tasks** (`services/backgroundTaskService.ts`). State: records,
dedupe keys, log counters. Operations: `startBackgroundTask`, `runTask`,
`appendBackgroundTaskLog`, the sweep of expired records. Hard: the key is freed
after a notification, the sweep does not look at the status. Correct when a key
runs once at a time and logs are the last numbers of their counter.

**Site API endpoint pool** (`services/siteApiEndpointService.ts`). State: rows
with a cooldown and the time of the last success. Operations:
`runWithSiteApiEndpointPool` with its selection and bookkeeping, and the edit of
the site, which replaces the rows. Called inside one attempt of a surface, and
by discovery and balance calls. Hard: concurrent requests set and clear each
other's cooldowns. Correct when no endpoint is called twice by a request and
none that stayed ready is left out.

**OAuth and managed token refresh** (`services/oauth/refreshSingleflight.ts`,
`oauth/service.ts`, the `sub2api*` services, `modelService.ts`,
`balanceService.ts`). State: the rotating refresh token in the account's
`extraConfig`, a map of flights. Operations: the single flight, the exchange,
and everyone who reads `extraConfig`, works with the site and writes it back.
Hard: a token may be presented once, and writers write back what they have read.
Correct when the stored token is the one the provider accepts.

**Model discovery, availability probes and route rebuild** (`services/modelService.ts`,
`services/modelAvailabilityProbeService.ts`). State: availability rows per
account, the routes and channels built from them, the promise of a full refresh,
the account leases of probes. Operations: discovery of an account (clear, ask,
insert, restore), the manual check, account and filter edits, the probe pass, and
`rebuildTokenRoutesFromAvailability`, statement by statement. Hard: rebuilds
overlap without a transaction, a single flight or a unique index; rows vanish
while an account is discovered; passes break off. Correct when the routes are
those of the available models once a rebuild had the tables for itself.

**Channel recovery probes** (`services/channelRecoveryProbeService.ts`,
`recordProbeSuccess` in `services/tokenRouter.ts`). State: the sweep in flight,
the time each channel was last probed. Operations: the sweep (candidates, batch,
probe after probe, booking), beside requests that lease channels and book. Hard:
a batch of four from candidates with two windows; a success clears the cooldown
of all channels with the credential. Correct when no due channel is starved.

**Codex session runtime** (`proxy-core/runtime/codex*.ts`,
`routes/proxy/responsesWebsocket.ts`). State: a session object per session and
scope with a promise chain and an upstream socket; a bounded store of response
ids. Operations: `sendRequest` with reuse, replacement and retry, `closeSession`
when a client connection ends, socket events. Hard: a close against turns of the
same session, errors that replace sockets, ids kept under two keys. Correct when
every open upstream socket has an owner that will close it, and the next turn
continues from the last answer.

**OAuth logins** (`services/oauth/service.ts`, `services/oauth/sessionStore.ts`,
discovery in `services/modelService.ts`). State: a store of login sessions with a
TTL, the account row of an identity, its model rows. Operations: start a flow (a
new login or a rebind), the callback from the listener or pasted by the operator,
the import, and what they share: find or insert the account, discover its models,
activate it, rebuild the routes, or put everything back. Hard: the row is written
before the rest is known to work, without lock or transaction; logins of one
identity overlap each other, refreshes and the operator. Correct when the account
ends as the answer says.

### Not modelled

**Callback listeners and route units** (`services/oauth/localCallbackServer.ts`,
`routeUnitService.ts`). One listener per provider; pools of accounts as rows.

**Check-in, balance and summary schedulers** (`services/checkinScheduler.ts`,
`checkinService.ts`, `balanceService.ts`, `dailySummaryService.ts`). Cron and
interval timers. Hard: an interval pass longer than the interval. Correct when
an account is checked in once per day.

**Other surfaces** (responses, Gemini, files, embeddings, images, videos,
completions, search): the loop of the chat surface with other formats.
**Endpoint flow and endpoint memory** (`proxy-core/orchestration/endpointFlow.ts`,
`services/upstreamEndpointRuntimeMemory.ts`): which protocol endpoint of one
site is tried first, inside one attempt. **Account tokens and downstream
keys**, **proxy logs, files and video tasks**, **notifications**: writes of
single rows, policies that are functions of one row. **Backup, factory reset,
database migration**: bulk copies. **Database layer**: three dialects behind one
interface. **Update center**: polls and asks a helper. **Transformers and
platform adapters**, **outbound proxies and site access**: data and I/O.
**Desktop and web clients**: no shared state of the gateway.

## 2. Plan

Order: what every request depends on first, then what feeds it.

| # | module | about | state |
|---|---|---|---|
| 1 | `ChannelLease`, abstract `SessionSlots` | leases, queue, timers, runtime limits | done, safety and refinement proved |
| 2 | `UsageProjection`, abstract `UsageLedger` | lease, checkpoint, batches, recompute, crashes | done, safety and refinement proved |
| 3 | `ChannelFailover`, abstract `RequestContract` | retry loop, stickiness, cooldowns, pools | done, safety and refinement proved |
| 4 | `SiteRuntimeHealth` over `RuntimeHealth`, abstract `HealthBook` | breakers, persist slot, first load, clear, restart | done, safety and refinement proved |
| 5 | `RouteCache` | loads, patches, invalidations | done, proved |
| 6 | `SnapshotCache` | stale-while-revalidate, force, clear, bound | done, proved |
| 7 | `BackgroundTasks` | dedupe keys, expiry, logs | done, proved |
| 8 | `SiteEndpoints` | rotation, cooldown per endpoint, edit | done, proved |
| 9 | `ManagedTokens` | single flight, rotation, writers of `extraConfig` | done, safety proved |
| 10 | `RecoveryProbe` | sweep, windows, batches, what a success clears | done, proved |
| 11 | `CodexSession` | promise chain, socket, close, response ids | done, proved |
| 12 | `ModelRoutes` | discovery, probes, edits, rebuild | done, proved |
| 13 | `OAuthLogin` | sessions, callbacks, imports, upsert, discovery, the way back | done, proved |
| 14 | schedulers | cron and interval timers, overlapping check-in passes | open |

Modules 4 and 5 refine what 3 leaves open (which available channel wins, and
from how old a match), 8 opens up its exchange, 9 the credentials it uses, 10, 12
and 13 are actors beside it: who ends cooldowns early, and who replaces the channels.
They are kept apart: the failover loop takes what they decide as a choice (a
cooldown may end at any time), so its properties hold whatever they do. 10 keeps
rows of its own because what it decides depends on times, which 3 abstracts.

Every safety invariant and action property that a passing run checks is a theorem by
now. Worth stating next: abstract specifications for the services, which have none,
and refinements of them.

## 3. Modules and code

The TLA+ names follow the source; `PROJECT.json` maps every definition to its
lines. Operators commented as mutants are deliberately wrong versions of the
definition below them, used to see that each property can fail.

### ChannelLease

| model | code |
|---|---|
| `current[c]` | `channelRuntimeStates` |
| `active`, `queue` | `activeLeaseIds` and `queue` of each state object |
| `captured[r]`, `chan[r]` | what the closures of a lease or a waiter refer to |
| `phase[r]` | where the caller is: waiting, holding, expired under its holder ("overdue"), refused |
| `limit`, `queueing` | the two settings, read again at every use |
| `AcquireUnguarded/Slot/Refused/Queued` | the four outcomes of `acquireChannelLease` |
| `WaitTimeout` | the waiter's timer |
| `Release`, `Expire` (`EndLease`, `Woken`, `Settled`) | `release()` with `drainQueue` and `maybeDeleteChannelRuntimeState`; the expiry timer |
| `Finish` | a release that changes nothing |
| `SetLimit`, `SetQueueing` | the settings route |

State *objects* are modelled with identities, so that a reference to an object
which the map no longer names is a state the model could reach. A request holds
one lease at a time and stands for its lease id. Keepalives (`touch`) rearm the
expiry: with `KeepaliveInTime` they always come first. Sticky bindings of the
same file are in `ChannelFailover`.

### UsageProjection

One action per database statement or transaction of a pass. `row` and `live`
are the checkpoint row, `copy[p]` the `checkpoint` object a pass carries along
and writes back whole, `found`/`bound` what its last SELECT returned, `logs`
and `deleted` the visible and the deleted rows of `proxy_logs`. `counted[i]`
stands for the usage tables: how often log `i` is in the sums of its day. A log
is its id; `CreatedAt` and `DayOf` are constants that give its `createdAt` and
the local day of that, a later time never lying on an earlier day. Neither has to
follow the ids: `createdAt` is taken before the insert that draws the id.

| model | code |
|---|---|
| `AcquireLease`, `ReleaseLease`, `LeaseExpires` | `tryAcquireProjectionLease`, `releaseProjectionLease`, the clock |
| `ReadCheckpoint` | the pass's read of the row |
| `ReadAffectedLog`, `ReadRestartLog`, `ApplyRecompute` | the two SELECTs and the transaction of a recompute |
| `FetchBatch`, `ApplyBatch` | the batch SELECT, the batch transaction and the loop's end |
| `StatementFails`, `AbandonPass` | a throwing statement; a crash, or a release that throws too |
| `ReadForRequest`, `WriteRequest` | `requestUsageAggregatesRecompute`: read, and write the row back |
| `LogArrives`, `CleanUpLogs` | insert becomes visible; daily or manual deletion of what was created before a cutoff |

### ChannelFailover

A *subject* is what carries failures and cooldowns: an ordinary channel, or a
member account of a pool (a channel in `Units`). One action is the code between
two awaits whose order matters.

| model | code |
|---|---|
| `pc`, `tried`, `result` | the surface's loop, `excludeChannelIds` and `retryCount`, the reply |
| `SelectForced`, `SelectSticky`, `SelectAny`, `AfterRefresh` | `selectProxyChannelForAttempt` |
| `Available`, `Choices`, `CandidateMembers`, `Precedes` | eligibility, priority layers, `selectRouteUnitMember` and its order |
| `AcquireLease`, `LeaseTimesOut`, `ReleaseLease` | `acquireSurfaceChannelLease`, the queue timer, the `finally` |
| `FirstByte`, `Succeed`, `UpstreamFails`, `StreamFails`, `StreamBreaks`, `CannotWrite` | the exchange and its exits |
| `Fails`, `ChargeFailure` | `recordFailure`: its read, and its write with the retry decision |
| `SuccessLands` | the write of `recordSuccess`, which nobody awaits |
| `CooldownEnds`, `AvoidanceEnds`, `BindingExpires` | times that pass |

`OneStepRecords` says whether bookkeeping is atomic (SQLite) or reads and
writes in separate round trips. Weights, costs, recent load and open breakers
decide which available channel wins, so `Choices` offers any of them; time is
abstract, so a cooldown may end at any moment, and cooldown *lengths* are not
told apart. The lease is simplified to a counter per channel: `ChannelLease`
has the details. `balance` and `uncooled` are history variables the properties
need; no action reads them.

### SiteRuntimeHealth, RuntimeHealth

`RuntimeHealth` has what one outcome does to one entry, as functions;
`SiteRuntimeHealth` the state around it.

| model | code |
|---|---|
| `health` | `siteRuntimeHealthStates` and `siteModelRuntimeHealthStates` in one map |
| `saved`, `draft` | the settings row; the payload of the last write |
| `load` | `siteRuntimeHealthLoadPromise` and `siteRuntimeHealthLoaded` |
| `timer`, `slot` | `siteRuntimeHealthSaveTimer`, `siteRuntimeHealthPersistInFlight` |
| `AwaitLoad`, `LoadEnds`, `LoadFails` | `ensureSiteRuntimeHealthStateLoaded`, `loadSiteRuntimeHealthStateFromSettings` |
| `Arrive`, `Record` | `recordSuccess`, `recordFailure`: the await, and the outcome booked after it |
| `Persist`, `TimerFires`, `WriteEnds`, `WriteFails` | `persistSiteRuntimeHealthState`, its timer and its settings write |
| `ClearArrives`, `ClearRows`, `ClearHealth`, `ClearEnds` | `clearChannelFailureState`, between its awaits |
| `Crash` | the gateway ends and starts again |

The slot has four values because the code never empties it: a promise that has
settled stays in it. Which entries `shouldPersistSiteRuntimeHealthState` skips
depends on ages of hours and days: none is skipped here. Penalties, latency and
recent outcomes are left out. `misses`, `degraded` and `cleared` are history.

### RouteCache

| model | code |
|---|---|
| `db` | routes that are on, sources of groups, channels, who is cooling |
| `routeCache`, `matches` | `routeCacheSnapshot`, `routeMatchCache` |
| `reader[x]` | one request inside `findRoute` / `findRouteById`, and what it has read |
| `Find`, `ReadRoutes`, `ReadSources` | `loadEnabledRoutes`: fresh, or two SELECTs |
| `LookUp`, `ReadChannels`, `StoreMatch` | `loadRouteMatch` |
| `Book` | the row and the cache as a failure or a success leave them |
| `WriteRoute/Source/Channel`, `InvalidateTokenRouterCache` | the routes API: rows first, the invalidation when all are written |

`Book` writes the row and patches in one step. `patchCachedChannel` stops at the
first match in map order; here it may be any that holds the channel. A cooldown
is on or off.

### SnapshotCache

`entry[k]` is the map's entry: when the payload was generated and which load
marks it; `order` the order of the map's keys, which every use
renews, as the pairs of keys of which the first was used less recently. A reader runs
`Ask` (and `ReadCopy` after the persisted read), then is served or joins; a load
runs `LoaderReturns` or `LoaderThrows`, then `CopyWritten`. The time a reader
decides by is that of its call, as in the code.

### BackgroundTasks

`record`, `dedupe`, `logSeq` are the three maps, `stage` is where `runTask` is.
`SetTaskStatus` puts a record back that the sweep has dropped, as
`setTaskStatus` does; the copy it falls back to is the one from the start.
`Sweep` may take any task: keep times are not compared. Starting with a key that
is taken changes nothing and is no step.

### SiteEndpoints

`endpoint` are the rows, `caller` the requests inside
`runWithSiteApiEndpointPool`. `Select` is the read and the choice, `Succeeds`,
`FailsForGood`, `Rotate` the three ways on after a call, `EditSite` the
transaction of the site form. An update of a row that is gone changes nothing.

### ManagedTokens

| model | code |
|---|---|
| `stored`, `valid` | the token in `extraConfig`; the one the provider accepts |
| `inFlight`, `flight[f]` | `refreshInFlight`; one run of `refreshOauthAccessToken` or `refreshSub2ApiManagedSession` |
| `worker[w]` | a discovery, balance refresh, refresh pass or proxied request, with the token in the row it read |
| `Refresh` | the single flight: join, or start |
| `ReadForRefresh`, `ProviderAnswers`, `ProviderRefuses`, `AnswerLost`, `StoreRefreshed` | the refresh, between its awaits |
| `Resume`, `Reread` | how workers go on: with the returned `extraConfig`, or with the row read again |
| `WriteBack` | `updateOauthModelDiscoveryState`, the update of `refreshBalance` |

Tokens are numbered in the order they are issued; the provider accepts the
newest. `kind` chooses between OAuth (the refresh reads the row) and sub2api (it
uses what its caller has read).

### CodexSession

| model | code |
|---|---|
| `online`, `inbox`, `turn`, `keys` | a client connection: open, `messageQueue`, the message being handled, `runtimeSessionKeys` |
| `sessions`, `queue`, `socket` | `sessionStore`; `session.queue` and `session.socket` of each object |
| `upstream` | every upstream socket with its state, and the session its handlers belong to |
| `closer` | the `closeSession` calls of a connection that ended |
| `responseIds`, `idOrder` | `codexSessionResponseIds`: the entries of the map, and their order |
| `HandleNext`, `HandledElsewhere` | a message gets its channel; nothing of the session is used |
| `SendRequest`, `Start`, `Replaced`, `DialOpens`, `DialFails` | `sendRequest`, `ensureSessionSocket`, `closeSocket`, the dial |
| `Answer`, `ErrorEvent`, `SocketLost`, `UpstreamCloses` | the events of the upstream socket, the retry without the previous response |
| `Disconnect`, `CloseProceeds`, `CloseEnds` | the end of a connection; `closeSession` |
| `GetResponseId`, `Get`, `SetResponseId`, `ClearResponseId`, `Evict` | the store of response ids with its fallback on the bare session |

One downstream session id is modelled, with the scopes (site, account, channel)
it is routed to. Of a response id only whether it is the last answer's is kept.
Session objects and sockets are numbers; a new one takes the least number nobody
refers to, so that identity is kept and states stay few. Turns over HTTP and
`closeAllSessions` are left out. `lastScope`, `late` and `muddled` are history.

### ModelRoutes

A *pass* is one piece of work with the rebuild at its end.

| model | code |
|---|---|
| `rows`, `active`, `blocked` | `model_availability`, account status, the filter of the settings |
| `tokenRoutes`, `routeChannels` | the tables; duplicates differ by `id` |
| `StartRefresh`, `SaveFilter` | `refreshModelsAndRebuildRoutes` with its single flight; the settings page |
| `StartCheck`, `StartUpdate` | the manual check; `applyAccountUpdateWorkflow` |
| `ReadBefore`, `ClearExisting`, `ModelsFound`, `NothingFound`, `ClearToRestore`, `Reinsert` | `refreshModelsForAccount`, one action per statement |
| `TakeAccount`, `ProbeModel`, `LeaveAccount`, `EndProbe` | `executeModelAvailabilityProbe` and the account leases |
| `SeeAvailability/Routes/Channels`, `InsertRoute/Channel`, `DeleteChannel/Route` | `rebuildTokenRoutesFromAvailability` |
| `StatementFails`, `BreakOff` | a throwing statement, and the pass that ends with it |

A row's generation (`gen`) stands for its id: an update by an old id changes
nothing. Token rows, models added by hand and route decorations are left out.
Where the code goes through models and accounts in the order of a map, the model
takes any order. `raced` and `unserved` are history.

### RecoveryProbe

| model | code |
|---|---|
| `chan` | the row of a channel: `cooldownUntil`, `lastFailAt` set, `failCount` above 0 |
| `leased`, `lastStartedAt`, `sweep` | `getActiveChannelIds()`, `recoveryProbeLastStartedAtByKey`, the sweep in flight |
| `StartSweep`, `LoadCandidates` (`Cooling`, `Due`, `Precedes`, `Taken`) | `runChannelRecoveryProbeSweep` to its batch |
| `StartProbing`, `ProbeAnswers` | `runRecoveryProbeCandidate` |
| `ReadProbed`, `ReadSiblings`, `ClearProbed` | `recordProbeSuccess`, between its awaits |
| `RecordFailure`, `RecordQuota`, `RecordSuccess`, `LeaseChanges` | what requests do to the same rows |
| `ProcessRestart` | the maps are gone, the rows stay |

The candidate's model is left out: a channel stands for its key. `passedBy` is
history.

### OAuthLogin

| model | code |
|---|---|
| `account` | the rows of one identity: status, credentials, models; an id is never given out twice |
| `loginSession` | the session store; a session is handled again whatever came of it |
| `login[l]` | one callback or imported item, and what it carries along: `previousAccount` (`before`), `previousModelAvailability` (`models`), what discovery has read (`seen`) |
| `StartFlow`, `SessionExpires`, `Callback`, `CallbackDenied`, `Exchange`, `ImportAccount` | `startOauthProviderFlow`, `startOauthRebindFlow`, `handleOauthCallback`, `importOauthConnectionsFromNativeJson` |
| `FindExisting`, `UpdateExisting`, `InsertNew` | `upsertOauthAccount` |
| `SnapshotRebound`, `SnapshotModels` | the two places where the rows for the way back are read |
| `ClearModels`, `DiscoveryRefreshes`, `FindModels`, `FindNothing`, `RestoreModels` | `refreshModelsForAccount` with its retry after a refresh |
| `ActivateExisting`, `Rebuilt` | the `try` of `activatePersistedOauthAccount` |
| `RevertAccount`, `RebuiltLast` | `revertPersistedOauthAccount` and the rebuild after it |
| `LoginStatementFails` | a throwing statement, inside that `try` or not |
| `RefreshToken`, `UpdateAccount`, `DeleteConnection` | the others that write the row |

A credential is the number of the login or refresh that wrote it, models the
number of the login that found them. Discovery deletes and inserts its rows in one
step each: `ModelRoutes` has its statements. `expected`, what the answers say, and
`crossed`, accounts that somebody wrote while another login was at them, are
history.

### Abstract specifications

* `SessionSlots`: slots and one line per channel; whoever leaves hands the free
  slots to the head. Implemented by `ChannelLease` (`ImplementsSlots`).
* `UsageLedger`: a ledger that is extended in order and retracted by whole
  days. Implemented by `UsageProjection` (`ImplementsLedger`).
* `RequestContract`: bounded attempts, no ordinary channel twice, none after
  the first byte, one reply. Implemented by `ChannelFailover` while no upstream
  connection dies in mid-response (`KeepsContract`, which stands with its mapping
  at the end of that module).
* `HealthBook`: one book that outcomes extend and the operator erases from, of
  which snapshots are saved and to the last of which a restart goes back.
  Implemented by `SiteRuntimeHealth` (`ImplementsBook`): until it is loaded, the
  book is what the row holds; nothing is promised from a failed load to the next
  restart (`Degraded`).

`MCChannelLease`, `MCUsageProjection` and `MCSiteRuntimeHealth` hold their
refinement mappings beside the values for TLC. All four are proved as well
(section 6).
`MCServices` puts nine services that share no state into one instance: a
behaviour picks one (`moved`) and moves only that; the others keep one initial
state. What is checked is what nine separate runs would check.

## 4. Runs

State counts are distinct states.

| run | instance | shows |
|---|---|---|
| `lease_fixed` | 4 requests, 1 guarded channel, limit 2, queueing switched at will | `NoWaiterBesideFreeSlot`; releases alone end every wait |
| `lease_runtime` | 4 requests, a guarded and an ordinary channel, limits 0, 1, 2, leases may expire (28k) | no leak, `GrantsWithinLimit`, order of the queue, `ImplementsSlots`; queue timers alone end every wait |
| `usage_projection` | 2 processes, 5 logs on 3 days in id order, batches of 2, 2 a pass, 2 faults, 2 requests, a cleanup (295k) | each log at most once, tables match the watermark, passes exclude each other, `ImplementsLedger`; every retained log is counted in the end, a recompute is served |
| `usage_commit_order` | 1 process, 2 logs, commits out of id order | violation of `AllLogsCounted` |
| `failover_weighted` | two requests of one session and a pinned one, 2 guarded channels of one credential in two layers, 2 attempts, split bookkeeping (184k) | fresh attempts, perseverance, blame, slots, refusals, cooldowns, `KeepsContract` |
| `failover_rotating` | two requests of one session, a channel and a pool of two, round robin, streams that break (201k) | types, `StagedCooldown`, every request ends |
| `failover_member` | 1 request, a pool of two, 3 attempts | violation of `PoolFailoverSwitchesMember` |
| `failover_midstream` | 1 request, 2 channels | violation of `NoSwitchAfterFirstByte` |
| `health_persist` | 2 requests, a site and a model, 3 outcomes, a clear, a crash, a fault, threshold 2, 2 levels (409k) | `EscalationIsEarned`, `ImplementsBook`, the clear always returns |
| `health_clear` | 1 request, 3 outcomes, a clear, a crash | violation of `ClearSurvivesRestart` |
| `services` | see below (1.18M) | types; ages of what is offered, invalidations; joined loads; one run per key, logs; endpoints once each; tokens; sockets and response ids; routes follow availability; no channel starves; accounts are as logins were answered |
| `tokens_reverted` | 2 workers, 1 flight, one rotation, no crash | violation of `DiscoveryPreservesToken` |

The instance of `services`, one service after the other: a route and a group
over it, an ordinary channel and a pool, 2 readers, lifetime 1, time 2, one
write, one booking; 2 snapshot keys in a cache of one, 2 readers, 3 loads, a
clear; 3 tasks on one key or none, 2 log lines of which one is kept; 2 requests
over 2 endpoints and a replacement, 3 calls, cooldown 1; 2 workers, 2 flights, 3
tokens, one crash or loss, both kinds; 2 client connections of one Codex session,
2 scopes, 2 session objects and 2 sockets alive at a time, 3 messages or mishaps;
2 accounts and a model, 2 passes at a time, 2 passes or filter changes in all,
one fault; 3 probed channels (a pool, and two with one credential), batches of
one, time 3, one outcome or lease, one restart; 2 logins at a time, a login session,
2 account ids, 2 callbacks, imports, faults or changes by others.

Why the bounds are enough. Four requests at a limit of two give two holders and
two waiters, the least at which order and partial drains show; two state
identities allow an entry to be dropped and created again while an old reference
might live. Five logs on three days with batches of two, two to a pass, give
full, short and empty batches, a pass that is cut off with a log left, a
recompute that starts inside a day, and cleanups on either side of the
watermark; four tokens let two passes, a stale lease and a pending request hold
different ones. Two attempts over two channels meet retry, exhaustion and
"nothing left". The pool of two in `failover_rotating` is the least in which
failing over may switch members. The bounds `MaxFaults`, `MaxRequests`,
`MaxCleanups`, `MaxLog`, `MaxInputs`, `MaxRuns`, `MaxEvents` and the like are
guards of the actions they count. No run constrains states otherwise.

In `health_persist` a threshold of two has a below and an at, two levels have a
climb and a top, three outcomes let a breaker open and another request fail or
succeed after it; the fault may hit the load, the write or the clear, and the
crash may fall between any two steps. In `services` a cache of one entry makes
every other key evict, three loads let a third one start while two overlap, one
more task than run at once lets a key pass on, two endpoints and a replacement
are the least that can be rotated, cleared by another request and edited, and
three tokens are two rotations. Two connections and three inputs give two turns
of one session with a socket that is lost, refused or replaced between them, and
a close beside either; a third session object or socket is never needed, because
one nobody refers to is used again. Two passes are the least that overlap, and
the second may start when the first has broken off. Batches of one out of three
make sweeps that leave channels out, and three ticks let both windows pass. Two
logins, or a login with a refresh, an edit or a fault, are the least that cross; a
second id lets both of them insert.

Larger instances of single services were explored once and satisfied the same
properties:

| service | instance | states |
|---|---|---|
| route caches | lifetime 2, time 3; time 4 | 759k; 2.0M |
| route caches | loads that take time (`LoadLimit` 1): one reader, time 5; two readers, time 3 | 1.5M; 6.8M |
| tokens | three workers | 466k |
| endpoints | one tick more | 317k |
| Codex session | 4 inputs | 1.04M |
| Codex session | 4 messages and no mishap; 3 messages and 2 mishaps | 1.9M; 945k |
| Codex session | 3 session objects; 3 objects and 3 sockets | 734k; 7.9M |
| models and routes | 3 runs, no fault; 3 runs, one fault | 1.03M; 3.3M |
| recovery probes | 2 events, no restart; 2 events, one restart, time 2 | 576k; 319k |
| logins | 2 sessions, 3 ids; 3 callbacks, faults or changes | 1.91M; 7.92M |

Deadlock is checked in the lease and projection runs. In the others a finite
number of requests, outcomes, loads or tasks comes to its end and the system
stops: `CHECK_DEADLOCK FALSE`. Only `services` uses symmetry, over
readers, callers, workers, connections, passes and logins: each service moves
alone and only compares them, so they share their names and one set of
permutations. Its `VIEW` leaves out the services that rest, which tells no two
states apart. It checks no liveness.

## 5. Fairness and assumptions

*Leases.* `PatientSpec` has weak fairness on `Release` and `Finish`: surfaces
release in a `finally`, and the upstream timeout ends the exchange.
`ImpatientSpec` has it on `WaitTimeout`: Node runs timers that are due. Each
alone ends every wait, so neither a long queue timer nor a holder that never
returns strands a waiter. Settings changes are never fair. `lease_fixed` keeps
the limit and assumes the keepalive interval is shorter than the lease TTL
(both come from the environment and nothing compares them); `lease_runtime`
assumes neither.

*Projection.* Weak fairness on acquiring, on each pass's statements, on lease
expiry and on finishing a started request: the interval starts a pass every
five seconds, statements return or throw, clocks advance. Nothing makes logs
arrive. Four constants name what the code takes for granted, and one condition on
the logs goes beside them:

* `InOrder`: logs become visible in id order. True of SQLite; on a server
  TLC finds the lost log (`usage_commit_order`).
* `LeaseOutlivesPass`: no statement stalls for longer than the lease (ten
  minutes, renewed at each write). With FALSE TLC finds a batch counted twice:
  nothing in a batch transaction checks the lease.
* `RacingRequests`: FALSE, a recompute request does not overlap a pass. With
  TRUE and two processes the stale row it writes back erases the other's lease
  or watermark; with a single process TLC finds nothing wrong. Only a test
  calls the function today.
* `RequestsAhead`: FALSE, a request names a log at or behind the watermark, or
  the first log. A request ahead of it would set the watermark past logs that
  were not projected.
* Days follow ids (`DaysFollowIds` in the proofs, true of the values of the runs):
  of two logs the one with the later id does not lie on an earlier day. The code
  does not see to it. `createdAt` is taken when the request ends
  (`sharedSurface.ts:211`), the id by the insert some awaits later
  (`proxyLogStore.ts:259-323`), so around midnight two requests of a server
  database, or of two processes, may draw their ids the other way round. A pass
  does not mind, it goes by ids alone. A recompute does: it erases what lies on the
  affected day or later, but starts again at an id
  (`usageAggregationService.ts:660-685`), so a log of an earlier day with a later id
  stays in the tables and is added again. With days 1, 2, 1 and a recompute from
  the second log TLC finds that double count (section 7). With days out of order
  and no recompute, which is the program as it is, it finds nothing wrong.

*Failover.* Weak fairness on each request's own step: callbacks run, lease
queues have timers, upstreams answer or are timed out. Nothing forces a
cooldown to end, nor a success to be written. `failover_weighted` splits
bookkeeping into round trips; `failover_rotating` takes it as one step, because
`StagedCooldown` needs that: with `OneStepRecords = FALSE`, a threshold of 3
and three concurrent requests TLC finds three failures booked without a
cooldown, each read before the others' writes.

*Runtime health.* `HealthFairness`: weak fairness on the end of the load, of the
settings write and on the three steps of a clear, that is, statements return or
throw. The timer, outcomes, faults and crashes are never forced. One process is
modelled: another one would write the same row.

*Services.* Safety only, no fairness. What the code takes for granted, or does
not promise, is a history variable that the property excepts, so that the rest
of it is still checked:

* `OneRunPerKey`: tasks that ran on after the sweep had dropped them (`outlived`).
* `NeverPresentsSpentToken`, `StoredTokenIsValid`: one process; a worker that
  missed a refresh (`foreign`), an answer that was lost (`spoiled`).
* `SocketsHaveOwners`: scopes asked for when the client had already gone (`late`).
* `ContinuesFromLastAnswer`: turns of two connections that overlapped, or a close
  that cleared a newer scope's id (`muddled`).
* `RoutesFollowAvailability`: the last rebuild overlapped another (`raced`); a
  pass broke off or a filter was saved too late, and no rebuild alone came since
  (`unserved`).
* `AnswersMatchAccounts`: accounts somebody wrote while a login was at them
  (`crossed`), until the last of these logins has left; statements that throw
  where the code undoes nothing, which answer for the account as it is.
* `NoChannelStarves`: memory of probes is that of the process; it starts again
  with a restart.

## 6. Proofs

The proofs hold for every value of the constants the named assumptions admit,
any number of requests, channels, logs and processes included. Each is a
one-step induction: `Init => I`, `I /\ [Next]_vars => I'`, with a lemma per
action, and a last step of temporal logic. Where a theorem has a hypothesis on
the constants, the code does not keep the property without it.

**`ChannelLeaseProofs`** (`TypeCorrect`, `ClosuresStayReachable`,
`NothingEverLeaks`, `GrantsStayWithinLimit`, `LineIsFair`,
`NobodyWaitsBesideFreeSlot`, `CoordinatorImplementsSlots`). The inductive
invariant is the conjunction of the first three properties: none is inductive by
itself. That a release drains the right queue needs the captured object to be the
current one; that the entry is dropped only when nobody refers to it needs the
object's lists to be exact; that they stay exact needs the types. The core is
`ReleaseStep` (which object a release and its drain touch) and `EndLeaseInv`. The
other four follow from the invariant and one lemma per operation on what it means
for the leases and waiters of every channel (`EndLeaseEffect` and its like): how
many a drain admits (`AdmittedCount`), and that they are the head of the line. The
same lemmas map each step to a step of `SessionSlots` or a stutter.
`NobodyWaitsBesideFreeSlot` assumes that the limit is never raised: raising it
drains nothing, and until the next release or acquisition a waiter does stand
beside a free slot. `Requests` is finite.

**`UsageProjectionProofs`** has three layers. Under `Serialized` (`LeaseOutlivesPass`,
no `RacingRequests`) alone: `TypeCorrect`, `PassesExcludeEachOther`. Whoever is in a
pass holds the live lease of the row and its copy agrees with the row
(`PassHoldsLease`, which makes passes exclusive); an open request has read the row as
it is (`RequestAlone`); what was selected is what a batch or a recompute will post
(`SelectionsKnown`); where nobody asks for a recompute, none is under way
(`NothingRequested`). Under `Countable`, that is if days follow ids besides or nobody
asks for a recompute (`MaxRequests` = 0, the program today, in which only a test
does), `CountedOnce`: nothing beyond the watermark is in the tables
(`NothingBeyond`), since a recompute erases at least what lies behind its restart
log. No order of commits is assumed, so a log that commits late is lost, but never
counted twice; without the condition on days the theorem would be false.
Under `Orderly`, that is with `InOrder` and no `RequestsAhead` also,
`WatermarkExact` and `ProjectionKeepsLedger`: visible logs are a prefix of the ids and
cover the watermark; a requested recompute and the affected and restart logs lie
behind the watermark in day order (`RecomputeBehind`, `AffectedKnown`); a fetched
batch is a gapless run behind the copy's watermark (`BatchKnown`), retained or
deleted since. The last two carry the argument
across log cleanups between a SELECT and its transaction. They are also what the
refinement needs: a batch lies beyond the watermark, so nothing of it is posted
and all that precedes it is (`BatchPosts`); a recompute erases the days from one
log's on (`RecomputeRetracts`); no other step touches the tables.

**`ChannelFailoverProofs`** (`FreshAttempts`, `Perseverance`, `SlotsHeld`,
`TypeCorrect`, `LoopIsBounded`, `CooldownComes`, `StreamStays`, `LoopKeepsContract`,
`FailuresAreOwn`, `CooldownStays`, `RefusalIsHonest`). `LoopInv` says of each
request how many attempts it may have made at each stage (`Budget`), that repeats
are pools (`NoRepeat`), what it may lease (`Holds`) and how it ended (`Ending`); a
separate `WithinLimit` counts slots. Only one request moves per step, so each lemma
is about one request. `StateInv` adds the tables requests share, and the types. The
first five theorems assume nothing of upstreams or bookkeeping; the fifth is what
the termination of the loop rests on beside fairness: `StepsLeft`, five for each
attempt left and a weight for the stage, falls with every step of the request
itself, and rises with nobody's. The others hold where the code keeps them:

| theorem | needs | why |
|---|---|---|
| `CooldownComes` | `OneStepRecords` | two that read a counter before either writes raise it once |
| `StreamStays`, `LoopKeepsContract` | `~StreamsBreak` | a connection that dies between chunks is retried elsewhere (`failover_midstream`) |
| `FailuresAreOwn` | `~StreamsBreak`, `OwnersServe` | failures are booked on the row's owner, whichever member of a pool served (`failover_member`) |
| `CooldownStays` | `OwnersServe`, `CoolsAtOnce` | the same; and under round robin a late failure writes a count without a cooldown |
| `RefusalIsHonest` | `PoolsHideNothing` | a pool whose members all rest may win the draw, resolve to nobody and hide the channels of its layer |

`StreamInv` says that the bytes that were forwarded are those of the last attempt,
and that what is booked then is not retried: a begun response excludes another
attempt, and the loop is a `RequestContract`. `ServedInv` says that each attempt was
dispatched to whom it is booked on, and `BlameInv` that the balance of failures and
charges is the number of those being booked. `PoolsHideNothing` admits pools that
stick to a member, pools with a member whose account no row carries, and pools that
share no layer with an ordinary channel: by `RestInv` the first rest only as long as
they cool, and the spare member never does, since failures are booked on the row's
account; that such a pool has a first member is `SomeoneIsNext`, for any order of
selections. What is left, a rotating pool each of whose members is the account of
some row, violates the property on a pool of one.

**`SiteRuntimeHealthProofs`** (`HealthTypeCorrect`, `BreakersAreEarned`,
`HealthIsABook`). A level costs `Threshold` failures and the running streak comes
on top (`Earned`); the invariant says so of all three books, the one in memory,
the row and the draft of a write, since a crash or a load copies one to another.
The lemmas about `RuntimeHealth` (`TransientEarned`, `AfterEarned`,
`BookOperators`) carry the arithmetic. The refinement needs one fact more
(`BookInv`): as long as the state is unread, nobody has booked.

**`CodexSessionProofs`** (`SocketsKeepOwners`, `TurnsContinue`,
`CodexTypeCorrect`). What the three parties know must agree: a turn (its place
in its session's chain, the socket it dials or asks on; `TurnsLineUp`), a
session (its socket) and a socket (its owner; `SocketsInPlace`). That an open
socket will be closed needs `SessionsHeld`: a session with turns or an open
socket is in the store, under a scope some connected client used, or a close
that waits for its turns has it; a close that has stopped waiting has an empty
chain and no open socket. So a socket that is dialled while the close of its
session waits belongs to a turn ahead of the close in the chain. Of the response
store `StoreFollows` says that, until turns overlap, it holds the last answer
under the bare key and at most one scope, that one older, so that eviction takes
it first; and that a turn under way has removed what other scopes had.

**`ServicesProofs`** has four services, and the nine together.

* Background tasks (`TasksTypeCorrect`, `KeysRunOnce`, `LogsStayNumbered`). A
  running task holds its key, and its record says that it runs, unless the sweep
  dropped it (`TaskHolds`); a task without a record has counter 0, so that one that
  comes back starts at 1 (`Blank`); the logs are exactly `LastNumbers` of the
  counter (`Numbered`), kept by one lemma on appending and cutting a sequence
  (`NextNumber`).
* Recovery probes (`NobodyStarves`, `ProbeTypeCorrect`). Whoever was taken instead
  of a channel was started later than it (`OvertakenByLater`): the channels a sweep
  leaves out were started before its time (`LeftOut`), which no start lies behind
  (`StartsLieBehind`). And a batch never takes the later one alone (`EarlierFirst`):
  all that precede the earlier channel precede the later one, so the batch would
  have room for both. That a batch is no larger than its size counts those that
  precede its last (`BatchIsSmall`). `ProbeChannels` is finite.
* Site endpoints (`EndpointsTypeCorrect`, `NoEndpointLeftOut`). What a call has
  tried is on cooldown, gone or disabled, unless somebody revived it meanwhile, and
  what was ready all along is ready (`RowsKnown`): so the loop, which always takes
  the first eligible one, neither repeats an endpoint nor ends before it is through
  with the ready ones. That there is a first one, whatever the set, is
  `OneComesFirst`.
* Snapshot cache (`NobodyJoinsSpentLoad`, `SnapTypeCorrect`). The mark of an entry,
  and a reader that waits, are for a load that is running and of the same key,
  across the writes, clears and evictions that may come before it ends. The order by
  last use stays total under use, eviction and clearing (`LastUsed`), so that a
  finite cache has one oldest entry (`OneIsOldest`), and dropping it makes room for
  one.
* All nine (`ServicesTypeCorrect`). A behaviour of the services side by side is,
  seen from one of them, a behaviour of that one (`EachByItself`): the others leave
  its variables alone. Its type invariant follows from its own.

**`OAuthProofs`** has the managed tokens and the logins.

* Tokens (`TokensTypeCorrect`, `SpentTokensStayHome`, `RowStaysValid`). At most
  one flight is under way and the map names it (`OneFlight`); what a worker has
  read is what the row holds unless it missed a refresh (`ReadsAreCurrent`); the
  valid token is in the row, or in the answer about to be stored (`TokenIsKept`).
  The last two hold until an account is spoiled.
* Logins (`AnswersAreTrue`, `LoginsTypeCorrect`). Of an account no other write has
  crossed: it is as the answers say, or exactly one login has written it and not yet
  answered, which remembers the row it found and the models it had
  (`AccountSettled`, `Owes`). So the way back restores what the answer will claim,
  at whichever of the steps it begins. `Course` holds of a login wherever it is: ids
  are given out once, so an account it created is nobody else's, and one it found it
  found alive.

**`RouteProofs`** has the caches of the router and the rebuild of its tables.

* Caches (`CacheTypeCorrect`, `StaleNoLonger`, `InvalidationHolds`). `CacheInv` says
  of every copy when each of its rows last held: a cached snapshot's at its `at` or
  later, a cached match's at most a lifetime before, a reader's at each of its
  stages no earlier than what it read them from. Lifetimes add up along the way:
  `RouteAge` and `ChannelAge` are the sums. If nothing was written since an
  invalidation that met no load (`clean`), the copies are those of the tables.
* Rebuild (`RoutesTypeCorrect`, `RoutesFollow`). A rebuild that has the tables for
  itself knows what is in them (`Solo`), so that what it inserts and deletes ends
  in the routes it wants, which are those of what is available now (`RoutesServed`):
  whatever changes availability afterwards belongs to a pass that will rebuild
  (`Dirty`), or has lost its rebuild (`unserved`). That a probe can only flip rows it
  has read needs their generation (`ProbesKnow`), and that the exact route of
  a model exists and keeps its identity needs ids to be bounded (`IdsBounded`): the
  least element of a set of ids comes from well-founded induction on naturals.

`ClosuresReachable` is proved and not checked again by TLC: `lease_runtime` checks
the refinement, which a dropped entry would break. Likewise the type invariants of
`ChannelLease`, `UsageProjection` and `SiteRuntimeHealth`.

*Only model-checked*: all liveness (`WaitEnds`, `EveryRequestEnds`,
`ClearAnswered`, `AllLogsCounted`, `RecomputeServed`), which is out of the
prover's reach; and the violations of section 7.

## 7. Disagreements found

Each run below checks one statement of the docs, a comment or a test; the
`findings` of `PROJECT.json` quote it and tell the story.

* `usage_commit_order`: on PostgreSQL or MySQL an insert that commits late
  stays behind the watermark for good.
* `failover_member`: a pooled channel's failures are charged to the account of
  the channel row, whichever member failed, so failing over may return to the
  member that just did.
* `failover_midstream`: a connection that dies between two chunks makes the
  loop go on to another channel although the reply has begun.
* `health_clear`: the slot of a running persist is never emptied
  (`services/tokenRouter.ts:837`), so only the first persist of a process
  writes; a clear is undone by a restart.
* `tokens_reverted`: a discovery that read its account before a refresh writes
  the spent refresh token back (`services/modelService.ts:226`).

What the models showed beside these, without a run of its own:

* Projection. A recompute counts a log twice that lies on an earlier day than one
  with a lower id (section 5): three logs of days 1, 2, 1, all projected, the first
  cleaned up or not, and a recompute from the second; the third stays in the tables
  and is in the next batch again. Only a test asks for a recompute.
* Leases. Raising the limit does not admit those already queued; newcomers
  overtake them.
* Failover. A pool that was tried may win the draw, resolve to nobody, and end
  the request although a channel was left. Under round robin a late failure
  clears the cooldown of the third.
* Codex. Messages still queued when the client leaves open the session, and a
  socket, again; nobody closes them. `closeSession` waits for a turn without a
  timeout. A close clears the bare id that a newer scope stored, so that the next
  scope starts from nothing; `codexSessionResponseStore.test.ts:130` keeps the
  latest id when a session drifts between scopes. The HTTP
  path reads the continuation id before it queues (`openAiResponsesSurface.ts:479`
  and `:533`).
* OAuth logins. The revert covers a discovery that reports failure and the last
  two steps; a statement that throws in between (`services/oauth/service.ts:494`,
  or inside `refreshModelsForAccount` at `:501`, both before the `try` at `:517`)
  leaves an account that existed disabled, with the new credentials and no models,
  whereas `oauth.test.ts:1179` keeps the connection intact when a rebind fails. Two
  logins of a new identity insert two accounts: the index over the identity is not
  unique. The revert writes back the whole row, over a refresh or a login that came
  in between. A session that has succeeded may be handled again, and a late error
  turns its status.
* Recovery probes. Cooldowns a provider has set are passed over only in the
  source of cooling channels, so the probe of a leased channel ends one; the test
  at `channelRecoveryProbeService.test.ts:206` has them left alone. The success of
  a probe that began before a failure ends that failure's cooldown.
* Models and routes. A filter saved while a refresh rebuilds joins that refresh
  and is not applied, whereas `docs/configuration.md:51` promises a rebuild.
  Overlapping rebuilds insert duplicate routes and channels; a rebuild alone
  afterwards leaves the duplicates but serves from a right one. A probe pass that
  throws after rows flipped loses its rebuild, and the next pass sees no flip
  (`modelAvailabilityProbeService.ts:369`). Two discoveries of an account at once
  meet the unique index and reject the whole refresh (`modelService.ts:1043`).

## 8. Not modelled, and why

* *Open in the plan*: the check-in, balance and summary schedulers. Their
  passes overlap when they outlast their interval; what that costs depends on the
  sites.
* *Data*: formats, protocol translation, platform adapters, the contents of the
  usage sums, SQL dialects beyond atomicity and commit order. They make up most
  of the server's lines, and the web client most of the repository's, which is
  why the mapped share of the whole is small.
* *Repetition*: the other surfaces run the modelled loop with the same helpers.
* *Left out of modelled parts*: weights, costs, penalties and latencies (they
  choose among the available); which entries a persist skips by age; Codex turns
  over HTTP and `closeAllSessions`; subscribers of background tasks and `wait`;
  the warm-up of snapshots; token rows, models added by hand and route decoration
  in `ModelRoutes`; members of pools and disabled channels in `RecoveryProbe`;
  the start of callback listeners, the parsing of callbacks
  and imports, and route units beside `OAuthLogin`; two processes that share
  refresh tokens or the health row. A rejected, unhandled
  `recordSuccess` promise, and the loss of all in-memory state at a restart, are
  outside the failover model: its requests and bindings die with the process.
* *Hazards known and not pursued*: a recompute over days whose logs were cleaned
  up (`usageAggregationService.ts:684`), over logs whose days do not follow their
  ids (`:660`), or requested beside a pass, whose row its late write puts back
  (`:763`; the request is in the model, kept off passes), none of which the program
  does, since only a test asks for one; clearing usage from the settings beside a
  pass (`routes/api/settings.ts:1991`); the success nobody awaits
  (`sharedSurface.ts:418`, in the model as `SuccessLands`); a binding dropped
  after a refresh although it was renewed meanwhile (`channelSelection.ts:135`, in
  the model as `AfterRefresh`); overlapping check-in passes
  (`checkinScheduler.ts:104`).
