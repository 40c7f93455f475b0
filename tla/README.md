# TLA+ models of the gimlet agent controller and dashboard store

This directory holds TLA+ models of the concurrent parts of the repository,
the TLC configurations that check them, and `PROJECT.json`, which maps every
model definition to the source lines it translates and lists the runs,
mutants, findings and hazards.

## 1. Inventory

### Components

| Component | Source | State | Operations |
|---|---|---|---|
| Controller engine | `src/pkg/agent/controller.go` | `name`, `indexer`, `queue`, `informer`, `eventHandler`; package variable `serverStartTime` | `NewController` (handlers `AddFunc`/`UpdateFunc`/`DeleteFunc`), `Run`, `runWorker`, `processNextItem`, `handleErr` |
| Dynamic controller | same file, `NewDynamicController` | as above, but its `indexer` is a separate `cache.NewIndexer` | same |
| Work queue (client-go, not in the repo) | used at `controller.go:70` | ready FIFO, dirty set, processing set, delayed (waiting) entries, per-item failure counter, shutting-down flag | `Add`, `Get`, `Done`, `AddRateLimited`, `Forget`, `NumRequeues`, `ShutDown` |
| Informer / indexer (client-go) | `controller.go:78-100, 122-148` | the informer's cache of the watched objects, `HasSynced` | initial list, watch notifications (cache update, then handler), watch errors and relists |
| Object metadata extraction | `getObjectMetaData`, `controller.go:248-277` | none | type switch over 11 kinds; zero metadata for nil or unsupported |
| State uploader | `sendUpdate`, `sendEvents`, `controller.go:279-336` | none (fire and forget) | JSON POST with bearer key; non-200 logged; transport error panics |
| GitOps commit store | `src/pkg/dashboard/store/gitopsCommit.go` | the `gitops_commits` table | `GitopsCommit`, `GitopsCommits` (reads), `SaveOrUpdateGitopsCommit` (sqlite: no transaction; others: a transaction whose statements run on `db`) |
| Alert thresholds | `src/pkg/dashboard/alert/threshold.go` | none | `podStrategy.isFired`, `eventStrategy.isFired`, `ToThreshold` |
| GitOps manifest generation | `src/pkg/gitops/bootstrap.go`, `sync/options.go` | files in the gitops repository | `GenerateManifests`, `UniqueName`, `UniqueGitopsRepoName`, `ParseRepoURL`, ... |
| SCM helpers | `src/pkg/git/genericScm/goScmHelper.go`, `customScm/customGitService.go` | an `scm.Client` | remote API wrappers; `UserRepos` pages through results |
| Dashboard bootstrap | `src/cmd/dashboard/init.go` | config, store | admin user, keys, logger, `reencrypt` |
| Client interface, chart updater tests | `src/pkg/client/interface.go`, `.../chartVersionUpdater_test.go` | none | declarations and tests only |

### How they interact

The informer (one goroutine) writes each notification to its cache and then
calls the controller's handler, which adds `Event{key, eventType}` to the work
queue. `Run` sets `serverStartTime`, starts the informer, waits for its
initial list (`WaitForCacheSync`), spawns `threadiness` workers with
`wait.Until`, blocks on the stop channel and, as it returns, shuts the queue
down (deferred). Each worker loops over `processNextItem`: `Get` (blocks),
`GetByKey` on the indexer, the startup-skew filter (drop a `create` event
whose object's creation timestamp is before `serverStartTime`), the injected
handler, `handleErr` (Forget on success; `AddRateLimited` while
`NumRequeues < 5`; otherwise Forget and drop), and the deferred `Done`. The
handler is where the agent calls the state uploader. The dashboard's store is
written by concurrent request handlers and workers.

### What is hard

* Interleavings of workers with each other, with the informer and with the
  rate limiter's timers: an event re-added while it is processed, retries
  that race with fresh notifications, several events of one key.
* Time: the filter compares a local nanosecond clock with whole-second server
  timestamps.
* Shutdown: stop before the cache syncs, workers racing the stop channel,
  delayed retries dropped by `ShutDown`.
* Failures: a handler failing repeatedly, a push failing or panicking, a
  save racing another save.

### What makes each component correct

* Controller: one event is never processed by two workers; the handler never
  sees the initial list as new objects and sees every object created after
  start; every notification reaches a worker; retries stop at the budget; stop
  ends Run and all workers. The spec also promises that one *key* is never
  processed in parallel.
* Store: a commit with a final status (applied or rejected) is never changed.
* Uploader: a push failure does not fail the reconciliation nor stop the
  agent.

The full hazard list, with the line where each bites, is in `PROJECT.json`.

## 2. Modules and how they correspond to the code

### `WorkQueue.tla` (the client-go queue, from the spec)

Pure operators on one record `q` (`queue`, `dirty`, `processing`, `waiting`,
`failures`, `shuttingDown`) so that a controller step applies the queue calls
its handler makes in code order, e.g. `Done(HandleErr(wq, e, ok), e)`. `Add`
is a no-op after shutdown or for a dirty item and only marks an item being
processed; `Done` re-queues a dirty item; `AddRateLimited` counts the failure
and keeps one waiting entry per item (dropped after shutdown); `FireWaiting`
is the delay elapsing. These definitions are `spec_modelled` in the map.

### `Controller.tla`

Variables: `cluster` (API server), `store` (informer cache), `indexer` (what
`processNextItem` reads), `now`/`serverStartTime` (ticks, `TicksPerSecond`
per second), `phase` of `Run`, `stop`, `synced`, `watching` and `relists`
(the reflector's watch and its errors so far), `worker[w]` (state, event,
object handed to the handler), `wq`, and the history variables `unseen`,
`dropped`, `skipped` and `seen` (the object the last `processNextItem` of
each key looked up, the handler's view), used only by properties.

| Action | Code |
|---|---|
| `ObjCreate/ObjUpdate/ObjDelete` + `Notify` | a cluster change delivered by the informer: cache write, then `AddFunc`/`UpdateFunc`/`DeleteFunc` `queue.Add` (nothing is delivered before the initial list or after stop) |
| `RunStart` | `Run`: `serverStartTime = time.Now()`, `go informer.Run` |
| `ListAndSync` | the informer's initial list: cache filled, a `create` event per object, `HasSynced` |
| `RunSyncTimeout` | `WaitForCacheSync` false: Run returns, deferred `ShutDown` |
| `RunStartWorkers` | the `wait.Until(c.runWorker, ...)` loop |
| `RunReturn` | `<-stopCh`, return, deferred `ShutDown` |
| `WorkerBegin` | `wait.Until`'s first stop check |
| `WorkerGet` | `Get`, `GetByKey`, `getObjectMetaData`, the filter; a filtered event is `Done` at once |
| `WorkerFinish(w, ok)` | the handler returns, `handleErr`, deferred `Done` |
| `WorkerQuit` | `Get` reports quit, `runWorker` returns |
| `RetryFires(e)` | the rate limiter's delay elapses |
| `WatchError` | the reflector's watch fails (`watching` false, at most `MaxRelists` times): changes until the relist are not notified |
| `Relist` | the reflector lists again and `Replace`s the cache; per differing key the handlers get `AddFunc`, `UpdateFunc`, or `DeleteFunc` with a `DeletedFinalStateUnknown` tombstone, whose key `DeletionHandlingMetaNamespaceKeyFunc` (`controller.go:94`) unwraps (`RelistEvents`) |

`Dynamic = TRUE` turns it into `NewDynamicController`, whose indexer stays
empty (`ControllerIndexer`). `CreationTs` is `getObjectMetaData`'s creation
time: the zero time for a nil object and for a kind outside its type switch,
that is for the dynamic controller (unstructured objects) and for a typed
controller whose `objType` is not one of the eleven kinds (`ObjTypeKnown =
FALSE`; every run uses a known kind). `RunSyncTimeout` is
`WaitForCacheSync` returning false once `stopCh` is closed, whether or not the
cache had synced by then.

The informer's cache write and its handler's `queue.Add` are one step
(`Notify`), and a cluster change is delivered in the step that makes it
unless the watch is broken. In client-go these are separate steps; the
gap lets a worker look up the new object for an earlier event before the
new event is added, which the model reaches anyway by processing the
earlier event after the change. No property of the informer itself is
checked, since that code is client-go's. `GetByKey` on a client-go store never returns an
error, so the "fetching failed" branch (`controller.go:171-174`) is
unreachable and not modelled. The handler is abstracted to "returns nil or an
error".

`RunReturnsAfterDrain` states spec section 4.3's "Run returns only after all
workers have drained their current item"; it is false of the code (Run
returns right after `<-stopCh`), as TLC shows under `MCController.cfg`'s
bounds, and has no run of its own (see the hazard at `controller.go:239`).

### `SharedStartTime.tla`

Two controllers of one process composed the way the code shares them: each
is an `INSTANCE` of `Controller` with its own variables (`aCluster`, ...,
`bCluster`, ...), and both instances use the one `now` and the one
`serverStartTime`, the package variable every `Run` overwrites. A step is a
step of one controller with the other's variables unchanged. The history
variable `runAt` records when each controller's own `Run` read the clock.
The unsynchronised write and read of `serverStartTime` (a data race in Go)
is an interleaving of the two instances' steps: a reader sees the value
before or after the write.

### `GitopsCommitStore.tla`

Each caller of `SaveOrUpdateGitopsCommit` steps through `Call` (driver
choice), `Begin` (non-sqlite; may fail), `Query` (no row: insert; error:
return; final status: return unchanged; else update), `Insert` and `Update`.
Because both variants run the select and the write as separate statements on
`db`, the transaction adds nothing but a failure point. The table holds one
row per sha (an insert of an existing sha fails).

`Return(c, r)` records what the save returned (`"true"`, `"false"`, `"err"`)
and `wrote[c]` whether it has changed the table. `Commit` is `tx.Commit()`,
which can fail; since the writes went through `db`, not `tx`, a failed commit
leaves them in place (`ErrorMeansUnchanged`, finding 6).

### `GitopsNames.tla` and `MCGitopsNames.tla`

Pure operators for the naming helpers of `bootstrap.go`, a string being a
sequence of one-letter strings (TLC cannot index strings): `Split`
(RECURSIVE, `strings.Split` with a one-letter separator), `Index` (a Go slice
index, `Panic` out of range), `ToLower` over a case-folding table,
`TrimPrefix`/`TrimSuffix`, `UniqueName` (owner cut to 10 bytes, then
`owner-repo[-env]` in lower case), `UniqueGitopsRepoName` and `ParseRepoURL`.
`MCGitopsNames` enumerates small hosts, owners (two of 11 letters), repos and
envs as a constant variable `call`, so the run's states are the inputs.
It also extends `LogRedaction` and enumerates every log message of at most
five symbols as the constant variable `message`.

### `LogRedaction.tla`

The dashboard's log redaction (`init.go:131-153`): `customFormatter.Format`
hides the message with `hideAccessToken`, the regular expression
`access_token=([^& ]+)` replaced by `access_token=***`. `HideAccessToken` is
`ReplaceAllString`'s left-to-right scan (RECURSIVE, in a LET): at the literal
followed by a character outside `&` and space, the literal and the whole
greedy run become `access_token=***`. A message is a sequence of symbols in
which the 13-character literal is one symbol (`TokenParam`); the literal has
no border (no proper prefix equal to a suffix), so its occurrences never
overlap and nothing is lost by the abstraction. The reference `Redacted`
defines redaction independently, field by field (`Pieces` cuts the message at
the delimiters). The regexp compile error branch is unreachable (a constant
pattern). Note that `initLogger` (line 93) installs a plain
`logrus.TextFormatter` in a variable that merely shares the type's name: no
code in the repository installs the redacting formatter (hazard list).

### `GitopsBootstrap.tla`

The flux folder of a single gitops repository as a function from file name to
the kind of manifest it holds (`install`, `sync`, `key`, `notifications`),
the working tree (`files`) and the branch (`committed`) apart.
`GenerateManifests` is the whole function: the `--env`/`--single-env` checks,
then the install manifest, the sync manifest under the name
`GitopsRepoFileAndMetaNameFromRepo` finds on the branch (`ExistingRepoFiles`:
any committed name containing `gitops-repo`, the map order being a free
choice, or none: the errors of `HeadBranch` and
`RemoteFolderOnBranchWithoutCheckout` are ignored at lines 288-290, and the
loop then sees no files), the dependencies folder and the deploy key, a failure at any stage
ending the call with the earlier files written. `GenerateProviderAndAlert`
writes the notification manifest; `Push` is the caller committing.

### `Reencrypt.tla`

`reencrypt` in `cmd/dashboard/init.go`: `Start` (no new key, or the user
query and its error), `UpdateUser` per user (may fail, at most
`MaxFailures` times; the error is not assigned to `err`, so the loop goes on),
`Exit` (the message telling the operator to switch keys and `os.Exit(0)`) and
`SwitchKey` (the operator doing so). `enc[u]` is the key user `u` is stored
under.

### `Uploader.tla`

`sendUpdate`/`sendEvents` per worker: marshal, request, `client.Do` (panics on
a transport error, ending the process and every call in flight), status.
`Restart` is the pod restarting. It has no run of its own (see the plan): its
property `PushFailureKeepsAgentUp` is the panic already noted in spec section 9.

### `UserRepos.tla`

`GoScmHelper.UserRepos`: `NewGoScmHelper` leaves the client nil for a
provider other than GitHub or GitLab, and then `NoClient` returns an empty list; each `List` step is
one request with the current `ListOptions`, appending the page and copying
`meta.Page.Next` and `NextURL` into the options. The provider (a listing of
pages, paginating by number or by link, and the page whose request fails) is
chosen in `Init`; `Target` and `Meta` model go-scm's side from its contract.

## 3. Runs

| Run | cfg | Expect | Shows |
|---|---|---|---|
| controller | `MCController.cfg` | pass | 1 key, 2 workers, 2 changes, 1 watch error, 2 ticks per second, retry budget 2: `TypeOK`, `NoEventProcessedConcurrently`, `NotificationsReachWorkers`, `StopTerminates` and `EveryCachedStateProcessed` (liveness: each state the indexer settles on for a key is eventually looked up by a worker), all across one watch error and its relist |
| sequential_per_key | `MCSequentialPerKey.cfg` | violation | two workers hold the create and the update event of one key at once |
| startup_filter_truncation | `MCStartupFilter.cfg` | violation | an object created after `Run` in the same second is filtered as pre-existing |
| dynamic_indexer_empty | `MCDynamicFilter.cfg` | violation | whole-second clock (no truncation effect), yet the dynamic controller filters every create |
| retry_after_drop | `MCRetryAfterDrop.cfg` | violation | budget 5 as in the code: after the drop a delayed retry is still scheduled |
| gitops_commit_error_after_write | `MCGitopsCommitTxError.cfg` | violation | one caller, transaction variant: the insert goes through `db`, `tx.Commit` fails, the save returns an error for a row it wrote |
| gitops_commit_race | `MCGitopsCommitRace.cfg` | violation | two callers, sqlite: a final status is overwritten |
| shared_start_time | `MCSharedStartTime.cfg` | violation | two controllers, one key and one worker each, whole-second clock: controller A's object, created at A's `Run`, is dropped by A's filter after B's `Run` moved `serverStartTime` |
| gitops_names | `MCGitopsNames.cfg` | pass | `ParseRepoURL` inverts the scp-like URL `git@host:owner/repo.git` over every small host, owner and repo; `FormatRedactsTokens`: the log formatter's redaction equals the field-by-field reference on every message of up to five symbols over `access_token=`, a value character, `&` and space |
| reencrypt_partial_failure | `MCReencrypt.cfg` | violation | three users, one failed update: the run exits 0, the operator switches keys, one user stays under the old key |
| user_repos | `MCUserRepos.cfg` | pass | listings of 1-3 pages by number or by link: a successful call returns every repo in order (`ReturnsEveryRepo`) and every call returns (`UserReposReturns`) |
| bootstrap_rerun_overwrites_key | `MCGitopsBootstrap.cfg` | violation | repo `gitops-repo`: after a pushed bootstrap, the next one writes the sync manifest into `deploy-key-o-gitops-repo.yaml` |

Every passing property has a mutant in `PROJECT.json` (an off-by-one retry
bound, a queue that re-queues items being processed, a `Done` that forgets
dirty items, a `Run` without its deferred `ShutDown`, a `ParseRepoURL`
keeping `.git`, a redaction regex
with `*` for `+`, a pager ignoring
`NextURL`, a pager restarting from fresh options, a `DeleteFunc` whose key
function fails on tombstones and skips `queue.Add`); TLC finds each one.

### Bounds

One key suffices for the per-event queue guarantees (the three event types
of a key already give three distinct items); two workers give every pairwise
interleaving. Two ticks per second and a clock of two ticks are the least
that distinguish "same second as start" from "later second". Two cluster
changes and one watch error allow a create and a delete lost in a watch
gap (the relist's tombstone), a delete and re-create folded into one
update, or a change during processing; a third change with the watch
error takes the liveness check past five minutes.  The other
controller runs have `MaxRelists = 0`. The
passing controller run uses a retry budget of 2 instead of 5 to keep the
liveness check small: the retry logic only distinguishes "below the budget"
from "at the budget"; the retry violation uses the code's 5.
`shared_start_time` needs one key and one worker per controller, a
whole-second clock (so that truncation, finding 2, plays no part) and three
ticks: A's `Run`, a create, B's `Run` a tick later.

### Fairness

Weak fairness on every goroutine step of the controller (Go schedules
runnable goroutines), on `Run` being called, on the informer's list, on timer
expiry, on the reflector's relist after a watch error (it retries until it
lists) and on the handler returning. The last one is an assumption: the
uploader's HTTP client has no timeout (hazard list). The environment (cluster
changes, the clock, closing the stop channel) has no fairness.
`Finished` lets a terminated controller stutter so that deadlock checking stays
on for every other state.

## 4. Findings

1. Events of one key are processed in parallel (queue key is
   `Event{key, eventType}`), contrary to spec sections 3 and 8 and the
   comment at `controller.go:166`.
2. Creates of objects made in the second of `Run` are dropped (second
   granularity of `creationTimestamp`).
3. `NewDynamicController` never fills its indexer: every create is dropped,
   updates and deletes reach the handler with a nil object. A filled indexer
   would not help the filter: the dynamic informer's objects are
   `*unstructured.Unstructured`, outside `getObjectMetaData`'s type switch,
   so their creation time is the zero time as well.
4. A delayed retry survives `handleErr`'s drop and runs the handler again.
5. `SaveOrUpdateGitopsCommit` can overwrite a final status under concurrent
   saves.
6. The transaction variant writes through `db`, not `tx`: a failing
   `tx.Commit()` returns an error for a save that took effect.
   `ErrorMeansUnchanged` in `GitopsCommitStore` states the contract and is
   violated with one caller and `Sqlite = FALSE` (run
   `gitops_commit_error_after_write`).
7. `reencrypt` drops `UpdateUser`'s error (`init.go:120`) and tells the
   operator to switch keys after a partial re-encryption.
8. `GitopsRepoFileAndMetaNameFromRepo` matches any file whose name contains
   `gitops-repo`; with a repository named so, a re-bootstrap overwrites the
   deploy-key secret (or the notification manifest) with the sync manifest.
   The deploy key is lost only when that re-run fails before it writes the
   key (line 151), which would put the key back; the notification manifest,
   which `GenerateManifests` never rewrites, is lost even to a successful
   re-run.
9. `UniqueName` is not injective: owners sharing their first ten bytes, or
   `-` inside names, give two repositories the same Flux object names.
   `UniqueNameInjective` in `MCGitopsNames` states it and is violated; it has
   no run of its own (see the hazard in `PROJECT.json`).
10. Controllers of one process share `serverStartTime`: a later `Run` makes
    an earlier controller drop creates of objects made after its own start
    (spec section 9 asks for the variable to move into the controller).
11. `Run` returns on `<-stopCh` without waiting for its workers, while spec
    section 4.3 says it returns only after they drained their current item
    (`RunReturnsAfterDrain`, no run of its own).

## 5. Plan

Done: `WorkQueue`,
`Controller` (+ dynamic variant, + the handler's view `seen` and its
liveness, + watch errors and the reflector's relist), `SharedStartTime`, `GitopsCommitStore` (+ `tx.Commit` failure),
`GitopsNames`, `LogRedaction`, `GitopsBootstrap`, `Reencrypt`, `Uploader`, `UserRepos`.

Next, in order:

1. An abstract specification of the controller's handler calls (spec
   sections 4.3-4.4) and its refinement by `Controller`. Its retry bound is
   refuted by finding 4 even with a budget of 2, so such a specification
   either fails or, weakened to allow the extra retry, says little more than
   the client-go queue's own deduplication, which holds whatever
   `controller.go` does (an earlier refinement of the queue onto an abstract
   deduplicating queue was dropped for that reason); it waits until that
   finding is settled.
2. Compose `Uploader` with `Controller`: the handler calling `sendUpdate`, the
   panic crashing the agent and the restart (queue lost, new
   `serverStartTime`), checking what a restart loses. What the agent sends
   at startup ("startup sends the complete cluster state upstream",
   `controller.go:179`) is code outside this repository, which bounds what
   such a model can claim.
3. Store: the insert race of a new sha (the uniqueness constraint of the
   schema is not in the repository).
4. A controller run with two keys and watch errors, which the liveness
   checks of `MCController.cfg` cannot reach in five minutes.

The project keeps twelve runs; a new question replaces the run of a finding
already shown, whose property stays in its module.

## 6. Not modelled

Periodic informer resyncs (disabled: resync period 0); the handler's business logic; the
HTTP wire format, JSON, logging; YAML rendering of manifests
(`install.Generate`, `sync.Generate`, the deploy key's contents); SCM API
wrappers without local state (including `DirectoryContents` and
`Organizations`, which never page past 50 entries); the read-only store
queries; the rest of the dashboard's single-threaded startup
(`setupAdminUser`, `adminToken`, `adminKey`, `generateAndPersistJwtSecret`,
`randomHex`, `initNotifications`, `initLogger`): each is one store call or
one write of the dynamic config, run once by a `main` that is not in the
repository, so neither their order nor how often the process restarts
between them is fixed by this code. Their dropped errors (`randomHex` at
lines 59 and 156, `Persist` at lines 61 and 158) are listed as hazards.

The alert thresholds (`alert/threshold.go`) are not modelled: they are
stateless predicates with no caller in the repository, so the unit of
`waitTime` (minutes or a `Duration`) is not fixed by this code, and their
arithmetic is on 64-bit nanoseconds and `float64`. The overflow of
`time.Minute * waitTime` (from `waitTime >= 153722868`), an argument such as
`5*time.Minute`, and division by a zero or negative age cannot be expressed
faithfully with TLC's 32-bit integers.
