# Verification of Predictive Patterns

This directory holds TLA+ models of the Predictive Patterns platform: a Laravel
API (`src/backend`) that trains and serves crime-risk models and a Vue
single-page application (`src/frontend`) that drives it. The modules model the
parts that keep state shared by several processes; TLC checks them on small
instances, and TLAPS proves the most important properties for every instance.

## 1. Inventory of the system

Processes: PHP-FPM requests, several Horizon workers (`docker-compose.yml`, the
package's default supervisor; one attempt per job, 60 s timeout), the ingest
command and the MCP server, browsers. Shared state: PostgreSQL/MySQL tables, the
Redis queue and status snapshots, the database cache, the local disk,
broadcast channels.

| Component | State it keeps | Operations | What makes it correct |
|---|---|---|---|
| Model lifecycle: `ModelController`, `TrainModelJob`, `EvaluateModelJob`, `ModelTrainingService::train`, `ModelRegistry`, `ModelStatusService` | rows of `models` and `training_runs`, artifacts on disk, `model-status:<id>` in Redis, the queue | train, evaluate, activate, deactivate, status; the two job handlers | reported work is real work; runs end; artifacts exist and belong to completed runs; metadata is not lost; one chosen active model per tag and area |
| Idempotency: `IdempotencyService`, `request.js` | cached answers per operation, user and key; the client's keys | look up, store, expire; issue and rotate keys | an unchanged form starts no second job, a changed one does |
| H3 aggregation cache: `H3AggregationService`, `HeatmapTileController`, `HexController` | version counter, cached aggregates, cached tiles | read through two caches, bump the version | what is served under the current version reflects every import announced by a bump |
| Police crime ingestion: `PoliceCrimeIngestionService`, `CrimeIngest`, `IngestPoliceCrimes`, `Kernel` | `crime_ingestion_runs`, `crimes`, partial and final archives | download with resume and checksum, import in buffered chunks, retry | no duplicate crime, counters add up, a corrupt archive is never imported, a run always ends |
| Dataset ingestion: `DatasetController`, `IngestRemoteDataset`, `DatasetProcessingService`, `DatasetPreviewService` | rows of `datasets` and `features`, uploaded files | upload, remote download, finalise, feature extraction | ready datasets have their file, failed ones none; features belong to the last mapping |
| Datasets page: `AdminDatasetsView.vue`, `dataset.js` | rows and subscriptions of the table, the wizard's subscription, one set of callbacks per channel | fetch, filter, poll, apply events, submit, close, leave | the table comes to show the server's rows; no callback is left behind |
| Predictions: `PredictionController`, `PredictionService`, `GenerateHeatmapJob` | rows of `predictions`, `prediction_outputs`, `shap_values` | submit, generate, poll | a queued prediction runs; a completed one has its outputs; failure is recorded |
| Session tokens: `AuthController`, `SanctumTokenManager`, `EnsureApiTokenIsValid`, `auth.js`, `apiClient.js` | personal access tokens by session, the browser's tokens and its single-flight refresh | login, refresh, logout, expire, retry after 401 | one live pair per session; a refresh is spent once; waiting requests share one refresh |
| Realtime client: `broadcast.js`, `model.js`, `dataset.js` | socket, subscriptions, status map, polling timers | subscribe, reconnect, poll, apply events | the last word of the server is eventually shown; no timer or subscription leaks |
| Prediction client: `prediction.js` | current prediction, history, abort controller, polling timer | submit, poll, select, cancel | the answer shown belongs to the last request |
| Tile scheduler: `MapView.vue` | queue of tile requests, active count | request, start, finish, abort | never more than six requests in flight, every tile settles |
| Numeric core: `ModelTrainingService`, `ModelEvaluationService`, `DatasetRiskLabelGenerator`, `GenerateHeatmapJob::aggregate`, `InteractsWithPagination` | none | split, normalise, threshold, clamp, paginate | bounds and partition properties on every input |
| Readers: `ExportController`, NLQ, MCP server, `HexController` | none | queries | pure reads, not modelled |
| Access control: policies, `Role`, `UserController`, rate limits | none of their own | check a role, count per window | table look-ups, not modelled |

Behaviours that are hard here:

* **Stale copies.** Every job loads an Eloquent model at its start and saves the
  attributes it changed minutes later; JSON columns are written whole, and
  attributes equal to the loaded ones are not written at all.
* **Several workers.** Jobs of one model run in parallel; nothing locks a model.
* **Partial failure.** A status write can fail after a save; the worker can be
  killed between two saves; neither job has a `failed()` hook.
* **Check then act.** Idempotency keys, existing crime ids, token refresh and
  cached tiles are read, then written, with no lock.
* **Order.** Broadcast events are queued and may arrive in any order; the client
  mixes them with polled answers.
* **Turns of the event loop.** JavaScript runs to completion, but every `await`,
  timer, socket event and abort comes back to a page that has moved on: another
  submission, a new socket, another view, another tab with the same cookie.

## 2. Modules and plan

| Module | Instance (run) | Proofs | Composition |
|---|---|---|---|
| `ModelLifecycle` | `MCModelLifecycle` (`lifecycle_*`) | `ModelLifecycleProofs` | |
| `FreshReads`, `AggregationCache` | `MCAggregationCache` (`aggregates*`) | `AggregationCacheProofs` | the second implements the first |
| `PredictionRows`, `PredictionQueue` | `MCPredictionQueue` (`predictions`) | `PredictionQueueProofs` | the second implements the first |
| `CrimeIngestion` | `MCCrimeIngestion` (`crime_ingestion*`) | `CrimeIngestionProofs` | |
| `DatasetIngestion` | `MCDatasetIngestion` (`dataset_ingestion`) | `DatasetIngestionProofs` | |
| `BroadcastClient`, `ModelTracking` | `MCAdminPages` (`admin_pages`) | `ModelTrackingProofs` | `ModelTracking` uses the methods of `BroadcastClient` |
| `SubmissionKeys` | `MCAdminPages` (`admin_pages`) | `AdminPagesProofs` | |
| `DatasetsPage` | `MCAdminPages` (`admin_pages`) | `AdminPagesProofs` | |
| `PredictionClient`, `PredictionPage` | `MCBrowser` (`browser`) | `BrowserProofs` | the client in front of `PredictionRows`, the abstraction of the server |
| `TileScheduler` | `MCBrowser` (`browser`) | `BrowserProofs` | |
| `SessionTokens` | `MCBrowser` (`browser`) | `BrowserProofs` | |

`MCAdminPages` and `MCBrowser` hold several modules that share no state. A
behaviour of them is about one module, its *scene*; the others keep their first
state, in which none of their fair actions is enabled.

Left in the plan: the numeric core as functions (split, normalisation, thresholds,
month arithmetic, pagination); creation and activation of models in the browser's
store. Every safety property that a run checks is proved; what is left to prove are
statements of the modules that no run lists.

## 3. ModelLifecycle

`ModelLifecycle.tla` cuts each handler at every save, status write, cache access
and push, so that two handlers interleave exactly where the code lets them.

| TLA+ | Code |
|---|---|
| `row[m].status`, `row[m].metadata` | columns `status` and `metadata` of `models` |
| `seen[w]` | the Eloquent model a job loaded, with what it has since saved |
| `run`, `files`, `snapshot`, `queue`, `failedJobs` | `training_runs.status`, `models/<id>/<version>.json`, the Redis key, the Redis queue, `failed_jobs` |
| `stage`, `answer`, `cached` | where a request is in `train()`/`evaluate()`, the job its 202 names, `IdempotencyService` |
| `Check` .. `Dispatch` | the request, in code order; the job is pushed when the local `$dispatch` is destructed, after the answer was cached |
| `TrainRun` .. `TrainFailMark` | `TrainModelJob::handle`, catch block included |
| `EvaluateBegin` .. `EvaluateFail` | `EvaluateModelJob::handle` |
| `Find`, `Activate`, `Deactivate` | the controller's `findOrFail`, then `ModelRegistry` (one transaction) |
| `Store` with `returned` | `ModelStatusService::store`: the swallowed `SETEX`, then the event that may throw |

Bounds: `MaxFaults` (failed writes), `MaxKills`, `MaxRetries`. One of each is
enough to place a failure at every step of every handler next to an undisturbed
second job; two requests and two workers give every overlap of two jobs.

History variables, which no action reads, let the properties name what they excuse,
so that the excuse is no wider than what the code leaves behind:

| Variable | Records | Who may be excused by it |
|---|---|---|
| `promoted` | models last made active by a training | two active models of a group: nothing in the code deactivates the rivals of a training |
| `hit` | requests and jobs met by a failed write or a kill | unfinished work, only while its job waits in `failed_jobs` or is queued again (`Interrupted`), or its request was answered with a 500 (`CutShort`): a retried job is held to the claim again |
| `muted` | those of which Redis lost a report without an exception | a snapshot that still says "training 0%" |
| `refused` | those whose artifact the disk refused | an artifact that is named and missing |
| `recorded`, `exposed` | what every save of the metadata should leave; the saves made while another worker held a copy to write back | a metadata entry that is gone |

`MetadataKept` is about the loss of `EvaluateModelJob.php:85` with any number of workers: two
jobs of one model that overlap in two workers write the whole column from the copies they
loaded, and the second save drops the entry of the first. The code does lose it:
without `exposed` TLC finds the trace in `lifecycle_jobs` (both evaluations load the row, one
saves its entry, the other saves its older copy with only its own). The property says that
this is the only loss: no kill, retry, failure or request of an admin takes away
anything, and no save does of which nobody held an older copy.

Fairness: a PHP request that has begun and a live worker run on (`WF` of each request's and
each worker's next step). Nothing makes a request arrive, or an admin, a retry, an expiry or a
failure happen.

Abstractions: an artifact is named by its run, where the code names it by the second
(`YmdHis`), so two trainings of one model within one second, which overwrite each
other's file, are outside the model; consecutive progress reports that write the
same state are one step; a database that is away altogether is not modelled. The cache
in which `storeResponse` keeps an answer may fail (`StoreResponse`): the request
then answers 500, but its `PendingDispatch` still pushes the job while the exception
unwinds, unless that push fails, too.

| Run | Shows |
|---|---|
| `lifecycle_jobs` | two jobs of one model in two workers: status endpoint, runs, rows and disk agree with the work that is pending or visibly failed, and only overlapping copies lose metadata, with one failed write, kill and retry anywhere |
| `lifecycle_one_worker` | two models of a group on one worker, without faults: they are active together only through a training; a published artifact's run is completed in every state, hence also where a kill would cut the handler; runs end and the status settles |
| `lifecycle_duplicates` (violation) | two simultaneous requests of one key queue two jobs, against `src/frontend/README.md:38` |
| `lifecycle_activate_race` (violation) | an activation that answers 200 leaves its model inactive |

One admin process suffices to interleave activations with trainings; two racing
activations are in `lifecycle_activate_race` and, for `OneChosenActive`, in the proof
(`ChosenIsUnique`, any number of admins), since two with the liveness
properties exceed the time of a run.

Met while modelling: `store()` guards the Redis write and says that failures should not prevent the request
(`ModelStatusService.php:109`), but the broadcast after it is pushed to the same
Redis without a guard. Its failure answers a 500 for a run that is saved as queued, or fails
a training that has completed.

## 4. AggregationCache and FreshReads

`FreshReads` is what the cached aggregates promise, with no cache in it: a batch is
stored, then announced, and a read never returns less than what was announced when
it began. `AggregationCache` is the code: the version entry, the aggregates cached
under it by `H3AggregationService`, the tiles cached above them by
`HeatmapTileController`, and `flushBuffer`'s insert and bump. The property `Fresh`
is `FreshReads!Spec` under the mapping in the module.

| TLA+ | Code |
|---|---|
| `version`, `entries` | the cache entry `h3_aggregations:version` and the cached results, in the database store |
| `Initialise`, `Create` | `rememberForever`: a read, then a write |
| `TileKey` .. `TileMiss`, `Respond` | `HeatmapTileController::__invoke`, with the key it builds from its own read of the version |
| `ReadVersion` .. `StoreAggregate` | `aggregateByBoundingBox`: key, look-up, query, store |
| `Insert`, `Increment`, `IncrementFails`, `ReadBack`, `WriteBack` | `flushBuffer` and `bumpCacheVersion` with its fallback |
| `Crash`, `Expire`, `Clear` | an importer that dies, the time to live, `cache:clear` |

`degraded` records that the version went back or had to be made up; the promise
lapses with it, which the violation run shows to be necessary. Queries do not share
entries, so one query and its tile stand for all. Fairness: a begun request and a begun
import go on, and entries expire, because both `remember` calls pass a time to live.

| Run | Shows |
|---|---|
| `aggregates` | entries count what their version announces; the caches implement `FreshReads` (two readers, one import, any number of reads); every inserted batch is in all entries from some time on, even if it was never announced |
| `aggregates_version_race` (violation) | a reader that creates the missing version entry overwrites a bump, against the comment of `bumpCacheVersion` |

## 5. PredictionRows and PredictionQueue

The transaction of `PredictionController::store` with the push inside it, and
`GenerateHeatmapJob` cut at each write. A row that no other process sees is `absent`: a worker
that is faster than the commit fails in `findOrFail`, outside the job's `try`. `results`
counts what a prediction has in `shap_values`, `prediction_outputs` and on the disk, and how
many SHAP values its last attempt owes (`due`, at most `ShapRows`, since the table keeps the
largest only): `createMany` inserts them one by one, so that a kill can leave some of them,
which the next attempt deletes. `Ack` is the worker's deletion of a job it has run: a worker
killed between the last save and the deletion leaves a job that can be retried although its
prediction is completed. Two predictions, two workers, two faults, two kills, two retries and
up to two SHAP values let an attempt be cut anywhere, also between two values, and run again
beside the other prediction's job. Fairness: requests and live workers go on.

`PredictionRows` is all that a browser can see of this: a status per prediction, which
appears as queued, is running or failed again and again, and ends only from running.
`RowsAdvance` is that module's specification as a property of `PredictionQueue`; the
prediction page (section 10) is checked against `PredictionRows`, so that neither
run needs the other's states.

`predictions` shows that a prediction has at most one job, that a completed one is whole, that
a pending one has work behind it, that the rows advance as promised, and that submitted ones
end unless a kill, a failure or an early worker met them. The job of a pending prediction is
in the queue, in a worker, or in `failed_jobs`, and there only after a kill or when a worker
came before the commit: the code does leave such a prediction queued until an operator
retries, and a retry takes it up (`RowsAdvance`). What the heatmap contains is not modelled.

## 6. CrimeIngestion

`PoliceCrimeIngestionService::ingest` for one month, by several callers at once.
The archive is a sequence of blocks tagged with the version published when they were
served, so that a resumed download of a republished archive, a gap and a truncated file are
different from the real one; a checksum is the identity of that sequence.

| TLA+ | Code |
|---|---|
| `link`, `content`, `dl[i].file` | the path `<month>.zip.part`, the files, the open handle or the renamed archive; a rename or unlink leaves the handles of others open |
| `Metadata` .. `Rename` | `downloadArchive`, one action per request, unlink, open, write, check and rename |
| `ReadChunk`, `Lookup`, `Insert` | `importArchive` and `flushBuffer`: rows up to a full buffer, identifiers that exist, one insert statement |
| `Complete`, `Fail` | the end of the `try` and the `catch` of `ingest`, with the clean-up |
| `server` | whether ranges are offered and honoured, a length and a checksum are sent |

`torn` names ingests whose file another one wrote or replaced after its verification,
`overlapped` those that ran while another one did. The code has no lock there, and the properties
claim nothing of an ingest that is both (`Torn`); a write by an ingest that no longer runs,
or that was killed, is no excuse. `disturbed` and
`resumed` let `CleanIngestCompletes` speak of ingests that meet no failure and start from nothing:
one that resumes may fail in the code, too (the 416 of `crime_ingestion_resume`, and
`filesize()` in PHP's stat cache). `CountsAreTrue` has a part on dry runs: they insert nothing, and
one that ends with no other beside it has counted what is missing in the table.
A server without a checksum header is excused too: `header()` returns an empty string
for a missing one, which is then compared. Fairness: a live ingest goes on, since requests have
timeouts.

Bounds: two ingests, archives of two blocks and two versions (a file can be
half of one and half of the other), five rows with a duplicate, an invalid and an already
known one in two chunks, one fault, one kill. The dry run is the second ingest's choice.

| Run | Shows |
|---|---|
| `crime_ingestion` | unless an ingest at the same time tears the file: only verified archives are imported, completed runs have imported everything, and counts are true, those of a dry run included; undisturbed ingests complete; runs end |
| `crime_ingestion_resume` (violation) | a complete partial file left by a killed ingest makes the next ingest fail: the 416 branch cannot be reached |

Not modelled: how rows become crimes (dates, coordinates, H3), progress and notifications.

## 7. DatasetIngestion

The browser's dataset store submits, the controller stores an upload and finalises
it at once or queues `IngestRemoteDataset`, `finalise` makes the dataset ready and then
derives its features, and each status is broadcast by a queued job.

| TLA+ | Code |
|---|---|
| `row`, `features`, `disk` | tables `datasets` and `features`, `storage/app/datasets` |
| `pc[<<d, "request">>]`, `pc[<<d, "job">>]` | the request and the job of a dataset; `FinaliseStep` is shared, as `DatasetProcessingService::finalise` is |
| `DeleteFile`, `SaveFailed`, `AnnounceFailed` | the catch block of the job |
| `events`, `Deliver`, `Lose` | queued `DatasetStatusUpdated` jobs, run in any order by any worker, heard only by a subscribed browser |
| `ui`, `current`, `subscribed`, `waiting` | `uploadState`, `uploadDatasetId`, `realtimeSubscription`, `submitting` |

A file is named by the attempt that stored it; the temporary download, which the code
removes, is part of the step. Nothing reorders handlers of one dataset: it has one
request and at most one job. `Batches` gives each file its number of feature batches; it is 0 for a
JSON source, of which the code clears the features and returns, and for a file without a usable
row, which the service accepts. `hit` marks datasets met by a kill or by a failure that no
catch block handles: a push outside the `try`, a refused write, and an insert of
features, which is logged and forgotten. `Ack` is the worker's deletion of a job it has
run: a worker killed before it leaves a job that can be retried although its dataset is
ready and shown as completed, which is why `CompletedIsTrue` excepts retries.

`dataset_ingestion` (one remote dataset, one upload, one fault, one kill, two retries; the
remote file has two batches at first, then one, then none, so that a retry that forgot to
clear would be seen) shows that ready datasets are whole, that features never mix two files,
that failed datasets keep no file, that the browser shows a dataset as completed only when its
features are there, and, if requests and workers go on, that imports settle. The browser
itself may wait for ever when it subscribes after the last event; it has no poll.

## 8. Realtime: BroadcastClient and ModelTracking

`BroadcastClient` is the `BroadcastManager` of `broadcast.js` and `ModelTracking` the
status tracking of `model.js` on top of it. Every method of theirs runs to completion,
so it is an operator from the record of the tab, `t`, to the record it leaves; a
callback is a parameter or an operator of the module above. A step of `ModelTracking`
is a message, a close event, a timer, a settled promise, an answer, or a click.

| TLA+ | Code |
|---|---|
| `t.entry[c]` | the entry of a channel in `subscriptions`: `status`, `authPromise`, `retryTimer` |
| `t.sock[s]`, `t.ws`, `t.sid` | each WebSocket that is alive, `this.websocket`, `this.socketId` |
| `t.auths` | `POST /broadcasting/auth` in flight, also those whose entry forgot them |
| `t.snap`, `t.poll`, `t.post` | `statusSnapshots`, `statusPolling`, `actionState` |
| `Established`, `Succeeded`, `Rejected`, `NotifyAllError` | the cases of `handleMessage` |
| `EnsureTracking`, `StopTracking`, `ShowStatus`, `ClearStatusTracking` | the functions of those names in `model.js` |
| `server`, `news` | the status and jobs of a model (`ModelLifecycle` in short), the queued broadcasts |

One model, two sockets alive at a time, two authorisations and one status request in
flight, one submission and one turn of events (a list, leaving the page, a failed
request, a lost connection, a spell offline): a single disturbance meets every state
of the protocol, and two sockets are what a replaced one needs. With two turns the
instance has tens of millions of states.

`crossed`, a history field of a socket, names the channels that were left while the
server's confirmation of them was on its way. Such a frame is still read: if the
channel has been taken again by then, `handleMessage` marks the new entry as subscribed and
stops its poll, although its own authorisation may still fail, and then nobody hears for
it. `SubscribedIsHeard` excepts these channels. The run with one model does not reach the
case, since leaving the only channel closes the socket, and would not see the exception
missing; the proof for any number of models would.

`SubscribedIsHeard`, `SubscriptionsProgress`, `Watched` and `TrackedIsBusy` are stated
about single states: what keeps a model from being forgotten is named (a timer, a
request, a frame, an interval), instead of a liveness property over a graph of this
size. Met while modelling:

* `handleClose` runs for the close event of any socket. That of a replaced socket
  clears the fields of the new one, which stays open and is never closed: a leak,
  and a second connection.
* A frame signed for the old socket is sent on the new one and rejected; the retry
  timer mends it.
* `pusher:error` leaves entries in the status error, which nothing but the poll backs.
* `clearStatusTracking` unsubscribes, and the disconnection it causes starts the
  intervals that it had just cleared: polls survive leaving the page.
* A late answer "training" after the last event subscribes again.

## 9. SubmissionKeys and DatasetsPage

`SubmissionKeys` follows one action on one model from the form to the job: the slot
of `request.js` that keeps a key while the form does not change, the look-up, the
answer stored before the job is pushed, and its expiry. `JobsFollowForms` is the
promise of `src/frontend/README.md:38` with what the code needs to keep it: two
accepted submissions of a page name one job if and only if the form was the same all
the time, unless two requests of the key overlapped (`lifecycle_duplicates` shows
what happens then) or the answer expired. Nothing clears a key after a success:
training again with an unchanged form within five minutes is answered from the
cache and queues nothing, while the page says that training started. If the push fails,
the answer stays in the cache, and a retry is accepted for a job that does not exist. If
storing the answer fails, the page sees an error, and the job is pushed all the same or not.
Two forms and three submissions let a form change and change back around a request
that is still under way. Pages share no keys, and one is enough.

`DatasetsPage` has the table of `AdminDatasetsView.vue`, fetched every 30 seconds and on
every change of filter, and the wizard of `dataset.js`; both subscribe to
`datasets.<id>.status` on the one `BroadcastManager`, which keeps one set of callbacks per
channel. `visit` numbers the mounted instances of the view, since a list that was
asked in one may arrive in the next. `NoStrayCallbacks` says that the callbacks
of a channel are those of a component that still follows it, `TableCatchesUp` that the table
comes to agree with the server again and again, under the fairness of the interval
(a browser fires it) and of the answers (requests end). What the wizard shows is not
asserted: the table takes its channel, and whichever of the two unsubscribes first
ends it for the other, so that a wizard waits for ever and the table waits for its poll. A
list that arrives after the view was left subscribes for a view that nobody will
unmount again, until a later visit ends it.

Two datasets with three visits, submissions and filters in all and one list at a time,
and one dataset with two visits, two choices and two lists that overtake each other:
taking a channel needs one dataset, a wizard that moves on needs two.

## 10. The prediction page

`PredictionClient` is `prediction.js` cut at its awaits: `submitPrediction` with its
polling loop, and `selectHistoryPrediction`. `PredictionPage` puts it in front of
`PredictionRows`: a POST makes a row appear or not, and a GET reads a row at some
moment before its answer. Two submissions, one selection, one lost request. Time
(`Expire`) passes and requests are answered; no job has to end, since rows may stay
pending for ever.

`LoadingIsWork`: the form is disabled only while something is under way, or after a
submission that found no model, which returns before the `try` and leaves `loading` set
(`stranded`). `AbortedIsQuiet`: a cancelled submission shows no answer of the server
afterwards. `SubmissionsEnd`: submissions end, whatever the rows do. Met while modelling:

* An aborted GET is rejected as `CanceledError`, not `AbortError`, so that the selection
  which cancelled it is overwritten by a simulation.
* The loop looks at the clock before the signal: an aborted submission at its limit
  shows its last answer again.
* The outer `finally` clears `pollAbortController` and `loading` whosever they are.
* After the limit nothing polls, although the message promises automatic updates.
* `store()` does not read the Idempotency-Key that the POST carries.

## 11. TileScheduler

The queue of tile requests of `MapView.vue`, its six slots, and the Leaflet layer whose
tiles are aborted when they leave the view, when the layer is redrawn, hidden or
removed. A loop of aborts is cut at its turns, since each can start a queued request;
nothing else happens before it is over (`doomed`). An aborted running request keeps its
slot through the retries of `apiClient`. Four tiles on two slots show every order of
starts, ends and aborts with a queue of two; the proofs are for any numbers.

## 12. SessionTokens

Two tabs share the refresh cookie; each has its token, its one refresh under way, and
requests that wait for it. The server finds a refresh token, and later revokes and
issues, as two steps. A request can be lost before or after it is served (`doubtful`
names sessions that such a request was to revoke). Bounds: two requests per tab, two
events, i.e. clicks or lost requests; refreshes and expiries are unbounded until the
clicks end. Fairness: something that is under way goes on (`GoesOn`), for requests have
a time limit.

`CookieIsLive`: the cookie names a live session unless a request that revokes it is under
way or was never answered. `RequestsSettle`: every request ends, in particular none
waits for a refresh that waits for itself. Met while modelling: a refresh of one tab
revokes the access token of the other, which then refreshes, too; a refresh answered
after a logout signs the user in again; two refreshes that find one token both issue.

| Run | Shows |
|---|---|
| `admin_pages` | sections 8 and 9: subscriptions are heard or move on, busy models are watched, jobs follow forms, channels have owners, the table catches up |
| `browser` | sections 10 to 12: loading means work, cancelled submissions are quiet, submissions end; slots are used, only wanted tiles are fetched; the cookie is live, requests settle |

## 13. Proofs

`ModelLifecycleProofs.tla` proves, for every value of the constants:

* `TypeCorrect`: `Spec => []TypeOK`. The inductive invariant adds that a worker holds a job
  exactly while it is inside a handler and that an admin process that serves a request has
  loaded a model: without them the target of a save is not known to be a row.
* `ChosenIsUnique`: `Spec => []OneChosenActive`. The invariant is inductive by itself once
  types are known. `NoNewActive` names the steps that make nothing active; all but
  `TrainPublish` and `Activate` are such steps.
* `ArtifactsStayOnDisk`: `Spec => []ArtifactsOnDisk`. `ArtifactInv` adds what handlers hold: a
  job past the write has its artifact on the disk, and the copy of a model a worker has loaded
  names one that is there (`HandlersHoldStored`), so that a late save of a stale copy names
  nothing that is missing. Only an artifact that the disk itself refused is excepted.
* `ReportedWorkAlwaysPending` and `TrainingAlwaysHasTrainer`: `ReportedWorkIsPending` and
  `TrainingHasTrainer`, both from `WorkInv`: a model row that is training is that of a worker
  in `Trainers`, or of a training that was cut short and waits to be run again
  (`RowsTrained`), a snapshot that says busy has a request or a job behind it, or a request or
  job that visibly failed (`SnapshotsPending`), a job is in one place, once, and only after
  its push (`JobPlaced`), and each handler has recorded of its run what its step says
  (`RunInv`). `Works(w, step)` bounds what any step of a handler may do, so that one lemma
  (for all handlers) preserves `WorkInv`.
* `MetadataStaysKept`: `Spec => []MetadataKept`, with any number of workers, failures, kills
  and retries. `KeptInv` says of every copy that a worker has still to write back what it says
  of the row: it holds all that was recorded and not exposed (`CopiesKeep`), since a save made
  while such a copy is out is exposed at that moment.
* `PublishedStayCompleted`: `PublishedRunCompleted`, assuming no faults and no retries, as the
  property's own run does: a run that can still be written is not completed
  (`OpenNotCompleted`), and every artifact that a row or a loaded copy names is that of a
  completed run of the same model (`Completed`).

`AggregationCacheProofs.tla` proves, for any sets of readers and batches:

* `TypeCorrect`: `Spec => []TypeOK`, with the values a process holds at each step
  (`Placed`): an entry is stored under a version that was read, never under 0.
* `EntriesAreFresh`: `Spec => []EntriesReflectVersion`. The invariant must also say
  what a reader has in hand: what was announced up to the version it read is in the
  table when it queries, and in what it loaded when it stores.
* `CachesAreFresh`: `Spec => Fresh`, the refinement of `FreshReads`: the initial states
  agree, and each action is a step of the promise or a stutter.

`PredictionQueueProofs.tla` proves, for any predictions, workers and bounds, that `QueueInv`
is inductive and, from it, `QueueTypeCorrect`, `OneJobAlways`, `CompletedAlwaysWhole`,
`PendingAlwaysHasJob` and the refinement `QueueImplementsRows`. `QueueInv` has four parts: the
types; `JobInv`, where a job can be (in one worker's hands, once in the queue, or in the
failed jobs, and nowhere before it was pushed), from which `OneJobEach` follows, and with
`hit` and `early` `PendingHasJob`; `RowInv`, which ties the status of a row to the request
that commits it and to the step of its worker; `ResultInv`, what each step of the handler has
written so far (`Written`), counted against the attempts and, value by value, against the SHAP
values due (`DropShapStep`, `SaveShapStep`). The lemmas on `Append`, `Tail` and `Holds` say
what a queue without duplicates contains.

`BrowserProofs.tla` proves, for any tiles and any positive number of slots,
`TileTypeCorrect`, `SlotsAreAlwaysUsed` and `OnlyWantedAlwaysRuns`. The
strengthening says that queue, running requests and counter are disjoint and agree,
also within an aborting loop.

`DatasetIngestionProofs.tla` proves, for any datasets, mappings, batches and bounds,
`ReadyAlwaysWhole`, `FeaturesAlwaysOfOneFile`, `FailedNeverKeepsFile` and
`CompletedAlwaysTrue`. `IngestionInv` says of each dataset where its two handlers are and
which status goes with it (`Placed`), that the features are those of one file, the row's
while they are inserted (`OneFile`), when the file of an attempt is on the disk (`Files`),
and, of datasets that nothing has met, what has been stored and derived so far
(`WholeSoFar`: after `b - 1` batches, exactly those). `BrowserInv` adds that a queued event
"ready" and a shown "completed" are about a dataset that only a retry can change
(`Settled`). A step of one dataset disturbs no other (`OtherDataset`), so that each lemma of
an action speaks of one dataset only.

`AdminPagesProofs.tla` proves `CallbacksHaveOwners`: for any datasets and bounds,
`NoStrayCallbacks`. It is inductive once the owners that a channel can have are known
(`ChannelInv`); the work is in the loops over the rows of a list, which subscribe and
unsubscribe many channels in one step. It also proves `KeysFollowTheForm`: for any forms,
pages and submissions, `JobsFollowForms`. A key is issued for one form and a job is queued
for one key; the invariant follows the key through the page's slot, the requests, the
cached answers and the jobs.

`ModelTrackingProofs.tla` proves the four properties of section 8, for any finite set of
models, any number of sockets and all other bounds. Handlers are operators on the record of
the tab, and so is the invariant:

* `Core` is what holds even in the middle of a handler: the confirmations on a socket are
  of channels that the server has subscribed (`SocketSound`), a channel taken for subscribed
  is confirmed somewhere (`AllHeard`), and an entry with a promise has one in flight.
* `Good(t, X)` adds the connection (a socket without its id has its greeting in front of
  it; without a socket and with entries, the reconnect timer is set) and `Moving` for the
  channels of `X`. A handler may break `Moving` for its channel `c`: its lemma goes from
  `Good(t, X \ {c})` to `Good(u, X)`, where the channel has got a promise, a retry, a poll or
  a status that needs none. `RestartAll` starts from `Good(t, {})` and ends with all.
* `Sound` adds `Watched` and `TrackedIsBusy`; `Keeps` and `Grows` say what a handler does to
  the entries and to what follows a model, so that the store's part is about sets only.

Five handlers loop over entries, as folds. A fold is defined by `CHOOSE` of a recursive
function, and that one exists must be proved: `FoldExists` does it for any function on
finite sets, and `SubsetInduction` is induction over the subsets of a finite set for a set
of subsets, which needs no operator as a parameter.

An invariant without `crossed` holds in the run with one model and is false with two: the
attempt to prove it is what found the crossed confirmations.

`BrowserProofs.tla` proves `CookieStaysLive`, too: for any tabs and bounds, `CookieIsLive`.
A session that is issued and not yet answered is a secret: it is live, and no cookie and no
request names it, so that nothing can revoke it before its answer sets the cookie
(`NewRefreshes`, `NewLogins`, `Named`); the rest of the invariant is what requests under way
hold (`CookieHeld`). For the prediction page, in front of the server's rows and for any number
of submissions and selections, it proves `PageLoadsForWork` and `PageKeepsQuiet`:
only a submission whose POST was answered can hold the abort controller or be aborted
(`PageInv`), and the steps after that show an answer only while it is not aborted or when
its time limit has passed.

`CrimeIngestionProofs.tla` proves the four invariants of the run, for any number of
ingests, any archive, any server and any chunk size, with the exceptions they state, and
five invariants on top of `TypeInv`:

* `AloneInv`: two active ingests overlap, and only an ingest that overlaps another is torn.
* `VerifiedInv`, for `ImportsAlwaysVerified`: the archive an ingest has verified is
  under the path until it is renamed, and then in the file the ingest holds.
  `KeepsArchives` is what a step of one ingest may do to the archives of the others.
  `FreshFile` shows by counting that there is always a file nobody holds to be created.
* `Ledger`, for `CompletedAlwaysImported` and `CountsAlwaysTrue`: the rows read so far
  (`Seen`), less the chunk at hand, are in the table and are what `detected` counts, and
  `expected` counts what this ingest inserted. `ChunkAdds` shows that chunks are disjoint
  and that the first one without a new row is the last.
* `DryLedger`, for the part of `CountsAlwaysTrue` on dry runs: while no other ingest runs,
  `expected` counts the rows read so far that are not in the table.
* `CleanInv`, for `CleanIngestAlwaysCompletes`: an undisturbed ingest that resumed nothing
  is the only active one, and `Progress` says at each step what it has on the disk: after
  `next - 1` blocks, that prefix of the archive (`Prefixes`).

The proof about any number of ingests found what the run of two could not: a third ingest
can create the path anew, to append to it, between another one's verification and
its rename, after the second ingest took the first file away. The ingest that verified
then renames a file it never verified, and `torn` records it.

Assumptions are those of the modules (`VersionAssumption`, `ProcessAssumption`,
`NoneAssumption`, the bounds in `Nat`), which TLC evaluates in every run. The
type invariants are proved and not listed in the runs.

Only model-checked: the liveness properties (`RunsFinish`, `StatusSettles`, `EventuallySeen`,
`PredictionsEnd`, `RunsEnd`, `ImportsSettle`, `SubmissionsEnd`, `TableCatchesUp`,
`RequestsSettle`), which the prover does not handle under fairness. Every invariant and
every action property of the passing runs is proved.

## 14. Not modelled

The components with status `not_modelled` in `PROJECT.json`, with their reasons. Database and
cache outages in general, clocks, and the content of files and answers are outside all
modules. In the browser: views, forms and formatting; `MobileApp.vue`, which nothing imports,
and `HexMap.vue`, which only it does; the history list with its filters; the list of users;
creating, activating and deactivating models in the store. More than half of the JavaScript
lines of the repository are `backend/scripts/h3-js-bundle`, a vendored build of a library.
Liveness of `ModelTracking` is out of TLC's reach at the bounds where the hazards appear.
