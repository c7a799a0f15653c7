-------------------------- MODULE DatasetIngestion --------------------------
(***************************************************************************)
(* The ingestion of datasets: DatasetController::ingest stores an upload   *)
(* and finalises it at once, or queues IngestRemoteDataset for a URL;      *)
(* DatasetProcessingService::finalise makes the dataset ready and derives  *)
(* its features; each change of status is broadcast by a queued job, so    *)
(* that the events of a dataset arrive in any order, or after the browser  *)
(* has stopped to listen.  The browser is the dataset store, which submits *)
(* one dataset after the other and shows the state of the last one.        *)
(***************************************************************************)
EXTENDS Naturals

CONSTANTS
    Datasets,    \* submissions of the browser, and the rows they create
    Remote,      \* those with source_type url
    Mapped,      \* those with a complete schema mapping
    Batches,     \* insert statements that the features of each file take: none for
                 \* a JSON source, which gives no rows, or when no row is usable
    NoDataset,
    MaxFaults,   \* bound: failed pushes, downloads, previews, writes and inserts
    MaxKills,    \* bound: requests and jobs killed
    MaxRetries   \* bound: artisan queue:retry, over all datasets

ASSUME DatasetAssumption == Remote \subseteq Datasets /\ Mapped \subseteq Datasets /\ NoDataset \notin Datasets
ASSUME BoundsAssumption == MaxFaults \in Nat /\ MaxKills \in Nat /\ MaxRetries \in Nat

\* A file is named by the attempt that stored it; a retry may store another file.
Attempts == 1 .. (MaxRetries + 1)
NoFile == 0

ASSUME BatchesAssumption == Batches \in [Datasets \X Attempts -> Nat]

\* The features that are derived from a file, by attempt and batch.
FeaturesOf(file) == {file[2]} \X (1 .. Batches[file])

Status == {"none", "pending", "processing", "ready", "failed"}
Row == [status: Status, file: Attempts \cup {NoFile}]

\* The request of a dataset and its job; both may finalise it.
Handlers == Datasets \X {"request", "job"}
Finalising == {"preview", "clear", "insert", "announceReady"}
Steps == Finalising \cup
         {"none", "save", "announce", "dispatch", "ok", "error", "answered",
          "queued", "announceStart", "download", "name",
          "delete", "saveFailed", "announceFailed", "failed", "ack", "done"}

Events == [dataset: Datasets, attempt: Attempts, status: Status]

VARIABLES
    row,         \* the table datasets
    features,    \* the features of each dataset, by attempt and batch
    disk,        \* files under datasets/
    pc,          \* where each handler is
    attempt,     \* attempt of each dataset's job, 1 for a request
    batch,       \* next batch of features of each dataset
    events,      \* queued broadcasts
    ui,          \* uploadState of the store
    current,     \* uploadDatasetId
    subscribed,  \* the dataset whose channel is subscribed
    waiting,     \* the dataset whose POST is not answered (submitting)
    hit,         \* history: datasets met by a kill or by a failure nothing handles
    killed,      \* history: datasets whose job was killed
    retried,     \* history: datasets whose job was retried
    faults, kills

serverVars == <<row, features, disk>>
handlerVars == <<attempt, batch>>
clientVars == <<ui, current, subscribed, waiting>>
historyVars == <<hit, killed, retried>>
boundVars == <<faults, kills>>
vars == <<serverVars, pc, handlerVars, events, clientVars, historyVars, boundVars>>

Init ==
    /\ row = [d \in Datasets |-> [status |-> "none", file |-> NoFile]]
    /\ features = [d \in Datasets |-> {}]
    /\ disk = {}
    /\ pc = [h \in Handlers |-> "none"]
    /\ attempt = [d \in Datasets |-> 1]
    /\ batch = [d \in Datasets |-> 1]
    /\ events = {}
    /\ ui = "idle" /\ current = NoDataset /\ subscribed = NoDataset /\ waiting = NoDataset
    /\ hit = {} /\ killed = {} /\ retried = {}
    /\ faults = 0 /\ kills = 0

Request(d) == <<d, "request">>
Job(d) == <<d, "job">>
Live(h) == pc[h] \notin {"none", "answered", "queued", "failed", "done"}
File(d) == <<d, attempt[d]>>
Named(d) == <<d, row[d].file>>

Go(h, from, to) ==
    /\ pc[h] = from
    /\ pc' = [pc EXCEPT ![h] = to]

NoFault == UNCHANGED <<historyVars, boundVars>>

\* Something fails, and a catch block is there for it.
Fault ==
    /\ faults < MaxFaults
    /\ faults' = faults + 1
    /\ UNCHANGED <<historyVars, kills>>

\* Something fails that leaves the dataset as it is.
Unhandled(d) ==
    /\ faults < MaxFaults
    /\ faults' = faults + 1
    /\ hit' = hit \cup {d}
    /\ UNCHANGED <<killed, retried, kills>>

\* event(DatasetStatusUpdated::fromDataset(...)): the broadcast is queued.
Announce(d) ==
    events' = events \cup {[dataset |-> d, attempt |-> attempt[d], status |-> row[d].status]}

\* Where an exception leads: the catch block of the job, or an error answer.
Thrown(h) == IF h[2] = "job" THEN "delete" ELSE "error"

-----------------------------------------------------------------------------
(* DatasetController::ingest *)

\* An upload that cannot be stored is named all the same: storeAs does not throw.
Save(d) ==
    LET file == IF d \in Remote THEN NoFile ELSE 1
    IN  /\ Go(Request(d), "save", "announce")
        /\ row' = [row EXCEPT ![d] = [status |-> IF d \in Remote THEN "pending" ELSE "processing",
                                      file |-> file]]
        /\ \/ disk' = (IF d \in Remote THEN disk ELSE disk \cup {<<d, file>>}) /\ NoFault
           \/ d \notin Remote /\ Unhandled(d) /\ UNCHANGED disk
        /\ UNCHANGED <<features, handlerVars, events, clientVars>>

AnnounceNew(d) ==
    /\ \/ /\ Go(Request(d), "announce", IF d \in Remote THEN "dispatch" ELSE "preview")
          /\ Announce(d) /\ NoFault
       \/ Go(Request(d), "announce", "error") /\ Unhandled(d) /\ UNCHANGED events
    /\ UNCHANGED <<serverVars, handlerVars, clientVars>>

Dispatch(d) ==
    /\ pc[Request(d)] = "dispatch"
    /\ \/ pc' = [pc EXCEPT ![Request(d)] = "ok", ![Job(d)] = "queued"] /\ NoFault
       \/ pc' = [pc EXCEPT ![Request(d)] = "error"] /\ Unhandled(d)
    /\ UNCHANGED <<serverVars, handlerVars, events, clientVars>>

-----------------------------------------------------------------------------
(* IngestRemoteDataset::handle *)

Begin(d) ==
    /\ Go(Job(d), "queued", "announceStart")
    /\ row' = [row EXCEPT ![d].status = "processing"]
    /\ UNCHANGED <<features, disk, handlerVars, events, clientVars, historyVars, boundVars>>

\* Before the try block.
AnnounceStart(d) ==
    /\ \/ Go(Job(d), "announceStart", "download") /\ Announce(d) /\ NoFault
       \/ Go(Job(d), "announceStart", "failed") /\ Unhandled(d) /\ UNCHANGED events
    /\ UNCHANGED <<serverVars, handlerVars, clientVars>>

\* The download to a temporary file, which the code removes itself, and its move.
DownloadFile(d) ==
    /\ \/ Go(Job(d), "download", "name") /\ disk' = disk \cup {File(d)} /\ NoFault
       \/ Go(Job(d), "download", "delete") /\ Fault /\ UNCHANGED disk
    /\ UNCHANGED <<row, features, handlerVars, events, clientVars>>

NameFile(d) ==
    /\ Go(Job(d), "name", "preview")
    /\ row' = [row EXCEPT ![d].file = attempt[d]]
    /\ UNCHANGED <<features, disk, handlerVars, events, clientVars, historyVars, boundVars>>

\* Mutant: the file of the attempt stays on the disk.
DeleteFileForgotten(d) ==
    /\ Go(Job(d), "delete", "saveFailed")
    /\ UNCHANGED <<serverVars, handlerVars, events, clientVars, historyVars, boundVars>>

\* The catch block: the file of the attempt is deleted, then the row is marked.
DeleteFile(d) ==
    /\ Go(Job(d), "delete", "saveFailed")
    /\ disk' = disk \ {File(d)}
    /\ UNCHANGED <<row, features, handlerVars, events, clientVars, historyVars, boundVars>>

\* Mutant: the catch block only reports.
SaveFailedForgotten(d) ==
    /\ Go(Job(d), "saveFailed", "announceFailed")
    /\ UNCHANGED <<serverVars, handlerVars, events, clientVars, historyVars, boundVars>>

SaveFailed(d) ==
    /\ Go(Job(d), "saveFailed", "announceFailed")
    /\ row' = [row EXCEPT ![d] = [status |-> "failed", file |-> NoFile]]
    /\ UNCHANGED <<features, disk, handlerVars, events, clientVars, historyVars, boundVars>>

AnnounceFailed(d) ==
    /\ Go(Job(d), "announceFailed", "failed")
    /\ \/ Announce(d) /\ NoFault
       \/ Fault /\ UNCHANGED events
    /\ UNCHANGED <<serverVars, handlerVars, clientVars>>

-----------------------------------------------------------------------------
(* DatasetProcessingService::finalise, called by the request or by the job *)

\* Mutant: the features are announced as ready before they are derived.
MakeReadyAnnounced(h) ==
    LET d == h[1]
    IN  /\ Go(h, "preview", IF d \in Mapped THEN "clear" ELSE "announceReady")
        /\ row' = [row EXCEPT ![d].status = "ready"]
        /\ events' = events \cup {[dataset |-> d, attempt |-> attempt[d], status |-> "ready"]}
        /\ NoFault
        /\ UNCHANGED <<features, disk, handlerVars, clientVars>>

\* The preview, the metadata and the status; the features come after it.
MakeReady(h) ==
    LET d == h[1]
    IN  /\ \/ /\ Go(h, "preview", IF d \in Mapped THEN "clear" ELSE "announceReady")
              /\ row' = [row EXCEPT ![d].status = "ready"]
              /\ NoFault
           \/ /\ Go(h, "preview", Thrown(h))
              /\ UNCHANGED row
              /\ IF h = Job(d) THEN Fault ELSE Unhandled(d)
        /\ UNCHANGED <<features, disk, handlerVars, events, clientVars>>

\* Mutant: features of an earlier attempt stay.
ClearFeaturesForgotten(h) ==
    LET d == h[1]
    IN  /\ Go(h, "clear", IF Named(d) \in disk /\ Batches[Named(d)] # 0 THEN "insert"
                                                                  ELSE "announceReady")
        /\ batch' = [batch EXCEPT ![d] = 1]
        /\ UNCHANGED <<serverVars, attempt, events, clientVars, historyVars, boundVars>>

\* populateFeaturesFromMapping returns early when the file is not there; a file without
\* usable rows clears the features and inserts none.
ClearFeatures(h) ==
    LET d == h[1]
        found == Named(d) \in disk
    IN  /\ Go(h, "clear", IF found /\ Batches[Named(d)] # 0 THEN "insert" ELSE "announceReady")
        /\ features' = IF found THEN [features EXCEPT ![d] = {}] ELSE features
        /\ batch' = [batch EXCEPT ![d] = 1]
        /\ UNCHANGED <<row, disk, attempt, events, clientVars, historyVars, boundVars>>

\* Mutant: the last batch, which is not full, is not inserted.
InsertBatchFullOnly(h) ==
    LET d == h[1]
        last == batch[d] = Batches[Named(d)]
    IN  /\ Go(h, "insert", IF last THEN "announceReady" ELSE "insert")
        /\ features' = IF last THEN features
                       ELSE [features EXCEPT ![d] = @ \cup {<<row[d].file, batch[d]>>}]
        /\ batch' = [batch EXCEPT ![d] = IF last THEN 1 ELSE @ + 1]
        /\ NoFault
        /\ UNCHANGED <<row, disk, attempt, events, clientVars>>

\* One insert statement.  A failed one ends the derivation, and only the log knows.
InsertBatch(h) ==
    LET d == h[1]
        last == batch[d] = Batches[Named(d)]
    IN  /\ \/ /\ Go(h, "insert", IF last THEN "announceReady" ELSE "insert")
              /\ features' = [features EXCEPT ![d] = @ \cup {<<row[d].file, batch[d]>>}]
              /\ batch' = [batch EXCEPT ![d] = IF last THEN 1 ELSE @ + 1]
              /\ NoFault
           \/ /\ Go(h, "insert", "announceReady")
              /\ Unhandled(d)
              /\ batch' = [batch EXCEPT ![d] = 1]
              /\ UNCHANGED features
        /\ UNCHANGED <<row, disk, attempt, events, clientVars>>

AnnounceReady(h) ==
    LET d == h[1]
    IN  /\ \/ /\ Go(h, "announceReady", IF h = Job(d) THEN "ack" ELSE "ok")
              /\ Announce(d) /\ NoFault
           \/ Go(h, "announceReady", Thrown(h)) /\ Fault /\ UNCHANGED events
        /\ UNCHANGED <<serverVars, handlerVars, clientVars>>

-----------------------------------------------------------------------------
(* The browser: stores/dataset.js *)

\* submitIngestion, up to its await.
Submit(d) ==
    /\ waiting = NoDataset
    /\ Go(Request(d), "none", "save")
    /\ waiting' = d
    /\ ui' = IF d \in Remote THEN "processing" ELSE "uploading"
    /\ current' = NoDataset /\ subscribed' = NoDataset
    /\ UNCHANGED <<serverVars, handlerVars, events, historyVars, boundVars>>

\* Its rest, with the answer: an upload is ready, a remote dataset is pending.
Answered(d) ==
    /\ waiting = d
    /\ waiting' = NoDataset
    /\ \/ /\ Go(Request(d), "ok", "answered")
          /\ current' = d
          /\ ui' = IF d \in Remote THEN "processing" ELSE "completed"
          /\ subscribed' = IF d \in Remote THEN d ELSE subscribed
       \/ Go(Request(d), "error", "answered") /\ ui' = "error" /\ UNCHANGED <<current, subscribed>>
    /\ UNCHANGED <<serverVars, handlerVars, events, historyVars, boundVars>>

\* A broadcast job is run, and the event reaches the browser if it listens to it:
\* handleRealtimeStatus.
Deliver(e) ==
    LET ends == e.status \in {"ready", "failed"}
    IN  /\ e \in events
        /\ events' = events \ {e}
        /\ IF subscribed = e.dataset
           THEN /\ ui' = CASE e.status = "ready" -> "completed"
                           [] e.status = "failed" -> "error"
                           [] e.status = "pending" -> ui
                           [] OTHER -> "processing"
                /\ subscribed' = IF ends THEN NoDataset ELSE subscribed
           ELSE UNCHANGED <<ui, subscribed>>
        /\ UNCHANGED <<serverVars, pc, handlerVars, current, waiting, historyVars, boundVars>>

\* The event is lost: the socket is down or not yet authorised.
Lose(e) ==
    /\ e \in events
    /\ events' = events \ {e}
    /\ UNCHANGED <<serverVars, pc, handlerVars, clientVars, historyVars, boundVars>>

\* Also while a POST is under way, whose answer is then handled as usual.
Reset ==
    /\ ui' = "idle" /\ current' = NoDataset /\ subscribed' = NoDataset
    /\ UNCHANGED <<serverVars, pc, handlerVars, events, waiting, historyVars, boundVars>>

-----------------------------------------------------------------------------
(* Queue and processes *)

\* A killed request is answered by an error, a killed job is recorded as failed.
Kill(h) ==
    /\ Live(h) /\ pc[h] \notin {"ok", "error"}
    /\ kills < MaxKills
    /\ kills' = kills + 1
    /\ pc' = [pc EXCEPT ![h] = IF h[2] = "job" THEN "failed" ELSE "error"]
    /\ hit' = hit \cup {h[1]} /\ killed' = killed \cup {h[1]}
    /\ UNCHANGED <<serverVars, handlerVars, events, clientVars, retried, faults>>

\* artisan queue:retry
Retry(d) ==
    /\ attempt[d] <= MaxRetries
    /\ Go(Job(d), "failed", "queued")
    /\ attempt' = [attempt EXCEPT ![d] = @ + 1]
    /\ batch' = [batch EXCEPT ![d] = 1]
    /\ retried' = retried \cup {d}
    /\ UNCHANGED <<serverVars, events, clientVars, hit, killed, boundVars>>

\* The worker deletes the job from the queue.
Ack(d) ==
    /\ Go(Job(d), "ack", "done")
    /\ UNCHANGED <<serverVars, handlerVars, events, clientVars, historyVars, boundVars>>

RequestStep(d) == Save(d) \/ AnnounceNew(d) \/ Dispatch(d)

JobStep(d) ==
    \/ Begin(d) \/ AnnounceStart(d) \/ DownloadFile(d) \/ NameFile(d)
    \/ DeleteFile(d) \/ SaveFailed(d) \/ AnnounceFailed(d) \/ Ack(d)

FinaliseStep(h) == MakeReady(h) \/ ClearFeatures(h) \/ InsertBatch(h) \/ AnnounceReady(h)

HandlerStep(d) ==
    \/ RequestStep(d) \/ JobStep(d) \/ FinaliseStep(Request(d)) \/ FinaliseStep(Job(d))

Next ==
    \/ \E d \in Datasets : HandlerStep(d) \/ Submit(d) \/ Answered(d) \/ Retry(d)
    \/ \E e \in events : Deliver(e) \/ Lose(e)
    \/ \E h \in Handlers : Kill(h)
    \/ Reset

Spec == Init /\ [][Next]_vars

\* PHP requests and queue workers go on.
FairSpec == Spec /\ \A d \in Datasets : WF_vars(HandlerStep(d))

-----------------------------------------------------------------------------
(* Properties *)

Unattended(d) == ~Live(Request(d)) /\ ~Live(Job(d))

\* A ready dataset that no handler works on has its file, and exactly the features
\* of that file if it has a mapping, unless a kill or a swallowed failure met it.
ReadyIsWhole ==
    \A d \in Datasets \ hit :
        row[d].status = "ready" /\ Unattended(d) =>
            /\ Named(d) \in disk
            /\ features[d] = IF d \in Mapped THEN FeaturesOf(Named(d)) ELSE {}

\* The features of a dataset never come from two files, however often its job was
\* cut and retried.
FeaturesOfOneFile ==
    \A d \in Datasets : \A f, g \in features[d] : f[1] = g[1]

\* A failed dataset names no file and has none on the disk; only a killed job can
\* leave one behind.
FailedKeepsNoFile ==
    \A d \in Datasets :
        row[d].status = "failed" => /\ row[d].file = NoFile
                                    /\ \A f \in disk : f[1] = d => d \in killed

\* When the browser shows a dataset as completed, it is ready and all its features
\* are derived, although events come in any order; a retry may undo it.
CompletedIsTrue ==
    ui = "completed" =>
        \/ row[current].status = "ready" /\ pc[Request(current)] \notin Finalising
                                         /\ pc[Job(current)] \notin Finalising
        \/ current \in retried

\* Every dataset that is pending or processing becomes ready or failed, unless a kill
\* or a failure that nothing handles has met it.
ImportsSettle ==
    \A d \in Datasets :
        row[d].status \in {"pending", "processing"} ~> row[d].status \in {"ready", "failed"} \/ d \in hit
=============================================================================
