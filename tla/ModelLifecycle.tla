--------------------------- MODULE ModelLifecycle ---------------------------
(***************************************************************************)
(* Life of the predictive models of the API: training and evaluation       *)
(* requests (ModelController), the jobs they queue (TrainModelJob and      *)
(* EvaluateModelJob, run by several Horizon workers), the registry that    *)
(* activates and deactivates models (ModelRegistry), the status snapshot   *)
(* kept in Redis (ModelStatusService) and the cached answers of repeated   *)
(* requests (IdempotencyService).                                          *)
(*                                                                         *)
(* A handler is cut at every point where another process can see or change *)
(* what it shares: one action per database save, status write, cache       *)
(* access and queue push.  What a job holds in memory from its first read  *)
(* is `seen`: saves write back what was read then, not what the row holds  *)
(* now.                                                                    *)
(***************************************************************************)
EXTENDS Naturals, Sequences, FiniteSets

CONSTANTS
    Models,      \* predictive models (rows of the table "models")
    Tag,         \* Tag[m]: the tag column of model m, which may be null
    Area,        \* Area[m]: the area column of model m, which may be NoArea
    NoArea,      \* the null area
    Requests,    \* train and evaluate requests; one request queues one job
                 \* at most, and a training run is named by its request
    Keys,        \* values of the Idempotency-Key header, per user
    NoKey,       \* a request without that header
    Workers,     \* queue worker processes
    Admins,      \* processes serving activate and deactivate requests
    None,        \* null: no artifact, no job, no cached answer
    MaxFaults,   \* bound: how often Redis or the disk fails on a write
    MaxKills,    \* bound: how often a worker is killed in the middle of a job
    MaxRetries   \* bound: how often an operator retries a failed job

ASSUME BoundsAssumption ==
    /\ MaxFaults \in Nat
    /\ MaxKills \in Nat
    /\ MaxRetries \in Nat

ASSUME NullAssumption ==
    /\ None \notin Requests
    /\ NoKey \notin Keys

Kinds == {"train", "evaluate"}

\* What a client submits: the operation, its target and its key.
Forms == [kind: Kinds, model: Models, key: Keys \cup {NoKey}]

\* The columns of a model row that the handlers below read or write.
\* "artifact" and "evals" are the two entries of the JSON column "metadata";
\* an artifact is named by the run that wrote it to disk.
ModelStatus == {"draft", "training", "active", "inactive", "failed"}
Metadata == [artifact: Requests \cup {None}, evals: SUBSET Requests]
Row == [status: ModelStatus, metadata: Metadata]

BlankRow == [status |-> "draft", metadata |-> [artifact |-> None, evals |-> {}]]

TrainingStatus == {"none", "queued", "running", "completed", "failed"}

\* States of the Redis snapshot; "none" when the key is absent.
SnapshotStates == {"none", "training", "evaluating", "idle", "failed"}

\* Where a request stands.  "status500", "store500" and "push500" are the ways a
\* request dies after its work has begun; "unstored" is on its way to one of the
\* last two.
Stages == {"new", "checked", "saved", "marked", "stored", "accepted",
           "status500", "unstored", "store500", "push500"}

\* Where a worker stands: the next statement of the job's handle().
TrainSteps == {"run", "row", "begin", "fit", "fitted", "stored", "complete",
               "publish", "settle", "failRun", "failRow", "failMark"}
EvaluateSteps == {"evBegin", "evCompute", "evProgress", "evSave", "evSettle",
                  "evFail"}
WorkerSteps == {"free"} \cup TrainSteps \cup EvaluateSteps

VARIABLES
    form,        \* what each request submits; fixed when it arrives
    stage,       \* progress of each request through its controller action
    answer,      \* the run or job a 202 response names
    cached,      \* answers stored by IdempotencyService, per operation, model and key
    run,         \* status column of each training run
    row,         \* the model rows
    files,       \* artifacts on the local disk
    snapshot,    \* model-status:<id> in Redis
    queue,       \* the Redis queue of pushed jobs
    pc,          \* next step of each worker
    job,         \* the job each worker executes
    seen,        \* the model row each job holds in memory
    failedJobs,  \* the failed_jobs table
    admin,       \* the activation request each admin process is serving
    promoted,    \* history: models whose active status was last written by a training
    recorded,    \* history: the metadata of each model had every save kept what
                 \* the others put there
    exposed,     \* history: jobs that saved metadata while another worker held an
                 \* older copy of it, still to be written back
    hit,         \* history: requests and jobs met by a failed write or by a kill
    muted,       \* history: those of which Redis lost a report without an exception
    refused,     \* history: those whose artifact the disk refused
    faults, kills, retries

apiVars == <<form, stage, answer, cached>>
dataVars == <<run, row, files, recorded, exposed>>
workerVars == <<pc, job, seen, failedJobs>>
adminVars == <<admin, promoted>>
killVars == <<kills, retries>>
faultVars == <<hit, muted, refused, faults>>
vars == <<apiVars, dataVars, snapshot, queue, workerVars, adminVars, killVars, faultVars>>

AdminStates == [op: {"free", "activate", "deactivate"}, model: Models \cup {None},
                status: ModelStatus]
FreeAdmin == [op |-> "free", model |-> None, status |-> "draft"]

Init ==
    /\ form \in [Requests -> Forms]
    /\ stage = [q \in Requests |-> "new"]
    /\ answer = [q \in Requests |-> None]
    /\ cached = [f \in Forms |-> None]
    /\ run = [q \in Requests |-> "none"]
    /\ row = [m \in Models |-> BlankRow]
    /\ files = {}
    /\ snapshot = [m \in Models |-> "none"]
    /\ queue = <<>>
    /\ pc = [w \in Workers |-> "free"]
    /\ job = [w \in Workers |-> None]
    /\ seen = [w \in Workers |-> BlankRow]
    /\ failedJobs = {}
    /\ admin = [a \in Admins |-> FreeAdmin]
    /\ promoted = {}
    /\ recorded = [m \in Models |-> BlankRow.metadata]
    /\ exposed = {}
    /\ hit = {} /\ muted = {} /\ refused = {}
    /\ faults = 0 /\ kills = 0 /\ retries = 0

\* A write of q fails: Redis or the cache is away, or the disk is full.
Fault(q) ==
    /\ faults < MaxFaults
    /\ faults' = faults + 1
    /\ hit' = hit \cup {q}

-----------------------------------------------------------------------------
(* ModelStatusService *)

StateOf(kind) == IF kind = "train" THEN "training" ELSE "evaluating"

\* store(), on behalf of request or job q.  SETEX and PUBLISH sit in a try block
\* that swallows their failure; the broadcast event is dispatched after it and is
\* itself pushed to Redis, so its failure reaches the caller.  `returned` tells
\* whether the call returned.
Store(q, m, state, returned) ==
    \/ /\ returned
       /\ snapshot' = [snapshot EXCEPT ![m] = state]
       /\ UNCHANGED faultVars
    \/ /\ Fault(q)
       /\ snapshot' \in {snapshot, [snapshot EXCEPT ![m] = state]}
       /\ muted' = IF returned /\ snapshot'[m] # state THEN muted \cup {q} ELSE muted
       /\ UNCHANGED refused

\* The snapshot's TTL runs out.
SnapshotExpires(m) ==
    /\ snapshot[m] # "none"
    /\ snapshot' = [snapshot EXCEPT ![m] = "none"]
    /\ UNCHANGED <<apiVars, dataVars, queue, workerVars, adminVars, killVars, faultVars>>

\* getStatus(): the snapshot, or the row's status when the key is absent.
GetStatus(m) == IF snapshot[m] = "none" THEN row[m].status ELSE snapshot[m]

-----------------------------------------------------------------------------
(* ModelController::train and ::evaluate *)

\* getCachedResponse: a request that repeats a key is answered from the cache
\* with 202 and does nothing else.
Check(q) ==
    /\ stage[q] = "new"
    /\ LET earlier == IF form[q].key = NoKey THEN None ELSE cached[form[q]]
       IN  /\ stage' = [stage EXCEPT ![q] = IF earlier # None THEN "accepted" ELSE "checked"]
           /\ answer' = [answer EXCEPT ![q] = earlier]
    /\ UNCHANGED <<form, cached, dataVars, snapshot, queue, workerVars, adminVars,
                   killVars, faultVars>>

\* train() saves the run as queued; evaluate() saves nothing.
SaveRun(q) ==
    /\ stage[q] = "checked"
    /\ form[q].kind = "train"
    /\ run' = [run EXCEPT ![q] = "queued"]
    /\ stage' = [stage EXCEPT ![q] = "saved"]
    /\ UNCHANGED <<form, answer, cached, row, files, recorded, exposed, snapshot, queue,
                   workerVars, adminVars, killVars, faultVars>>

\* markQueued; a failure here ends the request with a 500.
MarkQueued(q) ==
    /\ stage[q] = IF form[q].kind = "train" THEN "saved" ELSE "checked"
    /\ \E returned \in BOOLEAN :
        /\ Store(q, form[q].model, StateOf(form[q].kind), returned)
        /\ stage' = [stage EXCEPT ![q] = IF returned THEN "marked" ELSE "status500"]
    /\ UNCHANGED <<form, answer, cached, dataVars, queue, workerVars, adminVars, killVars>>

\* storeResponse, into the database cache; an exception of the cache leaves the
\* action.  The pending dispatch is still held by the local variable $dispatch, so
\* nothing has been pushed yet.
StoreResponse(q) ==
    /\ stage[q] = "marked"
    /\ \/ /\ cached' = IF form[q].key = NoKey THEN cached ELSE [cached EXCEPT ![form[q]] = q]
          /\ stage' = [stage EXCEPT ![q] = "stored"]
          /\ UNCHANGED faultVars
       \/ /\ form[q].key # NoKey
          /\ Fault(q)
          /\ stage' = [stage EXCEPT ![q] = "unstored"]
          /\ UNCHANGED <<cached, muted, refused>>
    /\ UNCHANGED <<form, answer, dataVars, snapshot, queue, workerVars, adminVars, killVars>>

\* The pending dispatch is destructed when the action is left, by its return or by
\* the exception of storeResponse: the job is pushed to Redis, or the push fails.
\* Only a return with a pushed job sends the 202, all else is a 500.
Dispatch(q) ==
    /\ stage[q] \in {"stored", "unstored"}
    /\ \/ /\ queue' = Append(queue, q)
          /\ stage' = [stage EXCEPT ![q] = IF @ = "stored" THEN "accepted" ELSE "store500"]
          /\ answer' = [answer EXCEPT ![q] = IF stage[q] = "stored" THEN q ELSE None]
          /\ UNCHANGED faultVars
       \/ /\ Fault(q)
          /\ stage' = [stage EXCEPT ![q] = "push500"]
          /\ UNCHANGED <<queue, answer, muted, refused>>
    /\ UNCHANGED <<form, cached, dataVars, snapshot, workerVars, adminVars, killVars>>

\* The cached answer outlives api.idempotency_ttl.
ResponseExpires(f) ==
    /\ cached[f] # None
    /\ cached' = [cached EXCEPT ![f] = None]
    /\ UNCHANGED <<form, stage, answer, dataVars, snapshot, queue, workerVars,
                   adminVars, killVars, faultVars>>

RequestStep(q) ==
    \/ Check(q) \/ SaveRun(q) \/ MarkQueued(q) \/ StoreResponse(q) \/ Dispatch(q)

-----------------------------------------------------------------------------
(* The queue workers *)

\* The model the job of worker w is about.
Target(w) == form[job[w]].model

\* The job goes on with `step` and holds `memory`; "done" ends it, and "throw" ends
\* it in failed_jobs, since one attempt is allowed.
Advance(w, step, memory) ==
    LET over == step \in {"done", "throw"}
    IN  /\ pc' = [pc EXCEPT ![w] = IF over THEN "free" ELSE step]
        /\ job' = [job EXCEPT ![w] = IF over THEN None ELSE @]
        /\ seen' = [seen EXCEPT ![w] = IF over THEN BlankRow ELSE memory]
        /\ failedJobs' = IF step = "throw" THEN failedJobs \cup {job[w]} ELSE failedJobs

\* A worker reserves the oldest job; handle() starts by loading the model row.
Reserve(w) ==
    /\ pc[w] = "free"
    /\ queue # <<>>
    /\ LET q == Head(queue)
       IN  /\ job' = [job EXCEPT ![w] = q]
           /\ seen' = [seen EXCEPT ![w] = row[form[q].model]]
           /\ pc' = [pc EXCEPT ![w] = IF form[q].kind = "train" THEN "run" ELSE "evBegin"]
    /\ queue' = Tail(queue)
    /\ UNCHANGED <<apiVars, dataVars, snapshot, failedJobs, adminVars, killVars, faultVars>>

\* The four kinds of steps of a handler, from step `at` to step `next`: nothing
\* shared, a status report, a save of the run, a save of the model.
Skip(w, at, next) ==
    /\ pc[w] = at
    /\ Advance(w, next, seen[w])
    /\ UNCHANGED <<apiVars, dataVars, snapshot, queue, adminVars, killVars, faultVars>>

Report(w, at, state, next, onError) ==
    /\ pc[w] = at
    /\ \E returned \in BOOLEAN :
        /\ Store(job[w], Target(w), state, returned)
        /\ Advance(w, IF returned THEN next ELSE onError, seen[w])
    /\ UNCHANGED <<apiVars, dataVars, queue, adminVars, killVars>>

SaveRunAs(w, at, status, next) ==
    /\ pc[w] = at
    /\ run' = [run EXCEPT ![job[w]] = status]
    /\ Advance(w, next, seen[w])
    /\ UNCHANGED <<apiVars, row, files, recorded, exposed, snapshot, queue, adminVars,
                   killVars, faultVars>>

\* The steps up to the last save of the metadata that a job loaded at its start.
BeforeSave == {"run", "row", "begin", "fit", "fitted", "stored", "complete", "publish",
               "evBegin", "evCompute", "evProgress", "evSave"}

\* The job of worker w may still write back the metadata it holds of model m.
Holding(w, m) == pc[w] \in BeforeSave /\ Target(w) = m

\* History of the two saves that write the metadata column.
Record(w, at) ==
    /\ recorded' = CASE at = "publish" -> [recorded EXCEPT ![Target(w)].artifact = job[w]]
                    [] at = "evSave" -> [recorded EXCEPT ![Target(w)].evals = @ \cup {job[w]}]
                    [] OTHER -> recorded
    /\ exposed' = IF /\ at \in {"publish", "evSave"}
                     /\ \E v \in Workers \ {w} : Holding(v, Target(w))
                  THEN exposed \cup {job[w]} ELSE exposed

\* `saved` is the row after the save: Eloquent writes the changed attributes only.
SaveModel(w, at, saved, memory, next) ==
    /\ pc[w] = at
    /\ row' = [row EXCEPT ![Target(w)] = saved]
    /\ Advance(w, next, memory)
    /\ promoted' = IF at = "publish" THEN promoted \cup {Target(w)} ELSE promoted
    /\ Record(w, at)
    /\ UNCHANGED <<apiVars, run, files, snapshot, queue, admin, killVars, faultVars>>

(* TrainModelJob::handle *)

TrainRun(w) == SaveRunAs(w, "run", "running", "row")

\* A model that was loaded as training is not written again.
TrainRow(w) ==
    LET saved == IF seen[w].status = "training" THEN row[Target(w)]
                 ELSE [row[Target(w)] EXCEPT !.status = "training"]
    IN  SaveModel(w, "row", saved, [seen[w] EXCEPT !.status = "training"], "begin")

\* markProgress(5), before the try block: its failure skips the catch block.
TrainBegin(w) == Report(w, "begin", "training", "fit", "throw")

\* ModelTrainingService::train up to the artifact: the progress reports of 15 to
\* 75 percent write the same state and are one step; any failure of the dataset
\* or of the computation is the exception of the other disjunct.
TrainFit(w) ==
    \/ Report(w, "fit", "training", "fitted", "failRun")
    \/ Skip(w, "fit", "failRun")

\* Mutant: the artifact is never put on the disk.
TrainPutForgotten(w) == Skip(w, "fitted", "stored")

\* The artifact is put on the local disk.  The disk is configured not to throw and
\* the result of put() is not read, so a full disk goes unnoticed.
TrainPut(w) ==
    /\ pc[w] = "fitted"
    /\ \/ files' = files \cup {job[w]} /\ UNCHANGED faultVars
       \/ /\ Fault(job[w])
          /\ refused' = refused \cup {job[w]}
          /\ UNCHANGED <<files, muted>>
    /\ Advance(w, "stored", seen[w])
    /\ UNCHANGED <<apiVars, run, row, recorded, exposed, snapshot, queue, adminVars, killVars>>

\* Mutant: the model is saved before the run.
TrainReportPublishFirst(w) == Report(w, "stored", "training", "publish", "failRun")

\* The reports of 90 and 95 percent.
TrainReport(w) == Report(w, "stored", "training", "complete", "failRun")

TrainComplete(w) == SaveRunAs(w, "complete", "completed", "publish")

Published(metadata) == [status |-> "active", metadata |-> metadata]

\* Mutant: the metadata is replaced instead of merged.
TrainPublishReplacing(w) ==
    LET saved == Published([artifact |-> job[w], evals |-> {}])
    IN  SaveModel(w, "publish", saved, saved, "settle")

\* The model becomes active, with the metadata read by Reserve and the new
\* artifact.  Other models of the same tag and area are left as they are.
TrainPublish(w) ==
    LET saved == Published([seen[w].metadata EXCEPT !.artifact = job[w]])
    IN  SaveModel(w, "publish", saved, saved, "settle")

\* markIdle, inside the try block: its failure runs the catch block.
TrainSettle(w) == Report(w, "settle", "idle", "done", "failRun")

\* Mutant: the catch block leaves the run as it is.
TrainFailRunForgotten(w) == Skip(w, "failRun", "failRow")

\* The catch block: the run, the model, the snapshot, and the exception again.
TrainFailRun(w) == SaveRunAs(w, "failRun", "failed", "failRow")

\* Mutant: the catch block leaves the model as it is.
TrainFailRowForgotten(w) == Skip(w, "failRow", "failMark")

TrainFailRow(w) ==
    SaveModel(w, "failRow", [row[Target(w)] EXCEPT !.status = "failed"],
              [seen[w] EXCEPT !.status = "failed"], "failMark")

\* Mutant: the exception is rethrown without markFailed.
TrainFailMarkForgotten(w) == Skip(w, "failMark", "throw")

TrainFailMark(w) == Report(w, "failMark", "failed", "throw", "throw")

(* EvaluateModelJob::handle *)

\* markProgress(5), before the try block.
EvaluateBegin(w) == Report(w, "evBegin", "evaluating", "evCompute", "throw")

\* Metrics are the ones supplied with the request, or computed from the artifact
\* and a dataset; either may be missing or unreadable.
EvaluateCompute(w) == Skip(w, "evCompute", "evProgress") \/ Skip(w, "evCompute", "evFail")

EvaluateProgress(w) == Report(w, "evProgress", "evaluating", "evSave", "evFail")

\* The whole metadata column is written: the copy read by Reserve, and the new
\* entry.
EvaluateSave(w) ==
    LET metadata == [seen[w].metadata EXCEPT !.evals = @ \cup {job[w]}]
    IN  SaveModel(w, "evSave", [row[Target(w)] EXCEPT !.metadata = metadata],
                  [seen[w] EXCEPT !.metadata = metadata], "evSettle")

\* markProgress(85) and markIdle.
EvaluateSettle(w) == Report(w, "evSettle", "idle", "done", "evFail")

\* Mutant: the exception is rethrown without markFailed.
EvaluateFailForgotten(w) == Skip(w, "evFail", "throw")

EvaluateFail(w) == Report(w, "evFail", "failed", "throw", "throw")

TrainStep(w) ==
    \/ TrainRun(w) \/ TrainRow(w) \/ TrainBegin(w) \/ TrainFit(w) \/ TrainPut(w)
    \/ TrainReport(w) \/ TrainComplete(w) \/ TrainPublish(w) \/ TrainSettle(w)
    \/ TrainFailRun(w) \/ TrainFailRow(w) \/ TrainFailMark(w)

EvaluateStep(w) ==
    \/ EvaluateBegin(w) \/ EvaluateCompute(w) \/ EvaluateProgress(w)
    \/ EvaluateSave(w) \/ EvaluateSettle(w) \/ EvaluateFail(w)

WorkerStep(w) == Reserve(w) \/ TrainStep(w) \/ EvaluateStep(w)

\* A worker is killed (timeout, memory limit, deployment): the job is recorded
\* as failed and handle() is not resumed.  Neither job has a failed() method.
Kill(w) ==
    /\ pc[w] # "free"
    /\ kills < MaxKills
    /\ kills' = kills + 1
    /\ hit' = hit \cup {job[w]}
    /\ Advance(w, "throw", seen[w])
    /\ UNCHANGED <<apiVars, dataVars, snapshot, queue, adminVars, muted, refused, faults,
                   retries>>

\* queue:retry pushes a failed job again.
Retry(q) ==
    /\ q \in failedJobs
    /\ retries < MaxRetries
    /\ retries' = retries + 1
    /\ failedJobs' = failedJobs \ {q}
    /\ queue' = Append(queue, q)
    /\ UNCHANGED <<apiVars, dataVars, snapshot, pc, job, seen, adminVars, kills, faultVars>>

-----------------------------------------------------------------------------
(* ModelController::activate and ::deactivate, ModelRegistry *)

\* The other models the registry deactivates when it activates m: same tag,
\* and same area when m has one.
Rivals(m) ==
    {o \in Models \ {m} : Tag[o] = Tag[m] /\ (Area[m] # NoArea => Area[o] = Area[m])}

WithStatus(models, status) ==
    [o \in Models |-> IF o \in models THEN [row[o] EXCEPT !.status = status] ELSE row[o]]

\* findOrFail: the controller loads the model.
Find(a, m, op) ==
    /\ admin[a].op = "free"
    /\ admin' = [admin EXCEPT ![a] = [op |-> op, model |-> m, status |-> row[m].status]]
    /\ UNCHANGED <<apiVars, dataVars, snapshot, queue, workerVars, promoted, killVars, faultVars>>

\* The registry writes the rows, and the admin process is free again.
Registered(a, rows) ==
    /\ row' = rows
    /\ admin' = [admin EXCEPT ![a] = FreeAdmin]
    /\ UNCHANGED <<apiVars, run, files, recorded, exposed, snapshot, queue, workerVars,
                   killVars, faultVars>>

\* Mutant: the other models are left as they are.
ActivateAlone(a) ==
    /\ admin[a].op = "activate"
    /\ promoted' = promoted \ {admin[a].model}
    /\ Registered(a, WithStatus({admin[a].model}, "active"))

\* The transaction of ModelRegistry::activate.  save() writes nothing when the
\* model was loaded as active.
Activate(a) ==
    /\ admin[a].op = "activate"
    /\ LET m == admin[a].model
           written == IF admin[a].status = "active" THEN {} ELSE {m}
           others == WithStatus(Rivals(m), "inactive")
       IN  /\ promoted' = promoted \ (Rivals(m) \cup written)
           /\ Registered(a, [o \in Models |-> IF o \in written
                                              THEN [others[o] EXCEPT !.status = "active"]
                                              ELSE others[o]])

Deactivate(a) ==
    /\ admin[a].op = "deactivate"
    /\ Registered(a, IF admin[a].status = "inactive" THEN row
                     ELSE WithStatus({admin[a].model}, "inactive"))
    /\ UNCHANGED promoted

AdminStep(a) ==
    \/ \E m \in Models, op \in {"activate", "deactivate"} : Find(a, m, op)
    \/ Activate(a)
    \/ Deactivate(a)

-----------------------------------------------------------------------------
Next ==
    \/ \E q \in Requests : RequestStep(q) \/ Retry(q)
    \/ \E w \in Workers : WorkerStep(w) \/ Kill(w)
    \/ \E a \in Admins : AdminStep(a)
    \/ \E m \in Models : SnapshotExpires(m)
    \/ \E f \in Forms : ResponseExpires(f)

Spec == Init /\ [][Next]_vars

\* A PHP request that has begun runs to its end, and a live worker keeps executing its
\* job and keeps taking the next one.
Fairness ==
    /\ \A q \in Requests : WF_vars(stage[q] # "new" /\ RequestStep(q))
    /\ \A w \in Workers : WF_vars(WorkerStep(w))

FairSpec == Spec /\ Fairness

-----------------------------------------------------------------------------
(* Properties                                                               *)

\* The variables have the types of the code's columns, enums and caches.
TypeOK ==
    /\ form \in [Requests -> Forms]
    /\ stage \in [Requests -> Stages]
    /\ answer \in [Requests -> Requests \cup {None}]
    /\ cached \in [Forms -> Requests \cup {None}]
    /\ run \in [Requests -> TrainingStatus]
    /\ row \in [Models -> Row]
    /\ files \in SUBSET Requests
    /\ snapshot \in [Models -> SnapshotStates]
    /\ queue \in Seq(Requests)
    /\ failedJobs \in SUBSET Requests
    /\ pc \in [Workers -> WorkerSteps]
    /\ job \in [Workers -> Requests \cup {None}]
    /\ seen \in [Workers -> Row]
    /\ admin \in [Admins -> AdminStates]
    /\ promoted \in SUBSET Models
    /\ recorded \in [Models -> Metadata]
    /\ exposed \in SUBSET Requests
    /\ hit \in SUBSET Requests
    /\ muted \in SUBSET Requests
    /\ refused \in SUBSET Requests
    /\ faults \in Nat /\ kills \in Nat /\ retries \in Nat

Queued(q) == \E i \in 1 .. Len(queue) : queue[i] = q

\* Somebody will still write the status of model m: a request that has marked it
\* queued, a job in the queue or a job being executed.
Pending(m) ==
    \E q \in Requests :
        /\ form[q].model = m
        /\ \/ stage[q] \in {"marked", "stored", "unstored"}
           \/ Queued(q)
           \/ \E w \in Workers : job[w] = q

\* A failed write or a kill met q, and it shows: q was answered with a 500 before its
\* job was pushed, or its job is in failed_jobs; or it does not show, because Redis
\* lost a report in the try block of store().
CutShort(q) ==
    /\ q \in hit
    /\ stage[q] \in {"status500", "push500"} \/ q \in failedJobs \/ q \in muted

Disturbed(m) == \E q \in Requests : form[q].model = m /\ CutShort(q)

\* A model that the status endpoint reports as training or evaluating has a
\* request or a job that will report again: no order of requests and jobs of one
\* model leaves the last "training 0%" of markQueued behind after the last job ended.
\* A failed write or a kill may leave it behind, but then some request of the model
\* was answered with a 500, or a job of it waits in failed_jobs for an operator, or
\* Redis lost a report without an exception.  Once the job is retried it is held to
\* the claim again.
ReportedWorkIsPending ==
    \A m \in Models :
        GetStatus(m) \in {"training", "evaluating"} =>
            Pending(m) \/ Disturbed(m)

\* The job of q was cut short by a kill or a failed report and waits in failed_jobs,
\* or was pushed again by an operator and waits in the queue.
Interrupted(q) == q \in hit /\ (q \in failedJobs \/ Queued(q))

\* A run that is "running" and a model row that is "training" belong to a worker
\* inside TrainModelJob::handle, or to a training that was cut short and waits in
\* failed_jobs or in the queue: the catch block and the normal end both leave neither
\* behind, and so does the retry of a job that was killed.
TrainingHasTrainer ==
    /\ \A q \in Requests :
        run[q] = "running" => Interrupted(q) \/ \E w \in Workers : job[w] = q
    /\ \A m \in Models :
        row[m].status = "training" =>
            \/ \E w \in Workers : pc[w] \in TrainSteps /\ Target(w) = m
            \/ \E q \in Requests : form[q].kind = "train" /\ form[q].model = m /\ Interrupted(q)

\* An artifact that a model row names, whoever wrote the row last and from
\* whatever copy, and the artifact of a run announced as completed, are on disk,
\* unless the disk refused the artifact itself: kills, retries and failures of Redis
\* are no excuse.
ArtifactsOnDisk ==
    /\ \A m \in Models : row[m].metadata.artifact \in files \cup refused \cup {None}
    /\ \A q \in Requests : run[q] = "completed" => q \in files \cup refused

\* A model row never names the artifact of a run that is not recorded as
\* completed, even when the worker dies between its saves.  (Without Redis
\* failures and retries: both restart or fail a run whose artifact is published.)
PublishedRunCompleted ==
    \A m \in Models :
        LET q == row[m].metadata.artifact
        IN  q # None => run[q] = "completed" /\ form[q].model = m

SameGroup(m, o) == Tag[m] = Tag[o] /\ Area[m] = Area[o]

\* Two models of one tag and area are active together only if one of them was
\* made active by a training since the registry last chose: racing activations,
\* stale copies and skipped saves never leave two chosen models.
OneChosenActive ==
    \A m, o \in Models :
        /\ m # o
        /\ SameGroup(m, o)
        /\ row[m].status = "active"
        /\ row[o].status = "active"
        => m \in promoted \/ o \in promoted

\* Both jobs write back the metadata they loaded at their start, so that jobs of one
\* model that overlap lose what the others saved.  This is all that is lost: with any
\* number of workers, kills and retries, an evaluation stays in the metadata, and the
\* artifact published last stays the one named, unless at the moment of its save
\* another worker held a copy of the metadata that it had still to write back.
MetadataKept ==
    \A m \in Models :
        /\ recorded[m].evals \subseteq row[m].metadata.evals \cup exposed
        /\ recorded[m].artifact \in {row[m].metadata.artifact} \cup exposed

\* Every run that is saved ends as completed or failed, or its request was answered
\* with a 500 before the push, or its job is in failed_jobs after a kill or a failed
\* report (fair requests and workers).
RunsFinish ==
    \A q \in Requests :
        run[q] = "queued" ~> run[q] \in {"completed", "failed"} \/ CutShort(q)

\* The status endpoint does not report a model as busy forever (same fairness,
\* same exceptions).
StatusSettles ==
    \A m \in Models : []<>(GetStatus(m) \notin {"training", "evaluating"} \/ Disturbed(m))

\* README of the frontend: "the frontend reuses the same key across retries so
\* the API will not enqueue duplicate jobs".  Two accepted requests of one key
\* name the same job.
NoDuplicateJobs ==
    \A p, q \in Requests :
        /\ stage[p] = "accepted" /\ stage[q] = "accepted"
        /\ form[p] = form[q]
        /\ form[p].key # NoKey
        => answer[p] = answer[q]

\* ModelApiTest, test_admin_can_activate_model: when activate has answered, the
\* model is active.
ActivateTakesEffect ==
    [][\A a \in Admins :
        Activate(a) => row'[admin[a].model].status = "active"]_vars
=============================================================================
