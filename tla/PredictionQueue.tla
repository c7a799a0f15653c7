--------------------------- MODULE PredictionQueue ---------------------------
(***************************************************************************)
(* Predictions on the server: PredictionService::queuePrediction saves the *)
(* row and pushes GenerateHeatmapJob inside one transaction; workers run   *)
(* the job, which writes SHAP values, outputs and tiles one by one.  The   *)
(* Redis queue is not part of the transaction (after_commit is false), so  *)
(* a worker may take the job before the row is visible.                    *)
(***************************************************************************)
EXTENDS Integers, Sequences

CONSTANTS
    Predictions, \* submissions; each creates one prediction row
    WantsTiles,  \* the submissions that ask for tiles
    Workers,     \* queue workers
    None,        \* no job
    ShapRows,    \* the most SHAP values kept for a prediction
    MaxFaults,   \* bound: failed pushes, commits and disk writes
    MaxKills,    \* bound: workers killed in the middle of a job
    MaxRetries   \* bound: jobs retried by an operator

ASSUME BoundsAssumption == MaxFaults \in Nat /\ MaxKills \in Nat /\ MaxRetries \in Nat
ASSUME TilesAssumption == WantsTiles \subseteq Predictions
ASSUME NoneAssumption == None \notin Predictions
ASSUME ShapAssumption == ShapRows \in Nat

\* "absent" is a row that no other process sees.
Status == {"absent", "queued", "running", "completed", "failed"}
Stages == {"new", "saved", "pushed", "answered", "rolledBack"}
Steps == {"free", "start", "compute", "dropShap", "saveShap", "saveJson", "putTiles",
          "saveTiles", "complete", "ack", "fail"}

\* What a job leaves behind for a prediction: how many SHAP values, of how many that
\* its last attempt had to write, how many outputs of each format, and whether the
\* tiles are on the disk.
Results == [shap: Nat, due: Nat, json: Nat, tiles: Nat, onDisk: BOOLEAN]
Nothing == [shap |-> 0, due |-> 0, json |-> 0, tiles |-> 0, onDisk |-> FALSE]

VARIABLES
    stage,       \* progress of each submission through store()
    status,      \* the status column, as other processes see it
    results,     \* shap_values, prediction_outputs and the tiles on disk
    queue, pc, job, failedJobs,
    early,       \* history: predictions whose job ran before their row was visible
    attempts,    \* history: how often handle() began for each prediction
    hit,         \* history: predictions met by a kill or a failed write
    faults, kills, retries

workerVars == <<pc, job, failedJobs>>
boundVars == <<kills, retries>>
vars == <<stage, status, results, queue, workerVars, early, attempts, hit, faults, boundVars>>

Init ==
    /\ stage = [p \in Predictions |-> "new"]
    /\ status = [p \in Predictions |-> "absent"]
    /\ results = [p \in Predictions |-> Nothing]
    /\ queue = <<>>
    /\ pc = [w \in Workers |-> "free"]
    /\ job = [w \in Workers |-> None]
    /\ failedJobs = {}
    /\ early = {}
    /\ attempts = [p \in Predictions |-> 0]
    /\ hit = {}
    /\ faults = 0 /\ kills = 0 /\ retries = 0

Fault(p) ==
    /\ faults < MaxFaults
    /\ faults' = faults + 1
    /\ hit' = hit \cup {p}

NoFault == UNCHANGED <<hit, faults>>

-----------------------------------------------------------------------------
(* PredictionController::store and PredictionService::queuePrediction *)

\* The row is saved, inside the transaction.
Save(p) ==
    /\ stage[p] = "new"
    /\ stage' = [stage EXCEPT ![p] = "saved"]
    /\ UNCHANGED <<status, results, queue, workerVars, early, attempts, hit, faults, boundVars>>

\* Mutant: the job is dispatched twice.
PushTwice(p) ==
    /\ stage[p] = "saved"
    /\ stage' = [stage EXCEPT ![p] = "pushed"]
    /\ queue' = queue \o <<p, p>>
    /\ UNCHANGED <<status, results, workerVars, early, attempts, hit, faults, boundVars>>

\* The job is pushed to Redis; if that fails, the transaction is rolled back.
Push(p) ==
    /\ stage[p] = "saved"
    /\ \/ /\ stage' = [stage EXCEPT ![p] = "pushed"]
          /\ queue' = Append(queue, p)
          /\ NoFault
       \/ /\ stage' = [stage EXCEPT ![p] = "rolledBack"]
          /\ Fault(p)
          /\ UNCHANGED queue
    /\ UNCHANGED <<status, results, workerVars, early, attempts, boundVars>>

\* The transaction commits, and 202 is answered; or the commit fails after the push.
Commit(p) ==
    /\ stage[p] = "pushed"
    /\ \/ /\ stage' = [stage EXCEPT ![p] = "answered"]
          /\ status' = [status EXCEPT ![p] = "queued"]
          /\ NoFault
       \/ /\ stage' = [stage EXCEPT ![p] = "rolledBack"]
          /\ Fault(p)
          /\ UNCHANGED status
    /\ UNCHANGED <<results, queue, workerVars, early, attempts, boundVars>>

RequestStep(p) == Save(p) \/ Push(p) \/ Commit(p)

-----------------------------------------------------------------------------
(* GenerateHeatmapJob::handle *)

\* The handler goes on with `to`; "done" ends it, "throw" ends it in failed_jobs.
Advance(w, from, to) ==
    LET over == to \in {"done", "throw"}
    IN  /\ pc[w] = from
        /\ pc' = [pc EXCEPT ![w] = IF over THEN "free" ELSE to]
        /\ job' = [job EXCEPT ![w] = IF over THEN None ELSE @]
        /\ failedJobs' = IF to = "throw" THEN failedJobs \cup {job[w]} ELSE failedJobs

\* A worker takes the oldest job.  findOrFail: a row that is not visible ends the
\* job with a ModelNotFoundException, outside the try block.
Reserve(w) ==
    /\ pc[w] = "free"
    /\ queue # <<>>
    /\ queue' = Tail(queue)
    /\ LET p == Head(queue)
       IN  IF status[p] = "absent"
           THEN /\ failedJobs' = failedJobs \cup {p}
                /\ early' = early \cup {p}
                /\ UNCHANGED <<pc, job, attempts>>
           ELSE /\ pc' = [pc EXCEPT ![w] = "start"]
                /\ job' = [job EXCEPT ![w] = p]
                /\ attempts' = [attempts EXCEPT ![p] = @ + 1]
                /\ UNCHANGED <<failedJobs, early>>
    /\ UNCHANGED <<stage, status, results, hit, faults, boundVars>>

SaveStatus(w, from, value, to) ==
    /\ Advance(w, from, to)
    /\ status' = [status EXCEPT ![job[w]] = value]
    /\ UNCHANGED <<stage, results, queue, early, attempts, hit, faults, boundVars>>

\* A step that only changes what is left behind for the prediction.
SaveResults(w, from, value, to) ==
    /\ Advance(w, from, to)
    /\ results' = [results EXCEPT ![job[w]] = value]
    /\ UNCHANGED <<stage, status, queue, early, attempts, boundVars>>

Left(w) == results[job[w]]

\* Mutant: the row stays queued while it is worked on.
StartForgotten(w) ==
    /\ Advance(w, "start", "compute")
    /\ UNCHANGED <<stage, status, results, queue, early, attempts, hit, faults, boundVars>>

Start(w) == SaveStatus(w, "start", "running", "compute")

\* Artifact, dataset, filter, scores, summary, heatmap: the artifact or the file
\* may be missing, and no row may be usable.
Compute(w) ==
    \E to \in {"dropShap", "fail"} :
        /\ Advance(w, "compute", to)
        /\ UNCHANGED <<stage, status, results, queue, early, attempts, hit, faults, boundVars>>

\* Mutant: the values of an earlier attempt are kept.
DropShapForgotten(w) ==
    \E n \in 0 .. ShapRows :
        SaveResults(w, "dropShap", [Left(w) EXCEPT !.due = n],
                    IF n = 0 THEN "saveJson" ELSE "saveShap") /\ NoFault

\* persistShapValues deletes the values of an earlier attempt; how many it then has
\* to write depends on the features that count, and may be none.
DropShap(w) ==
    \E n \in 0 .. ShapRows :
        SaveResults(w, "dropShap", [Left(w) EXCEPT !.shap = 0, !.due = n],
                    IF n = 0 THEN "saveJson" ELSE "saveShap") /\ NoFault

\* createMany inserts the values one by one, in no transaction.
SaveShap(w) ==
    SaveResults(w, "saveShap", [Left(w) EXCEPT !.shap = @ + 1],
                IF Left(w).shap + 1 < Left(w).due THEN "saveShap" ELSE "saveJson") /\ NoFault

\* The JSON output is created; outputs of earlier attempts are not deleted.
SaveJson(w) ==
    /\ SaveResults(w, "saveJson", [Left(w) EXCEPT !.json = @ + 1],
                   IF job[w] \in WantsTiles THEN "putTiles" ELSE "complete")
    /\ NoFault

\* The local disk does not throw and the result of put() is not read.
PutTiles(w) ==
    \/ SaveResults(w, "putTiles", [Left(w) EXCEPT !.onDisk = TRUE], "saveTiles") /\ NoFault
    \/ SaveResults(w, "putTiles", Left(w), "saveTiles") /\ Fault(job[w])

SaveTiles(w) ==
    SaveResults(w, "saveTiles", [Left(w) EXCEPT !.tiles = @ + 1], "complete") /\ NoFault

\* Mutant: the handler ends without saving.
CompleteForgotten(w) ==
    /\ Advance(w, "complete", "ack")
    /\ UNCHANGED <<stage, status, results, queue, early, attempts, hit, faults, boundVars>>

Complete(w) == SaveStatus(w, "complete", "completed", "ack")

\* The worker deletes the job; killed before that, it leaves a job behind although the
\* prediction is completed.
Ack(w) ==
    /\ Advance(w, "ack", "done")
    /\ UNCHANGED <<stage, status, results, queue, early, attempts, hit, faults, boundVars>>

\* Mutant: the catch block rethrows without saving.
FailForgotten(w) ==
    /\ Advance(w, "fail", "throw")
    /\ UNCHANGED <<stage, status, results, queue, early, attempts, hit, faults, boundVars>>

Fail(w) == SaveStatus(w, "fail", "failed", "throw")

WorkerStep(w) ==
    \/ Reserve(w) \/ Start(w) \/ Compute(w) \/ DropShap(w) \/ SaveShap(w) \/ SaveJson(w)
    \/ PutTiles(w) \/ SaveTiles(w) \/ Complete(w) \/ Ack(w) \/ Fail(w)

\* The worker is killed (60 seconds, memory, deployment); the job has no failed().
Kill(w) ==
    /\ kills < MaxKills
    /\ kills' = kills + 1
    /\ hit' = hit \cup {job[w]}
    /\ pc[w] # "free"
    /\ Advance(w, pc[w], "throw")
    /\ UNCHANGED <<stage, status, results, queue, early, attempts, faults, retries>>

\* queue:retry
Retry(p) ==
    /\ p \in failedJobs
    /\ retries < MaxRetries
    /\ retries' = retries + 1
    /\ failedJobs' = failedJobs \ {p}
    /\ queue' = Append(queue, p)
    /\ UNCHANGED <<stage, status, results, pc, job, early, attempts, hit, faults, kills>>

-----------------------------------------------------------------------------
Next ==
    \/ \E p \in Predictions : RequestStep(p) \/ Retry(p)
    \/ \E w \in Workers : WorkerStep(w) \/ Kill(w)

Spec == Init /\ [][Next]_vars

\* A request that has begun ends, and live workers keep working.
Fairness ==
    /\ \A p \in Predictions : WF_vars(RequestStep(p))
    /\ \A w \in Workers : WF_vars(WorkerStep(w))

FairSpec == Spec /\ Fairness

-----------------------------------------------------------------------------
(* Properties *)

TypeOK ==
    /\ stage \in [Predictions -> Stages]
    /\ status \in [Predictions -> Status]
    /\ results \in [Predictions -> Results]
    /\ queue \in Seq(Predictions)
    /\ pc \in [Workers -> Steps]
    /\ job \in [Workers -> Predictions \cup {None}]
    /\ failedJobs \in SUBSET Predictions
    /\ early \in SUBSET Predictions
    /\ attempts \in [Predictions -> Nat]
    /\ hit \in SUBSET Predictions
    /\ faults \in Nat /\ kills \in Nat /\ retries \in Nat

InHand(p) == \E w \in Workers : job[w] = p
Waiting(p) == \E i \in 1 .. Len(queue) : queue[i] = p

\* A prediction has at most one job anywhere: retries, kills and rollbacks never
\* let two workers write the outputs of one prediction at the same time.
OneJobEach ==
    \A p \in Predictions :
        /\ InHand(p) => ~Waiting(p) /\ p \notin failedJobs
        /\ Waiting(p) => p \notin failedJobs
        /\ \A v, w \in Workers : job[v] = p /\ job[w] = p => v = w

\* A completed prediction has the SHAP values of one attempt, all of them and no other,
\* and an output of each format it was asked for, whatever attempts were cut short
\* before, in the middle of a set too; its tiles are on the disk unless the disk
\* refused them.
CompletedIsWhole ==
    \A p \in Predictions :
        status[p] = "completed" =>
            /\ results[p].shap = results[p].due
            /\ results[p].json \in 1 .. attempts[p]
            /\ p \in WantsTiles =>
                /\ results[p].tiles \in 1 .. attempts[p]
                /\ results[p].onDisk \/ p \in hit

\* A prediction that is reported as pending is being worked on or waits in the queue;
\* or its worker was killed, or its job ran before the transaction committed, and then
\* the job is in failed_jobs, from where an operator can retry it.
PendingHasJob ==
    \A p \in Predictions :
        status[p] \in {"queued", "running"} =>
            InHand(p) \/ Waiting(p) \/ (p \in failedJobs /\ p \in hit \cup early)

\* The status column advances as PredictionRows promises to the browser that polls it:
\* a row ends only from running, and never becomes queued or absent again, whoever
\* works on it.
Rows == INSTANCE PredictionRows
RowsAdvance == Rows!RowsSpec

\* With fair requests and workers a submitted prediction ends as completed or
\* failed, unless its job ran before the commit or a kill or a failure met it.
PredictionsEnd ==
    \A p \in Predictions :
        stage[p] = "pushed" ~> status[p] \in {"completed", "failed"} \/ p \in early \cup hit
=============================================================================
