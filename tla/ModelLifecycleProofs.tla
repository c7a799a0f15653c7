------------------------ MODULE ModelLifecycleProofs ------------------------
(***************************************************************************)
(* Theorems about ModelLifecycle, for every number of models, requests,    *)
(* workers and admin processes and every bound on faults.                  *)
(***************************************************************************)
EXTENDS ModelLifecycle, SequenceTheorems, TLAPS

-----------------------------------------------------------------------------
(* Types *)

\* A worker holds a job exactly while it is inside a handler.
BusyWithJob == \A w \in Workers : pc[w] = "free" <=> job[w] = None

\* An admin process that serves a request has loaded a model.
AdminHasModel == \A a \in Admins : admin[a].op # "free" => admin[a].model \in Models

TypeInv == TypeOK /\ BusyWithJob /\ AdminHasModel

\* The part of the type invariant that a failed write changes.
FaultsType ==
    /\ hit \in SUBSET Requests
    /\ muted \in SUBSET Requests
    /\ refused \in SUBSET Requests
    /\ faults \in Nat

HandlerSteps == TrainSteps \cup EvaluateSteps
Outcomes == HandlerSteps \cup {"done", "throw"}

\* The job of a busy worker is a request about a model.
LEMMA BusyJob ==
    ASSUME TypeInv, NEW w \in Workers, pc[w] # "free"
    PROVE  job[w] \in Requests /\ Target(w) \in Models /\ form[job[w]] \in Forms
  BY DEF TypeInv, TypeOK, BusyWithJob, Target, Forms

\* A status write keeps the types, whatever part of it fails.
LEMMA StoreType ==
    ASSUME TypeInv, NEW q \in Requests, NEW m \in Models,
           NEW state \in SnapshotStates, NEW returned, Store(q, m, state, returned)
    PROVE  /\ snapshot' \in [Models -> SnapshotStates]
           /\ FaultsType'
  BY DEF TypeInv, TypeOK, FaultsType, Store, Fault, faultVars

\* Advancing a handler keeps the types of the worker and of failed_jobs.
LEMMA AdvanceType ==
    ASSUME TypeInv, NEW w \in Workers, pc[w] # "free", NEW step \in Outcomes,
           NEW memory \in Row, Advance(w, step, memory)
    PROVE  /\ pc' \in [Workers -> WorkerSteps]
           /\ job' \in [Workers -> Requests \cup {None}]
           /\ seen' \in [Workers -> Row]
           /\ failedJobs' \in SUBSET Requests
           /\ BusyWithJob'
  <1>1. job[w] \in Requests
    BY BusyJob
  <1>2. BlankRow \in Row
    BY DEF BlankRow, Row, Metadata, ModelStatus
  <1> DEFINE over == step \in {"done", "throw"}
  <1>3. (IF over THEN "free" ELSE step) \in WorkerSteps
    BY DEF Outcomes, HandlerSteps, WorkerSteps
  <1>4. (IF over THEN "free" ELSE step) = "free" <=> over
    BY DEF Outcomes, HandlerSteps, TrainSteps, EvaluateSteps
  <1>5. /\ pc' = [pc EXCEPT ![w] = IF over THEN "free" ELSE step]
        /\ job' = [job EXCEPT ![w] = IF over THEN None ELSE job[w]]
        /\ seen' = [seen EXCEPT ![w] = IF over THEN BlankRow ELSE memory]
        /\ failedJobs' = IF step = "throw" THEN failedJobs \cup {job[w]} ELSE failedJobs
    BY DEF Advance
  <1> HIDE DEF over
  <1>6. pc' \in [Workers -> WorkerSteps]
    BY <1>3, <1>5 DEF TypeInv, TypeOK
  <1>7. job' \in [Workers -> Requests \cup {None}]
    BY <1>1, <1>5 DEF TypeInv, TypeOK
  <1>8. seen' \in [Workers -> Row]
    BY <1>2, <1>5 DEF TypeInv, TypeOK
  <1>9. BusyWithJob'
    <2> SUFFICES ASSUME NEW v \in Workers
                 PROVE  pc'[v] = "free" <=> job'[v] = None
      BY DEF BusyWithJob
    <2>1. CASE v = w
      BY <2>1, <1>1, <1>4, <1>5, NullAssumption DEF TypeInv, TypeOK
    <2>2. CASE v # w
      BY <2>2, <1>5 DEF TypeInv, TypeOK, BusyWithJob
    <2> QED BY <2>1, <2>2
  <1> QED
    BY <1>1, <1>5, <1>6, <1>7, <1>8, <1>9 DEF TypeInv, TypeOK

LEMMA SkipType ==
    ASSUME TypeInv, NEW w \in Workers, NEW at \in HandlerSteps, NEW next \in Outcomes,
           Skip(w, at, next)
    PROVE  TypeInv'
  <1>1. pc[w] # "free"
    BY DEF Skip, HandlerSteps, TrainSteps, EvaluateSteps
  <1>2. seen[w] \in Row
    BY DEF TypeInv, TypeOK
  <1> QED
    BY <1>1, <1>2, AdvanceType
    DEF Skip, TypeInv, TypeOK, AdminHasModel, apiVars, dataVars, adminVars, killVars, faultVars

LEMMA ReportType ==
    ASSUME TypeInv, NEW w \in Workers, NEW at \in HandlerSteps,
           NEW state \in SnapshotStates, NEW next \in Outcomes, NEW onError \in Outcomes,
           Report(w, at, state, next, onError)
    PROVE  TypeInv'
  <1>1. pc[w] # "free"
    BY DEF Report, HandlerSteps, TrainSteps, EvaluateSteps
  <1>2. seen[w] \in Row
    BY DEF TypeInv, TypeOK
  <1>3. PICK returned \in BOOLEAN :
          /\ Store(job[w], Target(w), state, returned)
          /\ Advance(w, IF returned THEN next ELSE onError, seen[w])
    BY DEF Report
  <1>4. (IF returned THEN next ELSE onError) \in Outcomes
    OBVIOUS
  <1>5. job[w] \in Requests /\ Target(w) \in Models
    BY <1>1, BusyJob
  <1>6. /\ snapshot' \in [Models -> SnapshotStates]
        /\ FaultsType'
    BY <1>3, <1>5, StoreType
  <1>7. /\ pc' \in [Workers -> WorkerSteps]
        /\ job' \in [Workers -> Requests \cup {None}]
        /\ seen' \in [Workers -> Row]
        /\ failedJobs' \in SUBSET Requests
        /\ BusyWithJob'
    BY <1>1, <1>2, <1>3, <1>4, AdvanceType
  <1> QED
    BY <1>6, <1>7
    DEF Report, TypeInv, TypeOK, FaultsType, AdminHasModel, apiVars, dataVars, adminVars, killVars

LEMMA SaveRunType ==
    ASSUME TypeInv, NEW w \in Workers, NEW at \in HandlerSteps,
           NEW status \in TrainingStatus, NEW next \in Outcomes,
           SaveRunAs(w, at, status, next)
    PROVE  TypeInv'
  <1>1. pc[w] # "free"
    BY DEF SaveRunAs, HandlerSteps, TrainSteps, EvaluateSteps
  <1>2. seen[w] \in Row
    BY DEF TypeInv, TypeOK
  <1>3. run' \in [Requests -> TrainingStatus]
    BY DEF SaveRunAs, TypeInv, TypeOK
  <1> QED
    BY <1>1, <1>2, <1>3, AdvanceType
    DEF SaveRunAs, TypeInv, TypeOK, AdminHasModel, apiVars, adminVars, killVars, faultVars

LEMMA SaveModelType ==
    ASSUME TypeInv, NEW w \in Workers, NEW at \in HandlerSteps, NEW saved \in Row,
           NEW memory \in Row, NEW next \in Outcomes, SaveModel(w, at, saved, memory, next)
    PROVE  TypeInv'
  <1>1. pc[w] # "free"
    BY DEF SaveModel, HandlerSteps, TrainSteps, EvaluateSteps
  <1>2. Target(w) \in Models
    BY <1>1, BusyJob
  <1>3. row' \in [Models -> Row] /\ promoted' \in SUBSET Models
    BY <1>2 DEF SaveModel, TypeInv, TypeOK
  <1>4. recorded' \in [Models -> Metadata] /\ exposed' \in SUBSET Requests
    <2>1. job[w] \in Requests /\ recorded \in [Models -> Metadata] /\ exposed \in SUBSET Requests
      BY <1>1, BusyJob DEF TypeInv, TypeOK
    <2>2. /\ [recorded EXCEPT ![Target(w)].artifact = job[w]] \in [Models -> Metadata]
          /\ [recorded EXCEPT ![Target(w)].evals = @ \cup {job[w]}] \in [Models -> Metadata]
      BY <1>2, <2>1 DEF Metadata
    <2> QED BY <2>1, <2>2 DEF SaveModel, Record
  <1> QED
    BY <1>1, <1>3, <1>4, AdvanceType
    DEF SaveModel, TypeInv, TypeOK, AdminHasModel, apiVars, killVars, faultVars

LEMMA InitType == Init => TypeInv
  BY DEF Init, TypeInv, TypeOK, BusyWithJob, AdminHasModel, BlankRow, Row, Metadata,
         ModelStatus, Stages, TrainingStatus, SnapshotStates, WorkerSteps, AdminStates,
         FreeAdmin

LEMMA RequestType ==
    ASSUME TypeInv, NEW q \in Requests, RequestStep(q)
    PROVE  TypeInv'
  <1> USE DEF apiVars, dataVars, workerVars, adminVars, killVars, faultVars
  <1>1. CASE Check(q)
    <2>1. (IF form[q].key = NoKey THEN None ELSE cached[form[q]]) \in Requests \cup {None}
      BY DEF TypeInv, TypeOK
    <2> QED
      BY <1>1, <2>1 DEF Check, TypeInv, TypeOK, BusyWithJob, AdminHasModel, Stages
  <1>2. CASE SaveRun(q)
    BY <1>2 DEF SaveRun, TypeInv, TypeOK, BusyWithJob, AdminHasModel, Stages, TrainingStatus
  <1>3. CASE MarkQueued(q)
    <2>1. PICK returned \in BOOLEAN :
            /\ Store(q, form[q].model, StateOf(form[q].kind), returned)
            /\ stage' = [stage EXCEPT ![q] = IF returned THEN "marked" ELSE "status500"]
      BY <1>3 DEF MarkQueued
    <2>2. form[q].model \in Models /\ StateOf(form[q].kind) \in SnapshotStates
      BY DEF TypeInv, TypeOK, Forms, StateOf, SnapshotStates
    <2>3. /\ snapshot' \in [Models -> SnapshotStates]
          /\ FaultsType'
      BY <2>1, <2>2, StoreType
    <2> QED
      BY <1>3, <2>1, <2>3 DEF MarkQueued, FaultsType, TypeInv, TypeOK, BusyWithJob, AdminHasModel, Stages
  <1>4. CASE StoreResponse(q)
    <2>0. /\ cached \in [Forms -> Requests \cup {None}]
          /\ stage \in [Requests -> Stages]
      BY DEF TypeInv, TypeOK
    <2>1. /\ stage' \in [Requests -> Stages]
          /\ cached' \in [Forms -> Requests \cup {None}]
      <3>1. \E s \in {"stored", "unstored"} : stage' = [stage EXCEPT ![q] = s]
        BY <1>4 DEF StoreResponse
      <3>2. cached' = cached \/ cached' = [cached EXCEPT ![form[q]] = q]
        BY <1>4 DEF StoreResponse
      <3> QED BY <2>0, <3>1, <3>2 DEF Stages
    <2>2. FaultsType'
      BY <1>4 DEF StoreResponse, Fault, FaultsType, TypeInv, TypeOK
    <2> QED
      BY <1>4, <2>1, <2>2 DEF StoreResponse, FaultsType, TypeInv, TypeOK, BusyWithJob, AdminHasModel
  <1>5. CASE Dispatch(q)
    <2>0. /\ queue \in Seq(Requests) /\ Append(queue, q) \in Seq(Requests)
          /\ stage \in [Requests -> Stages] /\ answer \in [Requests -> Requests \cup {None}]
      BY DEF TypeInv, TypeOK
    <2>1a. queue' = queue \/ queue' = Append(queue, q)
      BY <1>5 DEF Dispatch
    <2>1b. answer' = answer \/ \E a \in Requests \cup {None} : answer' = [answer EXCEPT ![q] = a]
      BY <1>5 DEF Dispatch
    <2>1c. \E s \in Stages : stage' = [stage EXCEPT ![q] = s]
      BY <1>5 DEF Dispatch, Stages
    <2>1. /\ queue' \in Seq(Requests)
          /\ stage' \in [Requests -> Stages]
          /\ answer' \in [Requests -> Requests \cup {None}]
      BY <2>0, <2>1a, <2>1b, <2>1c
    <2>2. UNCHANGED <<hit, faults>> \/ Fault(q)
      BY <1>5 DEF Dispatch
    <2>3. FaultsType'
      BY <1>5, <2>2 DEF Dispatch, Fault, FaultsType, TypeInv, TypeOK
    <2> QED
      BY <1>5, <2>1, <2>3 DEF Dispatch, FaultsType, TypeInv, TypeOK, BusyWithJob, AdminHasModel
  <1> QED
    BY <1>1, <1>2, <1>3, <1>4, <1>5 DEF RequestStep

LEMMA ReserveType ==
    ASSUME TypeInv, NEW w \in Workers, Reserve(w)
    PROVE  TypeInv'
  <1> DEFINE q == Head(queue)
  <1>1. q \in Requests /\ Tail(queue) \in Seq(Requests)
    BY DEF Reserve, TypeInv, TypeOK
  <1>2. form[q].model \in Models
    BY <1>1 DEF TypeInv, TypeOK, Forms
  <1>3. row[form[q].model] \in Row
    BY <1>2 DEF TypeInv, TypeOK
  <1>4. /\ job' = [job EXCEPT ![w] = q]
        /\ seen' = [seen EXCEPT ![w] = row[form[q].model]]
        /\ pc' = [pc EXCEPT ![w] = IF form[q].kind = "train" THEN "run" ELSE "evBegin"]
        /\ queue' = Tail(queue)
    BY DEF Reserve
  <1> HIDE DEF q
  <1>5. BusyWithJob'
    BY <1>1, <1>4, NullAssumption DEF TypeInv, TypeOK, BusyWithJob
  <1> QED
    BY <1>1, <1>3, <1>4, <1>5
    DEF Reserve, TypeInv, TypeOK, AdminHasModel, WorkerSteps, TrainSteps, EvaluateSteps,
        apiVars, dataVars, adminVars, killVars, faultVars

\* What the two handlers save in a model row is a row.
LEMMA RowValues ==
    ASSUME TypeInv, NEW w \in Workers, pc[w] # "free"
    PROVE  /\ \A s \in ModelStatus :
                /\ [row[Target(w)] EXCEPT !.status = s] \in Row
                /\ [seen[w] EXCEPT !.status = s] \in Row
           /\ Published([seen[w].metadata EXCEPT !.artifact = job[w]]) \in Row
           /\ LET metadata == [seen[w].metadata EXCEPT !.evals = @ \cup {job[w]}]
              IN  /\ [row[Target(w)] EXCEPT !.metadata = metadata] \in Row
                  /\ [seen[w] EXCEPT !.metadata = metadata] \in Row
           /\ row[Target(w)] \in Row
  <1>1. job[w] \in Requests /\ row[Target(w)] \in Row /\ seen[w] \in Row
    BY BusyJob DEF TypeInv, TypeOK
  <1> QED
    BY <1>1 DEF Row, Metadata, Published, ModelStatus

LEMMA TrainType ==
    ASSUME TypeInv, NEW w \in Workers, TrainStep(w)
    PROVE  TypeInv'
  <1> USE DEF HandlerSteps, TrainSteps, EvaluateSteps, Outcomes, SnapshotStates,
              TrainingStatus
  <1>1. CASE TrainRun(w)
    BY <1>1, SaveRunType DEF TrainRun
  <1>2. CASE TrainRow(w)
    <2>1. pc[w] # "free"
      BY <1>2 DEF TrainRow, SaveModel
    <2>2. (IF seen[w].status = "training" THEN row[Target(w)]
             ELSE [row[Target(w)] EXCEPT !.status = "training"]) \in Row
      BY <2>1, RowValues DEF ModelStatus
    <2>3. [seen[w] EXCEPT !.status = "training"] \in Row
      BY <2>1, RowValues DEF ModelStatus
    <2> QED
      BY <1>2, <2>2, <2>3, SaveModelType DEF TrainRow
  <1>3. CASE TrainBegin(w)
    BY <1>3, ReportType DEF TrainBegin
  <1>4. CASE TrainFit(w)
    BY <1>4, ReportType, SkipType DEF TrainFit
  <1>5. CASE TrainPut(w)
    <2>1. pc[w] # "free" /\ seen[w] \in Row
      BY <1>5 DEF TrainPut, TypeInv, TypeOK
    <2>2. job[w] \in Requests
      BY <2>1, BusyJob
    <2>3. files' \in SUBSET Requests /\ FaultsType'
      BY <1>5, <2>2 DEF TrainPut, Fault, faultVars, FaultsType, TypeInv, TypeOK
    <2> QED
      BY <1>5, <2>1, <2>3, AdvanceType
      DEF TrainPut, FaultsType, TypeInv, TypeOK, AdminHasModel, apiVars, adminVars, killVars
  <1>6. CASE TrainReport(w)
    BY <1>6, ReportType DEF TrainReport
  <1>7. CASE TrainComplete(w)
    BY <1>7, SaveRunType DEF TrainComplete
  <1>8. CASE TrainPublish(w)
    <2>1. pc[w] # "free"
      BY <1>8 DEF TrainPublish, SaveModel
    <2> QED
      BY <1>8, <2>1, RowValues, SaveModelType DEF TrainPublish
  <1>9. CASE TrainSettle(w)
    BY <1>9, ReportType DEF TrainSettle
  <1>10. CASE TrainFailRun(w)
    BY <1>10, SaveRunType DEF TrainFailRun
  <1>11. CASE TrainFailRow(w)
    <2>1. pc[w] # "free"
      BY <1>11 DEF TrainFailRow, SaveModel
    <2>2. /\ [row[Target(w)] EXCEPT !.status = "failed"] \in Row
          /\ [seen[w] EXCEPT !.status = "failed"] \in Row
      BY <2>1, RowValues DEF ModelStatus
    <2> QED
      BY <1>11, <2>2, SaveModelType DEF TrainFailRow
  <1>12. CASE TrainFailMark(w)
    BY <1>12, ReportType DEF TrainFailMark
  <1> QED
    BY <1>1, <1>2, <1>3, <1>4, <1>5, <1>6, <1>7, <1>8, <1>9, <1>10, <1>11, <1>12
    DEF TrainStep

LEMMA EvaluateType ==
    ASSUME TypeInv, NEW w \in Workers, EvaluateStep(w)
    PROVE  TypeInv'
  <1> USE DEF HandlerSteps, TrainSteps, EvaluateSteps, Outcomes, SnapshotStates
  <1>1. CASE EvaluateBegin(w)
    BY <1>1, ReportType DEF EvaluateBegin
  <1>2. CASE EvaluateCompute(w)
    BY <1>2, SkipType DEF EvaluateCompute
  <1>3. CASE EvaluateProgress(w)
    BY <1>3, ReportType DEF EvaluateProgress
  <1>4. CASE EvaluateSave(w)
    <2>1. pc[w] # "free"
      BY <1>4 DEF EvaluateSave, SaveModel
    <2> QED
      BY <1>4, <2>1, RowValues, SaveModelType DEF EvaluateSave
  <1>5. CASE EvaluateSettle(w)
    BY <1>5, ReportType DEF EvaluateSettle
  <1>6. CASE EvaluateFail(w)
    BY <1>6, ReportType DEF EvaluateFail
  <1> QED
    BY <1>1, <1>2, <1>3, <1>4, <1>5, <1>6 DEF EvaluateStep

LEMMA KillType ==
    ASSUME TypeInv, NEW w \in Workers, Kill(w)
    PROVE  TypeInv'
  <1>1. pc[w] # "free" /\ seen[w] \in Row /\ "throw" \in Outcomes
    BY DEF Kill, TypeInv, TypeOK, Outcomes
  <1>2. job[w] \in Requests
    BY <1>1, BusyJob
  <1>3. hit' \in SUBSET Requests /\ kills' \in Nat
    BY <1>2 DEF Kill, TypeInv, TypeOK
  <1> QED
    BY <1>1, <1>3, AdvanceType
    DEF Kill, TypeInv, TypeOK, AdminHasModel, apiVars, dataVars, adminVars

LEMMA AdminType ==
    ASSUME TypeInv, NEW a \in Admins, AdminStep(a)
    PROVE  TypeInv'
  <1> USE DEF apiVars, dataVars, workerVars, adminVars, killVars, faultVars
  <1>0. ASSUME NEW models, NEW status \in ModelStatus
        PROVE  WithStatus(models, status) \in [Models -> Row]
    BY <1>0 DEF WithStatus, TypeInv, TypeOK, Row
  <1>00. FreeAdmin \in AdminStates /\ FreeAdmin.op = "free"
    BY DEF FreeAdmin, AdminStates, ModelStatus
  <1>1. ASSUME NEW m \in Models, NEW op \in {"activate", "deactivate"}, Find(a, m, op)
        PROVE  TypeInv'
    <2>1. [op |-> op, model |-> m, status |-> row[m].status] \in AdminStates
      BY DEF TypeInv, TypeOK, Row, AdminStates
    <2> QED
      BY <1>1, <2>1 DEF Find, TypeInv, TypeOK, BusyWithJob, AdminHasModel
  <1>2. CASE Activate(a)
    <2> DEFINE m == admin[a].model
               written == IF admin[a].status = "active" THEN {} ELSE {m}
               others == WithStatus(Rivals(m), "inactive")
    <2>1. /\ promoted' = promoted \ (Rivals(m) \cup written)
          /\ row' = [o \in Models |-> IF o \in written
                                      THEN [others[o] EXCEPT !.status = "active"]
                                      ELSE others[o]]
          /\ admin' = [admin EXCEPT ![a] = FreeAdmin]
      BY <1>2 DEF Activate, Registered
    <2>2. others \in [Models -> Row]
      BY <1>0 DEF ModelStatus
    <2> HIDE DEF written, others, m
    <2>3. row' \in [Models -> Row]
      BY <2>1, <2>2 DEF Row, ModelStatus
    <2> QED
      BY <1>2, <1>00, <2>1, <2>3 DEF Activate, Registered, TypeInv, TypeOK, BusyWithJob, AdminHasModel
  <1>3. CASE Deactivate(a)
    <2>1. row' \in [Models -> Row]
      BY <1>3, <1>0 DEF Deactivate, Registered, TypeInv, TypeOK, ModelStatus
    <2> QED
      BY <1>3, <1>00, <2>1 DEF Deactivate, Registered, TypeInv, TypeOK, BusyWithJob, AdminHasModel
  <1> QED
    BY <1>1, <1>2, <1>3 DEF AdminStep

LEMMA NextType == TypeInv /\ [Next]_vars => TypeInv'
  <1> SUFFICES ASSUME TypeInv, [Next]_vars
               PROVE  TypeInv'
    OBVIOUS
  <1> USE DEF apiVars, dataVars, workerVars, adminVars, killVars, faultVars
  <1>1. ASSUME NEW q \in Requests, Retry(q)
        PROVE  TypeInv'
    BY <1>1 DEF Retry, TypeInv, TypeOK, BusyWithJob, AdminHasModel
  <1>2. ASSUME NEW m \in Models, SnapshotExpires(m)
        PROVE  TypeInv'
    BY <1>2 DEF SnapshotExpires, TypeInv, TypeOK, BusyWithJob, AdminHasModel, SnapshotStates
  <1>3. ASSUME NEW f \in Forms, ResponseExpires(f)
        PROVE  TypeInv'
    BY <1>3 DEF ResponseExpires, TypeInv, TypeOK, BusyWithJob, AdminHasModel
  <1>4. CASE UNCHANGED vars
    BY <1>4 DEF vars, TypeInv, TypeOK, BusyWithJob, AdminHasModel
  <1> QED
    BY <1>1, <1>2, <1>3, <1>4, RequestType, ReserveType, TrainType, EvaluateType,
       KillType, AdminType
    DEF Next, WorkerStep

LEMMA TypeInvariant == Spec => []TypeInv
  BY InitType, NextType, PTL DEF Spec

\* Every state of every column, cache and queue has the type the code gives it.
THEOREM TypeCorrect == Spec => []TypeOK
  <1>1. TypeInv => TypeOK
    BY DEF TypeInv
  <1> QED
    BY <1>1, TypeInvariant, PTL

-----------------------------------------------------------------------------
(* The registry's choice *)

\* A step that makes no model active and forgets no promotion.
NoNewActive ==
    /\ promoted \subseteq promoted'
    /\ \A m \in Models : row'[m].status = "active" => row[m].status = "active"

\* Such a step keeps the invariant.
LEMMA QuietKeepsChosen ==
    ASSUME OneChosenActive, NoNewActive
    PROVE  OneChosenActive'
  BY DEF OneChosenActive, NoNewActive, SameGroup

\* Saving a row whose status is not a new "active" is such a step.
LEMMA SaveIsQuiet ==
    ASSUME TypeInv, NEW w \in Workers, NEW at \in HandlerSteps, NEW saved \in Row,
           NEW memory, NEW next, SaveModel(w, at, saved, memory, next),
           saved.status = "active" => row[Target(w)].status = "active"
    PROVE  NoNewActive
  <1>1. pc[w] # "free"
    BY DEF SaveModel, HandlerSteps, TrainSteps, EvaluateSteps
  <1>2. Target(w) \in Models
    BY <1>1, BusyJob
  <1> QED
    BY <1>2 DEF SaveModel, NoNewActive, TypeInv, TypeOK

\* The only steps of a job that can activate a model are those of TrainPublish.
LEMMA JobsAreQuiet ==
    ASSUME TypeInv, NEW w \in Workers, WorkerStep(w), ~TrainPublish(w)
    PROVE  NoNewActive
  <1>1. ASSUME UNCHANGED <<row, promoted>>
        PROVE  NoNewActive
    BY <1>1 DEF NoNewActive
  <1>2. ASSUME NEW at, NEW next, Skip(w, at, next)
        PROVE  NoNewActive
    BY <1>1, <1>2 DEF Skip, dataVars, adminVars
  <1>3. ASSUME NEW at, NEW state, NEW next, NEW onError, Report(w, at, state, next, onError)
        PROVE  NoNewActive
    BY <1>1, <1>3 DEF Report, dataVars, adminVars
  <1>4. ASSUME NEW at, NEW status, NEW next, SaveRunAs(w, at, status, next)
        PROVE  NoNewActive
    BY <1>1, <1>4 DEF SaveRunAs, adminVars
  <1>5. CASE Reserve(w)
    BY <1>1, <1>5 DEF Reserve, dataVars, adminVars
  <1>6. CASE TrainRow(w)
    <2>1. pc[w] # "free"
      BY <1>6 DEF TrainRow, SaveModel
    <2> DEFINE saved == IF seen[w].status = "training" THEN row[Target(w)]
                        ELSE [row[Target(w)] EXCEPT !.status = "training"]
    <2>2. row[Target(w)] \in Row /\ [row[Target(w)] EXCEPT !.status = "training"] \in Row
      BY <2>1, RowValues DEF ModelStatus
    <2>3. saved \in Row /\ (saved.status = "active" => row[Target(w)].status = "active")
      BY <2>2 DEF Row
    <2>4. "row" \in HandlerSteps
      BY DEF HandlerSteps, TrainSteps
    <2> QED
      BY <1>6, <2>3, <2>4, SaveIsQuiet DEF TrainRow
  <1>7. CASE TrainFailRow(w)
    <2>1. pc[w] # "free"
      BY <1>7 DEF TrainFailRow, SaveModel
    <2>2. row[Target(w)] \in Row /\ [row[Target(w)] EXCEPT !.status = "failed"] \in Row
      BY <2>1, RowValues DEF ModelStatus
    <2>3. [row[Target(w)] EXCEPT !.status = "failed"].status # "active"
      BY <2>2 DEF Row
    <2>4. "failRow" \in HandlerSteps
      BY DEF HandlerSteps, TrainSteps
    <2> QED
      BY <1>7, <2>2, <2>3, <2>4, SaveIsQuiet DEF TrainFailRow
  <1>8. CASE EvaluateSave(w)
    <2>1. pc[w] # "free"
      BY <1>8 DEF EvaluateSave, SaveModel
    <2> DEFINE metadata == [seen[w].metadata EXCEPT !.evals = @ \cup {job[w]}]
               saved == [row[Target(w)] EXCEPT !.metadata = metadata]
    <2>2. row[Target(w)] \in Row /\ saved \in Row
      BY <2>1, RowValues
    <2>3. saved.status = row[Target(w)].status
      BY <2>2 DEF Row
    <2>4. "evSave" \in HandlerSteps
      BY DEF HandlerSteps, EvaluateSteps
    <2> QED
      BY <1>8, <2>2, <2>3, <2>4, SaveIsQuiet DEF EvaluateSave
  <1>9. CASE TrainPut(w)
    BY <1>1, <1>9 DEF TrainPut, adminVars
  <1> QED
    BY <1>2, <1>3, <1>4, <1>5, <1>6, <1>7, <1>8, <1>9
    DEF WorkerStep, TrainStep, EvaluateStep, TrainRun, TrainBegin, TrainFit, TrainReport,
        TrainComplete, TrainSettle, TrainFailRun, TrainFailMark, EvaluateBegin,
        EvaluateCompute, EvaluateProgress, EvaluateSettle, EvaluateFail

\* A training promotes its own model only.
LEMMA PublishKeepsChosen ==
    ASSUME TypeInv, OneChosenActive, NEW w \in Workers, TrainPublish(w)
    PROVE  OneChosenActive'
  <1>1. pc[w] # "free"
    BY DEF TrainPublish, SaveModel
  <1>2. Target(w) \in Models
    BY <1>1, BusyJob
  <1>3. promoted' = promoted \cup {Target(w)}
    BY DEF TrainPublish, SaveModel
  <1>4. \A m \in Models \ {Target(w)} : row'[m] = row[m]
    BY <1>2 DEF TrainPublish, SaveModel, TypeInv, TypeOK
  <1> QED
    BY <1>2, <1>3, <1>4 DEF OneChosenActive, SameGroup

\* The transaction leaves the chosen model without a rival, even when its save
\* was skipped.
LEMMA ActivateKeepsChosen ==
    ASSUME TypeInv, OneChosenActive, NEW a \in Admins, Activate(a)
    PROVE  OneChosenActive'
  <1> DEFINE m == admin[a].model
             written == IF admin[a].status = "active" THEN {} ELSE {m}
  <1>1. m \in Models
    BY DEF Activate, TypeInv, AdminHasModel
  <1>2. /\ promoted' = promoted \ (Rivals(m) \cup written)
        /\ \A o \in Models :
             row'[o] = IF o \in written
                       THEN [WithStatus(Rivals(m), "inactive")[o] EXCEPT !.status = "active"]
                       ELSE WithStatus(Rivals(m), "inactive")[o]
    BY DEF Activate, Registered
  <1>3. written \subseteq {m} /\ m \notin Rivals(m)
    BY DEF Rivals
  <1> HIDE DEF written
  <1>4. \A o \in Models \ written : o \notin Rivals(m) => row'[o] = row[o]
    BY <1>2 DEF WithStatus
  <1>5. \A o \in Rivals(m) : row'[o].status = "inactive"
    <2> SUFFICES ASSUME NEW o \in Rivals(m)
                 PROVE  row'[o].status = "inactive"
      OBVIOUS
    <2>1. o \in Models /\ o \notin written
      BY <1>3 DEF Rivals
    <2>2. row'[o] = [row[o] EXCEPT !.status = "inactive"]
      BY <1>2, <2>1 DEF WithStatus
    <2>3. row[o] \in Row
      BY <2>1 DEF TypeInv, TypeOK
    <2> QED
      BY <2>2, <2>3 DEF Row
  <1> SUFFICES ASSUME NEW x \in Models, NEW y \in Models, x # y, SameGroup(x, y),
                      row'[x].status = "active", row'[y].status = "active"
               PROVE  x \in promoted' \/ y \in promoted'
    BY DEF OneChosenActive, SameGroup
  <1>6. x \notin Rivals(m) /\ y \notin Rivals(m)
    BY <1>5
  <1>7. x # m /\ y # m
    BY <1>1, <1>6 DEF Rivals, SameGroup
  <1>8. row'[x] = row[x] /\ row'[y] = row[y]
    BY <1>3, <1>4, <1>6, <1>7
  <1>9. x \in promoted \/ y \in promoted
    BY <1>8 DEF OneChosenActive
  <1> QED
    BY <1>2, <1>3, <1>6, <1>7, <1>9

\* Deactivation makes nothing active.
LEMMA DeactivateIsQuiet ==
    ASSUME TypeInv, NEW a \in Admins, Deactivate(a)
    PROVE  NoNewActive
  BY DEF Deactivate, Registered, WithStatus, NoNewActive, TypeInv, TypeOK, Row

LEMMA NextChosen == TypeInv /\ OneChosenActive /\ [Next]_vars => OneChosenActive'
  <1> SUFFICES ASSUME TypeInv, OneChosenActive, [Next]_vars
               PROVE  OneChosenActive'
    OBVIOUS
  <1>1. ASSUME UNCHANGED <<row, promoted>>
        PROVE  OneChosenActive'
    BY <1>1, QuietKeepsChosen DEF NoNewActive
  <1>2. ASSUME NEW q \in Requests, RequestStep(q) \/ Retry(q)
        PROVE  OneChosenActive'
    BY <1>1, <1>2 DEF RequestStep, Check, SaveRun, MarkQueued, StoreResponse, Dispatch,
                      Retry, dataVars, adminVars
  <1>3. ASSUME NEW w \in Workers, WorkerStep(w)
        PROVE  OneChosenActive'
    BY <1>3, JobsAreQuiet, QuietKeepsChosen, PublishKeepsChosen
  <1>4. ASSUME NEW w \in Workers, Kill(w)
        PROVE  OneChosenActive'
    BY <1>1, <1>4 DEF Kill, dataVars, adminVars
  <1>5. ASSUME NEW a \in Admins, AdminStep(a)
        PROVE  OneChosenActive'
    <2>1. ASSUME NEW m \in Models, NEW op, Find(a, m, op)
          PROVE  OneChosenActive'
      BY <1>1, <2>1 DEF Find, dataVars
    <2> QED
      BY <1>5, <2>1, ActivateKeepsChosen, DeactivateIsQuiet, QuietKeepsChosen DEF AdminStep
  <1>6. ASSUME NEW m \in Models, SnapshotExpires(m)
        PROVE  OneChosenActive'
    BY <1>1, <1>6 DEF SnapshotExpires, dataVars, adminVars
  <1>7. ASSUME NEW f \in Forms, ResponseExpires(f)
        PROVE  OneChosenActive'
    BY <1>1, <1>7 DEF ResponseExpires, dataVars, adminVars
  <1>8. CASE UNCHANGED vars
    BY <1>1, <1>8 DEF vars, dataVars, adminVars
  <1> QED
    BY <1>2, <1>3, <1>4, <1>5, <1>6, <1>7, <1>8 DEF Next

\* Whatever the number of admins racing to activate models of one tag and area,
\* and whatever the stale copies they hold, two of these models are active together
\* only if a training promoted one of them.
THEOREM ChosenIsUnique == Spec => []OneChosenActive
  <1>1. Init => OneChosenActive
    BY DEF Init, OneChosenActive, BlankRow
  <1> QED
    BY <1>1, NextChosen, TypeInvariant, PTL DEF Spec

-----------------------------------------------------------------------------
(* Artifacts *)

\* Runs whose artifact is on the disk, or was refused by it.
Stored == files \cup refused

\* A handler that has put its artifact on the disk is about to announce it, and what
\* a job has loaded names an artifact that was there.
HandlersHoldStored ==
    \A w \in Workers :
        /\ pc[w] \in {"stored", "complete", "publish", "settle"} => job[w] \in Stored
        /\ seen[w].metadata.artifact \in Stored \cup {None}

ArtifactInv == TypeInv /\ ArtifactsOnDisk /\ HandlersHoldStored

\* A step that takes nothing from the disk, and touches neither runs, rows nor jobs.
LEMMA QuietKeepsStored ==
    ASSUME ArtifactInv, TypeInv', Stored \subseteq Stored',
           UNCHANGED <<run, pc, job, seen>>,
           \A m \in Models : row'[m].metadata.artifact = row[m].metadata.artifact
    PROVE  ArtifactInv'
BY DEF ArtifactInv, ArtifactsOnDisk, HandlersHoldStored, Stored

\* A step of the handler of w, which may write its run and its model.
LEMMA HandlerKeepsStored ==
    ASSUME ArtifactInv, TypeInv', NEW w \in Workers, pc[w] # "free",
           NEW step \in Outcomes, NEW memory \in Row, Advance(w, step, memory),
           Stored \subseteq Stored',
           memory.metadata.artifact \in Stored' \cup {None},
           step \in {"stored", "complete", "publish", "settle"} => job[w] \in Stored',
           \A q \in Requests : run'[q] = "completed" => run[q] = "completed" \/ q \in Stored',
           \A m \in Models : \/ row'[m].metadata.artifact = row[m].metadata.artifact
                             \/ row'[m].metadata.artifact \in Stored' \cup {None}
    PROVE  ArtifactInv'
<1> USE DEF ArtifactInv
<1>1. ArtifactsOnDisk'
  BY DEF ArtifactsOnDisk, Stored
<1>2. /\ pc' = [pc EXCEPT ![w] = IF step \in {"done", "throw"} THEN "free" ELSE step]
      /\ job' = [job EXCEPT ![w] = IF step \in {"done", "throw"} THEN None ELSE job[w]]
      /\ seen' = [seen EXCEPT ![w] = IF step \in {"done", "throw"} THEN BlankRow ELSE memory]
  BY DEF Advance
<1>3. pc \in [Workers -> WorkerSteps] /\ job \in [Workers -> Requests \cup {None}] /\ seen \in [Workers -> Row]
  BY DEF TypeInv, TypeOK
<1>4. HandlersHoldStored'
  <2> SUFFICES ASSUME NEW v \in Workers
               PROVE  /\ pc'[v] \in {"stored", "complete", "publish", "settle"} => job'[v] \in Stored'
                      /\ seen'[v].metadata.artifact \in Stored' \cup {None}
    BY DEF HandlersHoldStored
  <2>1. CASE v = w
    BY <1>2, <1>3, <2>1 DEF BlankRow
  <2>2. CASE v # w
    BY <1>2, <1>3, <2>2 DEF HandlersHoldStored
  <2> QED BY <2>1, <2>2
<1> QED BY <1>1, <1>4

\* The four kinds of steps.
LEMMA KindsKeepStored ==
    ASSUME ArtifactInv, TypeInv', NEW w \in Workers, NEW at \in HandlerSteps, NEW next \in Outcomes,
           next \in {"stored", "complete", "publish", "settle"} => job[w] \in Stored
    PROVE  /\ Skip(w, at, next) => ArtifactInv'
           /\ \A state : \A onError \in Outcomes :
                 onError \notin {"stored", "complete", "publish", "settle"} /\ Report(w, at, state, next, onError)
                    => ArtifactInv'
           /\ \A status : (status = "completed" => job[w] \in Stored) /\ SaveRunAs(w, at, status, next)
                    => ArtifactInv'
           /\ \A saved : \A memory \in Row :
                 ({saved.metadata.artifact, memory.metadata.artifact} \subseteq Stored \cup {None}
                   /\ SaveModel(w, at, saved, memory, next)) => ArtifactInv'
<1> USE DEF ArtifactInv
<1>1. at # "free" /\ seen[w] \in Row /\ seen[w].metadata.artifact \in Stored \cup {None}
  BY DEF HandlerSteps, TrainSteps, EvaluateSteps, TypeInv, TypeOK, HandlersHoldStored
<1>2. ASSUME Skip(w, at, next) PROVE ArtifactInv'
  BY <1>1, <1>2, HandlerKeepsStored DEF Skip, dataVars, faultVars, Stored
<1>3. ASSUME NEW state, NEW onError \in Outcomes, Report(w, at, state, next, onError),
             onError \notin {"stored", "complete", "publish", "settle"}
      PROVE  ArtifactInv'
  <2>1. PICK returned \in BOOLEAN :
            /\ Store(job[w], Target(w), state, returned)
            /\ Advance(w, IF returned THEN next ELSE onError, seen[w])
    BY <1>3 DEF Report
  <2>2. Stored \subseteq Stored' /\ UNCHANGED dataVars
    BY <1>3, <2>1 DEF Report, Store, Fault, faultVars, dataVars, Stored
  <2>3. pc[w] # "free"
    BY <1>1, <1>3 DEF Report
  <2>4. (IF returned THEN next ELSE onError) \in Outcomes
    OBVIOUS
  <2> DEFINE step == IF returned THEN next ELSE onError
  <2>5. step \in {"stored", "complete", "publish", "settle"} => job[w] \in Stored'
    BY <1>3, <2>2
  <2> HIDE DEF step
  <2> QED BY <1>1, <2>1, <2>2, <2>3, <2>4, <2>5, HandlerKeepsStored DEF dataVars, step
<1>4. ASSUME NEW status, SaveRunAs(w, at, status, next), status = "completed" => job[w] \in Stored
      PROVE  ArtifactInv'
  <2>1. Stored' = Stored /\ row' = row /\ run' = [run EXCEPT ![job[w]] = status] /\ pc[w] # "free"
    BY <1>1, <1>4 DEF SaveRunAs, faultVars, Stored
  <2>2. \A q \in Requests : run'[q] = "completed" => run[q] = "completed" \/ q \in Stored'
    BY <1>4, <2>1 DEF TypeInv, TypeOK
  <2> QED BY <1>1, <1>4, <2>1, <2>2, HandlerKeepsStored DEF SaveRunAs
<1>5. ASSUME NEW saved, NEW memory \in Row, SaveModel(w, at, saved, memory, next),
             saved.metadata.artifact \in Stored \cup {None},
             memory.metadata.artifact \in Stored \cup {None}
      PROVE  ArtifactInv'
  <2>1. Stored' = Stored /\ run' = run /\ row' = [row EXCEPT ![Target(w)] = saved] /\ pc[w] # "free"
    BY <1>1, <1>5 DEF SaveModel, faultVars, Stored
  <2>2. \A m \in Models : \/ row'[m].metadata.artifact = row[m].metadata.artifact
                          \/ row'[m].metadata.artifact \in Stored' \cup {None}
    BY <1>5, <2>1 DEF TypeInv, TypeOK
  <2> QED BY <1>1, <1>5, <2>1, <2>2, HandlerKeepsStored DEF SaveModel
<1> HIDE DEF ArtifactInv
<1>6. \A state : \A onError \in Outcomes :
         onError \notin {"stored", "complete", "publish", "settle"} /\ Report(w, at, state, next, onError)
            => ArtifactInv'
  BY <1>3
<1>7. \A status : (status = "completed" => job[w] \in Stored) /\ SaveRunAs(w, at, status, next) => ArtifactInv'
  BY <1>4
<1>8. \A saved : \A memory \in Row :
         ({saved.metadata.artifact, memory.metadata.artifact} \subseteq Stored \cup {None}
           /\ SaveModel(w, at, saved, memory, next)) => ArtifactInv'
  <2> SUFFICES ASSUME NEW saved, NEW memory \in Row, saved.metadata.artifact \in Stored \cup {None},
                      memory.metadata.artifact \in Stored \cup {None}, SaveModel(w, at, saved, memory, next)
               PROVE  ArtifactInv'
    OBVIOUS
  <2> QED BY <1>5
<1> QED BY <1>2, <1>6, <1>7, <1>8

LEMMA JobsKeepStored ==
    ASSUME ArtifactInv, TypeInv', NEW w \in Workers, WorkerStep(w) \/ Kill(w)
    PROVE  ArtifactInv'
<1> USE DEF HandlerSteps, TrainSteps, EvaluateSteps, Outcomes
<1>1. /\ seen[w] \in Row /\ row \in [Models -> Row]
      /\ \A m \in Models : row[m].metadata.artifact \in Stored \cup {None}
      /\ seen[w].metadata.artifact \in Stored \cup {None}
      /\ pc[w] \in {"stored", "complete", "publish", "settle"} => job[w] \in Stored
      /\ pc[w] # "free" => Target(w) \in Models /\ job[w] \in Requests
  BY BusyJob DEF ArtifactInv, HandlersHoldStored, ArtifactsOnDisk, TypeInv, TypeOK, Stored
<1>2. CASE Reserve(w)
  <2> DEFINE q == Head(queue)
  <2>1. q \in Requests /\ form[q].model \in Models
    BY <1>2 DEF Reserve, ArtifactInv, TypeInv, TypeOK, Forms
  <2>2. ASSUME NEW v \in Workers
        PROVE  /\ pc'[v] \in {"stored", "complete", "publish", "settle"} => job'[v] \in Stored
               /\ seen'[v].metadata.artifact \in Stored \cup {None}
    <3>1. CASE v = w
      BY <1>1, <1>2, <2>1, <3>1 DEF Reserve, ArtifactInv, TypeInv, TypeOK
    <3>2. CASE v # w
      BY <1>2, <3>2 DEF Reserve, ArtifactInv, TypeInv, TypeOK, HandlersHoldStored
    <3> QED BY <3>1, <3>2
  <2>3. UNCHANGED <<run, row, files, refused>>
    BY <1>2 DEF Reserve, dataVars, faultVars
  <2> QED BY <2>2, <2>3 DEF ArtifactInv, ArtifactsOnDisk, HandlersHoldStored, Stored
<1>3. CASE TrainRun(w)
  BY <1>3, KindsKeepStored DEF TrainRun
<1>4. CASE TrainRow(w)
  <2>1. pc[w] = "row"
    BY <1>4 DEF TrainRow, SaveModel
  <2> DEFINE saved == IF seen[w].status = "training" THEN row[Target(w)]
                      ELSE [row[Target(w)] EXCEPT !.status = "training"]
             memory == [seen[w] EXCEPT !.status = "training"]
  <2>2. memory \in Row /\ memory.metadata = seen[w].metadata
    BY <1>1 DEF Row, ModelStatus
  <2>3. saved.metadata = row[Target(w)].metadata
    BY <1>1, <2>1 DEF Row
  <2>4. SaveModel(w, "row", saved, memory, "begin")
    BY <1>4 DEF TrainRow
  <2> HIDE DEF saved, memory
  <2> QED BY <1>1, <2>1, <2>2, <2>3, <2>4, KindsKeepStored
<1>5. CASE TrainBegin(w)
  BY <1>5, KindsKeepStored DEF TrainBegin
<1>6. CASE TrainFit(w)
  BY <1>6, KindsKeepStored DEF TrainFit
<1>7. CASE TrainPut(w)
  <2>1. pc[w] # "free" /\ job[w] \in Stored' /\ Stored \subseteq Stored' /\ UNCHANGED <<run, row>>
    BY <1>7 DEF TrainPut, Fault, faultVars, Stored
  <2> QED BY <1>1, <1>7, <2>1, HandlerKeepsStored DEF TrainPut
<1>8. CASE TrainReport(w)
  <2>1. job[w] \in Stored
    BY <1>1, <1>8 DEF TrainReport, Report
  <2> QED BY <1>8, <2>1, KindsKeepStored DEF TrainReport
<1>9. CASE TrainComplete(w)
  BY <1>1, <1>9, KindsKeepStored DEF TrainComplete, SaveRunAs
<1>10. CASE TrainPublish(w)
  <2>1. pc[w] = "publish"
    BY <1>10 DEF TrainPublish, SaveModel
  <2> DEFINE saved == Published([seen[w].metadata EXCEPT !.artifact = job[w]])
  <2>2. saved \in Row /\ saved.metadata.artifact = job[w]
    <3>1. saved \in Row
      BY <2>1, RowValues DEF ArtifactInv
    <3>2. saved.metadata.artifact = job[w]
      BY <1>1 DEF Published, Row, Metadata
    <3> QED BY <3>1, <3>2
  <2>3. SaveModel(w, "publish", saved, saved, "settle")
    BY <1>10 DEF TrainPublish
  <2> HIDE DEF saved
  <2> QED BY <1>1, <2>1, <2>2, <2>3, KindsKeepStored
<1>11. CASE TrainSettle(w)
  BY <1>11, KindsKeepStored DEF TrainSettle
<1>12. CASE TrainFailRun(w)
  BY <1>12, KindsKeepStored DEF TrainFailRun
<1>13. CASE TrainFailRow(w)
  <2>1. pc[w] = "failRow"
    BY <1>13 DEF TrainFailRow, SaveModel
  <2> DEFINE saved == [row[Target(w)] EXCEPT !.status = "failed"]
             memory == [seen[w] EXCEPT !.status = "failed"]
  <2>2. memory \in Row /\ memory.metadata = seen[w].metadata
    BY <1>1 DEF Row, ModelStatus
  <2>3. saved.metadata = row[Target(w)].metadata
    BY <1>1, <2>1 DEF Row
  <2>4. SaveModel(w, "failRow", saved, memory, "failMark")
    BY <1>13 DEF TrainFailRow
  <2> HIDE DEF saved, memory
  <2> QED BY <1>1, <2>1, <2>2, <2>3, <2>4, KindsKeepStored
<1>14. CASE TrainFailMark(w)
  BY <1>14, KindsKeepStored DEF TrainFailMark
<1>15. CASE EvaluateBegin(w)
  BY <1>15, KindsKeepStored DEF EvaluateBegin
<1>16. CASE EvaluateCompute(w)
  BY <1>16, KindsKeepStored DEF EvaluateCompute
<1>17. CASE EvaluateProgress(w)
  BY <1>17, KindsKeepStored DEF EvaluateProgress
<1>18. CASE EvaluateSave(w)
  <2>1. pc[w] = "evSave"
    BY <1>18 DEF EvaluateSave, SaveModel
  <2> DEFINE metadata == [seen[w].metadata EXCEPT !.evals = @ \cup {job[w]}]
             saved == [row[Target(w)] EXCEPT !.metadata = metadata]
             memory == [seen[w] EXCEPT !.metadata = metadata]
  <2>2. memory \in Row
    BY <2>1, RowValues DEF ArtifactInv
  <2>3. metadata.artifact = seen[w].metadata.artifact
    BY <1>1 DEF Row, Metadata
  <2>4. saved.metadata = metadata /\ memory.metadata = metadata
    BY <1>1, <2>1 DEF Row
  <2>5. SaveModel(w, "evSave", saved, memory, "evSettle")
    BY <1>18 DEF EvaluateSave
  <2> HIDE DEF saved, memory, metadata
  <2> QED BY <1>1, <2>1, <2>2, <2>3, <2>4, <2>5, KindsKeepStored
<1>19. CASE EvaluateSettle(w)
  BY <1>19, KindsKeepStored DEF EvaluateSettle
<1>20. CASE EvaluateFail(w)
  BY <1>20, KindsKeepStored DEF EvaluateFail
<1>21. CASE Kill(w)
  <2>1. pc[w] # "free" /\ Stored \subseteq Stored' /\ UNCHANGED <<run, row>>
    BY <1>21 DEF Kill, dataVars, Stored
  <2> QED BY <1>1, <1>21, <2>1, HandlerKeepsStored DEF Kill
<1> QED
  BY <1>2, <1>3, <1>4, <1>5, <1>6, <1>7, <1>8, <1>9, <1>10, <1>11, <1>12, <1>13, <1>14,
     <1>15, <1>16, <1>17, <1>18, <1>19, <1>20, <1>21
  DEF WorkerStep, TrainStep, EvaluateStep

LEMMA NextStored == ArtifactInv /\ [Next]_vars => ArtifactInv'
<1> SUFFICES ASSUME ArtifactInv, [Next]_vars PROVE ArtifactInv'
  OBVIOUS
<1>1. TypeInv'
  BY NextType DEF ArtifactInv
<1>2. ASSUME NEW q \in Requests, RequestStep(q) \/ Retry(q) PROVE ArtifactInv'
  <2>1. UNCHANGED <<row, files, pc, job, seen, refused>>
    BY <1>2 DEF RequestStep, Check, SaveRun, MarkQueued, StoreResponse, Dispatch, Retry, Store,
                Fault, dataVars, workerVars, faultVars
  <2>2. \A p \in Requests : run'[p] = "completed" => run[p] = "completed"
    BY <1>2 DEF RequestStep, Check, SaveRun, MarkQueued, StoreResponse, Dispatch, Retry, dataVars,
                ArtifactInv, TypeInv, TypeOK
  <2> QED BY <1>1, <2>1, <2>2 DEF ArtifactInv, ArtifactsOnDisk, HandlersHoldStored, Stored
<1>3. ASSUME NEW a \in Admins, AdminStep(a) PROVE ArtifactInv'
  <2>1. UNCHANGED <<run, files, pc, job, seen, refused>>
    BY <1>3 DEF AdminStep, Find, Activate, Deactivate, Registered, dataVars, workerVars, faultVars
  <2>2. \A m \in Models : row'[m].metadata.artifact = row[m].metadata.artifact
    <3>0. row \in [Models -> Row]
      BY DEF ArtifactInv, TypeInv, TypeOK
    <3>1. \A models, status : \A m \in Models :
             /\ WithStatus(models, status)[m].metadata = row[m].metadata
             /\ [WithStatus(models, status)[m] EXCEPT !.status = "active"].metadata = row[m].metadata
      BY <3>0 DEF WithStatus, Row
    <3>2. CASE Activate(a)
      BY <3>1, <3>2 DEF Activate, Registered
    <3>3. CASE Deactivate(a)
      BY <3>1, <3>3 DEF Deactivate, Registered
    <3>4. CASE row' = row
      BY <3>4
    <3> QED BY <1>3, <3>2, <3>3, <3>4 DEF AdminStep, Find, dataVars
  <2> QED BY <1>1, <2>1, <2>2, QuietKeepsStored DEF Stored
<1>4. ASSUME NEW m \in Models, SnapshotExpires(m) PROVE ArtifactInv'
  BY <1>1, <1>4, QuietKeepsStored DEF SnapshotExpires, dataVars, workerVars, faultVars, Stored
<1>5. ASSUME NEW f \in Forms, ResponseExpires(f) PROVE ArtifactInv'
  BY <1>1, <1>5, QuietKeepsStored DEF ResponseExpires, dataVars, workerVars, faultVars, Stored
<1>6. CASE UNCHANGED vars
  BY <1>1, <1>6, QuietKeepsStored DEF vars, dataVars, workerVars, faultVars, Stored
<1> QED BY <1>1, <1>2, <1>3, <1>4, <1>5, <1>6, JobsKeepStored DEF Next

\* What a model names and what a run announces as completed is on the disk, whoever
\* saved last and from whatever copy, unless the disk refused the write.
THEOREM ArtifactsStayOnDisk == Spec => []ArtifactsOnDisk
<1>1. Init => ArtifactInv
  BY InitType DEF Init, ArtifactInv, ArtifactsOnDisk, HandlersHoldStored, Stored, BlankRow
<1>2. ArtifactInv => ArtifactsOnDisk
  BY DEF ArtifactInv
<1> QED BY <1>1, <1>2, NextStored, PTL DEF Spec

-----------------------------------------------------------------------------
(* The queue *)

Holds(q, p) == \E i \in 1 .. Len(q) : q[i] = p
Distinct(q) == \A i, j \in 1 .. Len(q) : q[i] = q[j] => i = j

LEMMA AppendHolds ==
    ASSUME NEW q \in Seq(Requests), Distinct(q), NEW p \in Requests, ~Holds(q, p)
    PROVE  /\ Append(q, p) \in Seq(Requests)
           /\ Distinct(Append(q, p))
           /\ \A x : Holds(Append(q, p), x) <=> Holds(q, x) \/ x = p
<1> DEFINE r == Append(q, p)
<1>1. /\ r \in Seq(Requests) /\ Len(r) = Len(q) + 1
      /\ \A i \in 1 .. Len(q) : r[i] = q[i]
      /\ r[Len(q) + 1] = p
  BY AppendProperties
<1>2. Len(q) \in Nat
  OBVIOUS
<1> HIDE DEF r
<1>3. Distinct(r)
  BY <1>1, <1>2 DEF Distinct, Holds
<1>4. ASSUME NEW x, Holds(r, x) PROVE Holds(q, x) \/ x = p
  <2>1. PICK i \in 1 .. Len(r) : r[i] = x
    BY <1>4 DEF Holds
  <2>2. i \in 1 .. Len(q) \/ i = Len(q) + 1
    BY <1>1, <1>2
  <2> QED BY <2>1, <2>2, <1>1 DEF Holds
<1>5. ASSUME NEW x, Holds(q, x) \/ x = p PROVE Holds(r, x)
  <2>1. (\A i \in 1 .. Len(q) : i \in 1 .. Len(r)) /\ Len(q) + 1 \in 1 .. Len(r)
    BY <1>1, <1>2
  <2> QED BY <2>1, <1>1, <1>5 DEF Holds
<1> QED BY <1>1, <1>3, <1>4, <1>5 DEF r

LEMMA TailHolds ==
    ASSUME NEW q \in Seq(Requests), q # <<>>, Distinct(q)
    PROVE  /\ Tail(q) \in Seq(Requests) /\ Head(q) \in Requests
           /\ Distinct(Tail(q))
           /\ Holds(q, Head(q)) /\ ~Holds(Tail(q), Head(q))
           /\ \A x : Holds(Tail(q), x) => Holds(q, x)
           /\ \A x : Holds(q, x) => Holds(Tail(q), x) \/ x = Head(q)
<1> DEFINE r == Tail(q)
<1>1. /\ r \in Seq(Requests) /\ Head(q) \in Requests /\ Len(r) = Len(q) - 1
      /\ \A i \in 1 .. Len(r) : r[i] = q[i + 1]
  BY HeadTailProperties
<1>2. Len(q) \in Nat \ {0} /\ Head(q) = q[1]
  BY EmptySeq
<1> HIDE DEF r
<1>3. 1 \in 1 .. Len(q) /\ \A i \in 1 .. Len(r) : i + 1 \in 1 .. Len(q) /\ i + 1 # 1
  BY <1>1, <1>2
<1>4. Distinct(r)
  <2> SUFFICES ASSUME NEW i \in 1 .. Len(r), NEW j \in 1 .. Len(r), r[i] = r[j] PROVE i = j
    BY DEF Distinct
  <2>1. i + 1 = j + 1
    BY <1>1, <1>3 DEF Distinct
  <2> QED BY <2>1
<1>5. Holds(q, Head(q)) /\ ~Holds(r, Head(q)) /\ \A x : Holds(r, x) => Holds(q, x)
  BY <1>1, <1>2, <1>3 DEF Holds, Distinct
<1>6. ASSUME NEW x, Holds(q, x) PROVE Holds(r, x) \/ x = Head(q)
  <2>1. PICK i \in 1 .. Len(q) : q[i] = x
    BY <1>6 DEF Holds
  <2>2. CASE i = 1
    BY <2>1, <2>2, <1>2
  <2>3. CASE i # 1
    <3>1. i - 1 \in 1 .. Len(r) /\ (i - 1) + 1 = i
      BY <2>3, <1>1, <1>2
    <3> QED BY <3>1, <2>1, <1>1 DEF Holds
  <2> QED BY <2>2, <2>3
<1> QED BY <1>1, <1>4, <1>5, <1>6 DEF r

-----------------------------------------------------------------------------
(* The work that is under way *)

Busy == {"training", "evaluating"}
Over == {"done", "throw"}

\* From these steps a training goes on to write the status of its model.
Trainers == {"begin", "fit", "fitted", "stored", "complete", "publish", "failRun", "failRow"}

\* The stages of a request whose job has been pushed.
Pushed == {"accepted", "store500"}

\* The stages between a request's report and its push.
Marked == {"marked", "stored", "unstored"}

\* At step `at` the job of q goes on to write the status of its model: it has set it to
\* training, or an earlier attempt that was cut short may have.
Resuming(at, q) == at \in Trainers \/ (at \in {"run", "row"} /\ q \in hit)

\* A training of m that was cut short and is still to be run again.
Waiting(m) == \E q \in Requests : form[q].kind = "train" /\ form[q].model = m /\ Interrupted(q)

\* A model that is training is that of a trainer.
RowsTrained ==
    \A m \in Models :
        row[m].status = "training" =>
            Waiting(m) \/ \E w \in Workers : Resuming(pc[w], job[w]) /\ Target(w) = m

\* A snapshot that says busy will be written again.
SnapshotsPending == \A m \in Models : snapshot[m] \in Busy => Pending(m) \/ Disturbed(m)

\* A job is in one place, once, and only after its push.
JobPlaced ==
    /\ Distinct(queue)
    /\ \A q \in Requests :
          Holds(queue, q) => q \notin failedJobs /\ \A w \in Workers : job[w] # q
    /\ \A w \in Workers : job[w] \notin failedJobs
    /\ \A v, w \in Workers : job[v] = job[w] /\ job[v] # None => v = w
    /\ \A q \in Requests :
          Holds(queue, q) \/ q \in failedJobs \/ (\E w \in Workers : job[w] = q) => stage[q] \in Pushed

\* What each handler has recorded of its run.
RunInv ==
    /\ \A w \in Workers :
          /\ pc[w] \in {"publish", "settle"} => run[job[w]] = "completed"
          /\ pc[w] \in {"failRow", "failMark"} => run[job[w]] = "failed"
          /\ pc[w] \in TrainSteps => form[job[w]].kind = "train"
          /\ pc[w] \in EvaluateSteps => form[job[w]].kind = "evaluate"
    /\ \A q \in Requests : form[q].kind = "evaluate" => run[q] = "none"
    /\ \A q \in Requests : run[q] = "running" => Interrupted(q) \/ \E w \in Workers : job[w] = q

WorkInv == TypeInv /\ RowsTrained /\ SnapshotsPending /\ JobPlaced /\ RunInv

\* What a step of the handler of w to `step` may do.
Works(w, step) ==
    /\ UNCHANGED <<form, stage, queue>>
    /\ hit \subseteq hit' /\ muted \subseteq muted'
    /\ \A m \in Models : row'[m].status = "training" => row[m].status = "training" \/ (m = Target(w) /\ step \in Trainers)
    /\ Resuming(pc[w], job[w]) => \/ step \in Trainers
                                  \/ step \in {"run", "row", "throw"} /\ job[w] \in hit'
                                  \/ row'[Target(w)].status # "training"
    /\ \A m \in Models : snapshot'[m] \in Busy => snapshot[m] \in Busy \/ m = Target(w)
    /\ step \in Over => \/ step = "throw" /\ job[w] \in hit'
                       \/ /\ run'[job[w]] # "running"
                          /\ snapshot'[Target(w)] \notin Busy \/ job[w] \in hit' \cap muted'
    /\ \A q \in Requests \ {job[w]} : run'[q] = run[q]
    /\ form[job[w]].kind = "evaluate" => run'[job[w]] = run[job[w]]
    /\ step \in {"publish", "settle"} => run'[job[w]] = "completed"
    /\ step \in {"failRow", "failMark"} => run'[job[w]] = "failed"
    /\ step \in TrainSteps => form[job[w]].kind = "train"
    /\ step \in EvaluateSteps => form[job[w]].kind = "evaluate"

LEMMA WorkKeeps ==
    ASSUME WorkInv, TypeInv', NEW w \in Workers, pc[w] # "free",
           NEW step \in Outcomes, NEW memory, Advance(w, step, memory), Works(w, step)
    PROVE  WorkInv'
<1>1. /\ TypeOK /\ job[w] \in Requests /\ Target(w) \in Models /\ Target(w) = form[job[w]].model
  BY BusyJob DEF WorkInv, TypeInv, Target
<1>2. /\ pc' = [pc EXCEPT ![w] = IF step \in Over THEN "free" ELSE step]
      /\ job' = [job EXCEPT ![w] = IF step \in Over THEN None ELSE job[w]]
      /\ failedJobs' = IF step = "throw" THEN failedJobs \cup {job[w]} ELSE failedJobs
  BY DEF Advance, Over
<1>3. /\ \A v \in Workers \ {w} : pc'[v] = pc[v] /\ job'[v] = job[v]
      /\ pc'[w] = (IF step \in Over THEN "free" ELSE step)
      /\ job'[w] = (IF step \in Over THEN None ELSE job[w])
  BY <1>1, <1>2 DEF TypeOK
<1>4. /\ \A q \in Requests : Interrupted(q) => Interrupted(q)'
      /\ \A m \in Models : Disturbed(m) => Disturbed(m)'
      /\ \A q \in Requests : q = job[w] /\ step = "throw" /\ q \in hit' => Interrupted(q)'
      /\ \A m \in Models : /\ m = Target(w)
                           /\ (step = "throw" /\ job[w] \in hit') \/ job[w] \in hit' \cap muted'
                           => Disturbed(m)'
  <2>1. failedJobs \subseteq failedJobs' /\ (step = "throw" => job[w] \in failedJobs')
    BY <1>2
  <2> QED BY <1>1, <2>1 DEF Works, Disturbed, CutShort, Interrupted, Queued
<1>5. RowsTrained'
  <2> SUFFICES ASSUME NEW m \in Models, row'[m].status = "training"
               PROVE  Waiting(m)' \/ \E v \in Workers : Resuming(pc[v], job[v])' /\ Target(v)' = m
    BY DEF RowsTrained, Resuming
  <2>0. /\ \A v \in Workers \ {w} : Resuming(pc[v], job[v]) => Resuming(pc[v], job[v])'
        /\ Waiting(m) => Waiting(m)'
    BY <1>3, <1>4 DEF Works, Resuming, Waiting
  <2>1. \A v \in Workers \ {w} : Target(v)' = Target(v)
    BY <1>3 DEF Works, Target
  <2>2. step \in Trainers => pc'[w] \in Trainers /\ Target(w)' = Target(w)
    BY <1>3 DEF Works, Target, Trainers, Over
  <2>3. CASE m = Target(w) /\ step \in Trainers
    BY <2>2, <2>3 DEF Resuming
  <2>4. CASE ~(m = Target(w) /\ step \in Trainers)
    <3>1. row[m].status = "training"
      BY <2>4 DEF Works
    <3>2. CASE Waiting(m)
      BY <2>0, <3>2
    <3>3. ASSUME NEW v \in Workers, Resuming(pc[v], job[v]), Target(v) = m
          PROVE  Waiting(m)' \/ \E x \in Workers : Resuming(pc[x], job[x])' /\ Target(x)' = m
      <4>1. CASE v # w
        BY <2>0, <2>1, <3>3, <4>1
      <4>2. CASE v = w
        <5>1. step \in {"run", "row", "throw"} /\ job[w] \in hit'
          BY <2>4, <3>3, <4>2 DEF Works
        <5>2. CASE step = "throw"
          <6>1. form[job[w]].kind = "train"
            BY <3>3, <4>2 DEF Resuming, Trainers, TrainSteps, WorkInv, RunInv
          <6> QED BY <1>1, <1>4, <3>3, <4>2, <5>1, <5>2, <6>1 DEF Waiting, Works
        <5>3. CASE step \in {"run", "row"}
          <6>1. pc'[w] = step /\ job'[w] = job[w] /\ Target(w)' = m
            BY <1>3, <3>3, <4>2, <5>3 DEF Over, Target, Works
          <6> QED BY <5>1, <5>3, <6>1 DEF Resuming
        <5> QED BY <5>1, <5>2, <5>3
      <4> QED BY <4>1, <4>2
    <3> QED BY <3>1, <3>2, <3>3 DEF WorkInv, RowsTrained
  <2> QED BY <2>3, <2>4
<1>6. SnapshotsPending'
  <2> SUFFICES ASSUME NEW m \in Models, snapshot'[m] \in Busy PROVE Pending(m)' \/ Disturbed(m)'
    BY DEF SnapshotsPending
  <2>1. CASE m = Target(w)
    <3>1. CASE step \in Over
      BY <1>4, <2>1, <3>1 DEF Works
    <3>2. CASE step \notin Over
      BY <1>1, <1>3, <2>1, <3>2 DEF Works, Pending
    <3> QED BY <3>1, <3>2
  <2>2. CASE m # Target(w)
    <3>1. snapshot[m] \in Busy
      BY <2>2 DEF Works
    <3>2. CASE Disturbed(m)
      BY <1>4, <3>2
    <3>3. CASE Pending(m)
      <4>1. PICK q \in Requests : form[q].model = m /\ (\/ stage[q] \in {"marked", "stored", "unstored"}
                                                       \/ Queued(q)
                                                       \/ \E v \in Workers : job[v] = q)
        BY <3>3 DEF Pending
      <4>2. q # job[w]
        BY <1>1, <2>2, <4>1
      <4>3. (\E v \in Workers : job[v] = q) => \E v \in Workers : job'[v] = q
        BY <1>3, <4>2
      <4> QED BY <4>1, <4>3 DEF Works, Pending, Queued
    <3> QED BY <3>1, <3>2, <3>3 DEF WorkInv, SnapshotsPending
  <2> QED BY <2>1, <2>2
<1>7. JobPlaced'
  <2>1. queue' = queue /\ stage' = stage /\ failedJobs' \subseteq failedJobs \cup {job[w]}
    BY <1>2 DEF Works
  <2>2. JobPlaced /\ None \notin Requests /\ failedJobs \in SUBSET Requests
    BY <1>1, NullAssumption DEF WorkInv, TypeOK
  <2>3. ~Holds(queue, job[w]) /\ stage[job[w]] \in Pushed
    BY <1>1, <2>2 DEF JobPlaced
  <2>4. \A v \in Workers : job'[v] = None \/ job'[v] = job[v]
    BY <1>3
  <2>5. job[w] \in failedJobs' => job'[w] = None
    BY <1>1, <1>2, <1>3, <2>2 DEF JobPlaced, Over
  <2>6. \A v \in Workers \ {w} : job[v] # job[w]
    BY <1>1, <2>2 DEF JobPlaced
  <2>7. \A v \in Workers : job'[v] \notin failedJobs'
    BY <1>1, <1>3, <2>1, <2>2, <2>4, <2>5, <2>6 DEF JobPlaced
  <2>8. \A v, u \in Workers : job'[v] = job'[u] /\ job'[v] # None => v = u
    BY <2>2, <2>4 DEF JobPlaced
  <2>9. \A q \in Requests : Holds(queue, q) => q \notin failedJobs' /\ \A v \in Workers : job'[v] # q
    BY <2>1, <2>2, <2>3, <2>4 DEF JobPlaced
  <2>10. \A q \in Requests : Holds(queue, q) \/ q \in failedJobs' \/ (\E v \in Workers : job'[v] = q)
                                => stage[q] \in Pushed
    BY <2>1, <2>2, <2>3, <2>4 DEF JobPlaced
  <2> HIDE DEF JobPlaced
  <2>11. Distinct(queue) /\ (Distinct(queue)' <=> Distinct(queue))
    BY <2>1, <2>2 DEF JobPlaced, Distinct
  <2> QED BY <2>1, <2>7, <2>8, <2>9, <2>10, <2>11 DEF JobPlaced, Holds
<1>8. RunInv'
  <2>1. RunInv /\ JobPlaced
    BY DEF WorkInv
  <2>2. ASSUME NEW v \in Workers
        PROVE  /\ pc'[v] \in {"publish", "settle"} => run'[job'[v]] = "completed"
               /\ pc'[v] \in {"failRow", "failMark"} => run'[job'[v]] = "failed"
               /\ pc'[v] \in TrainSteps => form[job'[v]].kind = "train"
               /\ pc'[v] \in EvaluateSteps => form[job'[v]].kind = "evaluate"
    <3>1. CASE v = w
      BY <1>3, <3>1 DEF Works, Over, TrainSteps, EvaluateSteps
    <3>2. CASE v # w
      <4>1. pc[v] # "free" => job[v] \in Requests /\ job[v] # job[w]
        BY <1>1, <2>1, <3>2, BusyJob, NullAssumption DEF WorkInv, JobPlaced
      <4> QED BY <1>3, <2>1, <3>2, <4>1 DEF Works, RunInv, TrainSteps, EvaluateSteps
    <3> QED BY <3>1, <3>2
  <2>3. \A q \in Requests : form[q].kind = "evaluate" => run'[q] = "none"
    BY <2>1 DEF Works, RunInv
  <2>4. ASSUME NEW q \in Requests, run'[q] = "running"
        PROVE  Interrupted(q)' \/ \E v \in Workers : job'[v] = q
    <3>1. CASE q = job[w]
      BY <1>3, <1>4, <2>4, <3>1 DEF Works
    <3>2. CASE q # job[w]
      BY <1>3, <1>4, <2>1, <2>4, <3>2 DEF Works, RunInv
    <3> QED BY <3>1, <3>2
  <2> QED BY <2>2, <2>3, <2>4 DEF RunInv, Works
<1> QED BY <1>5, <1>6, <1>7, <1>8 DEF WorkInv

\* A step that is no handler's: nothing becomes busy, and what was pending still is.
LEMMA OthersKeepWork ==
    ASSUME WorkInv, TypeInv', UNCHANGED <<form, pc, job>>, hit \subseteq hit', JobPlaced',
           \A m \in Models : row'[m].status = "training" => row[m].status = "training",
           \A m \in Models : snapshot'[m] \in Busy => snapshot[m] \in Busy \/ Pending(m)' \/ Disturbed(m)',
           \A m \in Models : Pending(m) \/ Disturbed(m) => Pending(m)' \/ Disturbed(m)',
           \A q \in Requests : Interrupted(q) => Interrupted(q)',
           \A q \in Requests : \/ run'[q] = run[q]
                               \/ stage[q] \notin Pushed /\ form[q].kind = "train" /\ run'[q] = "queued"
    PROVE  WorkInv'
<1>2. RowsTrained'
  <2>1. \A m \in Models : Waiting(m) => Waiting(m)'
    BY DEF Waiting
  <2>2. \A w \in Workers : Resuming(pc[w], job[w]) => Resuming(pc[w], job[w])'
    BY DEF Resuming
  <2> QED BY <2>1, <2>2 DEF WorkInv, RowsTrained, Target
<1>3. SnapshotsPending'
  BY DEF WorkInv, SnapshotsPending
<1>4. RunInv'
  <2>1. RunInv /\ JobPlaced /\ TypeInv
    BY DEF WorkInv
  <2>2. \A w \in Workers : pc[w] # "free" => job[w] \in Requests /\ run'[job[w]] = run[job[w]]
    BY <2>1, BusyJob DEF JobPlaced
  <2>3. ASSUME NEW w \in Workers
        PROVE  /\ pc[w] \in {"publish", "settle"} => run'[job[w]] = "completed"
               /\ pc[w] \in {"failRow", "failMark"} => run'[job[w]] = "failed"
    BY <2>1, <2>2 DEF RunInv
  <2>4. ASSUME NEW q \in Requests
        PROVE  /\ form[q].kind = "evaluate" => run'[q] = "none"
               /\ run'[q] = "running" => Interrupted(q)' \/ \E w \in Workers : job[w] = q
    BY <2>1 DEF RunInv
  <2> QED BY <2>1, <2>3, <2>4 DEF RunInv
<1> QED BY <1>2, <1>3, <1>4 DEF WorkInv

LEMMA SkipWorks ==
    ASSUME WorkInv, TypeInv', NEW w \in Workers, NEW at \in HandlerSteps, NEW next \in HandlerSteps,
           Skip(w, at, next),
           next \notin {"publish", "settle", "failRow", "failMark"},
           at \notin {"run", "row"}, at \in Trainers => next \in Trainers,
           at \in TrainSteps <=> next \in TrainSteps,
           at \in EvaluateSteps <=> next \in EvaluateSteps
    PROVE  WorkInv'
<1>1. pc[w] = at /\ at # "free" /\ next \in Outcomes /\ next \notin Over
  BY DEF Skip, HandlerSteps, TrainSteps, EvaluateSteps, Outcomes, Over
<1>2. UNCHANGED <<form, stage, queue, hit, muted, row, run, snapshot>>
  BY DEF Skip, apiVars, dataVars, faultVars
<1>3. Works(w, next)
  BY <1>1, <1>2 DEF Works, Resuming, WorkInv, RunInv
<1> QED BY <1>1, <1>3, WorkKeeps DEF Skip

\* A report may lead from step `at` to `next`, and to `onError` when it fails: it stays
\* within the handler, and the last one is not busy.
ReportPath(at, state, next, onError) ==
    /\ at \in HandlerSteps /\ next \in Outcomes /\ onError \in Outcomes
    /\ {next, onError} \cap {"publish", "settle", "failRow", "failMark"} = {}
    /\ at \notin {"run", "row"}
    /\ at \in Trainers => next \in Trainers /\ onError \in Trainers \cup {"throw"}
    /\ next \notin Over => (at \in TrainSteps <=> next \in TrainSteps)
    /\ next \notin Over => (at \in EvaluateSteps <=> next \in EvaluateSteps)
    /\ onError \notin Over => (at \in TrainSteps <=> onError \in TrainSteps)
    /\ onError \notin Over => (at \in EvaluateSteps <=> onError \in EvaluateSteps)
    /\ onError \in Over => onError = "throw"
    /\ next \in Over => state \notin Busy /\ at \in {"settle", "failMark"} \cup EvaluateSteps

LEMMA ReportWorks ==
    ASSUME WorkInv, TypeInv', NEW w \in Workers, NEW at, NEW state, NEW next, NEW onError,
           ReportPath(at, state, next, onError), Report(w, at, state, next, onError)
    PROVE  WorkInv'
<1> USE DEF ReportPath
<1>1. pc[w] = at /\ at # "free" /\ Over \cap HandlerSteps = {}
  BY DEF Report, HandlerSteps, TrainSteps, EvaluateSteps, Over
<1>2. PICK returned \in BOOLEAN :
          /\ Store(job[w], Target(w), state, returned)
          /\ Advance(w, IF returned THEN next ELSE onError, seen[w])
  BY DEF Report
<1>3. UNCHANGED <<form, stage, queue, row, run>>
  BY DEF Report, apiVars, dataVars
<1>4. job[w] \in Requests /\ Target(w) \in Models /\ TypeOK /\ RunInv
  BY <1>1, BusyJob DEF WorkInv, TypeInv
<1>5. /\ hit \subseteq hit' /\ muted \subseteq muted'
      /\ \A m \in Models : m # Target(w) => snapshot'[m] = snapshot[m]
      /\ ~returned => job[w] \in hit'
      /\ returned => snapshot'[Target(w)] = state \/ job[w] \in hit' \cap muted'
  BY <1>2, <1>4 DEF Store, Fault, faultVars, TypeOK
<1> DEFINE step == IF returned THEN next ELSE onError
<1>6. /\ step \in Outcomes /\ step \notin {"publish", "settle", "failRow", "failMark"}
      /\ step \notin Over => (at \in TrainSteps <=> step \in TrainSteps)
      /\ step \notin Over => (at \in EvaluateSteps <=> step \in EvaluateSteps)
      /\ step \in Over => step \notin TrainSteps /\ step \notin EvaluateSteps
      /\ Advance(w, step, seen[w])
  BY <1>2 DEF Over, TrainSteps, EvaluateSteps
<1>7. at \in Trainers => step \in Trainers \/ (step = "throw" /\ job[w] \in hit')
  BY <1>5
<1>8. step \in Over => \/ step = "throw" /\ job[w] \in hit'
                       \/ /\ run[job[w]] # "running"
                          /\ snapshot'[Target(w)] \notin Busy \/ job[w] \in hit' \cap muted'
  <2>1. next \in Over => run[job[w]] # "running"
    BY <1>1, <1>4 DEF RunInv
  <2> QED BY <1>5, <2>1
<1> HIDE DEF step
<1>9. Works(w, step)
  BY <1>1, <1>3, <1>4, <1>5, <1>6, <1>7, <1>8 DEF Works, Resuming, RunInv
<1> QED BY <1>1, <1>6, <1>9, WorkKeeps

LEMMA SaveRunWorks ==
    ASSUME WorkInv, TypeInv', NEW w \in Workers, NEW at \in TrainSteps, NEW next \in TrainSteps,
           NEW status, SaveRunAs(w, at, status, next),
           at \in Trainers => next \in Trainers, at \in {"run", "row"} => next = "row",
           next \in {"publish", "settle"} => status = "completed",
           next \in {"failRow", "failMark"} => status = "failed"
    PROVE  WorkInv'
<1>1. /\ pc[w] = at /\ at # "free" /\ next \in Outcomes /\ next \notin Over
      /\ next \notin EvaluateSteps
  BY DEF SaveRunAs, HandlerSteps, TrainSteps, EvaluateSteps, Outcomes, Over
<1>2. /\ UNCHANGED <<form, stage, queue, hit, muted, row, snapshot>>
      /\ run' = [run EXCEPT ![job[w]] = status]
  BY DEF SaveRunAs, apiVars, faultVars
<1>3. job[w] \in Requests /\ run \in [Requests -> TrainingStatus]
  BY <1>1, BusyJob DEF WorkInv, TypeInv, TypeOK
<1>4. form[job[w]].kind = "train"
  BY <1>1 DEF WorkInv, RunInv
<1>5. Works(w, next)
  BY <1>1, <1>2, <1>3, <1>4 DEF Works, Resuming
<1> QED BY <1>1, <1>5, WorkKeeps DEF SaveRunAs

LEMMA SaveModelWorks ==
    ASSUME WorkInv, TypeInv', NEW w \in Workers, NEW at \in HandlerSteps, NEW next \in HandlerSteps,
           NEW saved, NEW memory, SaveModel(w, at, saved, memory, next),
           saved.status = "training" => row[Target(w)].status = "training" \/ next \in Trainers,
           at \in Trainers \cup {"run", "row"} => next \in Trainers \/ saved.status # "training",
           at \in TrainSteps <=> next \in TrainSteps,
           at \in EvaluateSteps <=> next \in EvaluateSteps,
           next \notin {"publish", "failRow"}, next = "settle" => at = "publish",
           next = "failMark" => at = "failRow"
    PROVE  WorkInv'
<1>1. pc[w] = at /\ at # "free" /\ next \in Outcomes /\ next \notin Over
  BY DEF SaveModel, HandlerSteps, TrainSteps, EvaluateSteps, Outcomes, Over
<1>2. /\ UNCHANGED <<form, stage, queue, hit, muted, run, snapshot>>
      /\ row' = [row EXCEPT ![Target(w)] = saved]
  BY DEF SaveModel, apiVars, faultVars
<1>3. Target(w) \in Models /\ row \in [Models -> Row]
  BY <1>1, BusyJob DEF WorkInv, TypeInv, TypeOK
<1>4. row'[Target(w)] = saved /\ \A m \in Models \ {Target(w)} : row'[m] = row[m]
  BY <1>2, <1>3
<1>5. Works(w, next)
  BY <1>1, <1>2, <1>3, <1>4 DEF Works, Resuming, WorkInv, RunInv
<1> QED BY <1>1, <1>5, WorkKeeps DEF SaveModel

LEMMA ReserveWorks == ASSUME WorkInv, TypeInv', NEW w \in Workers, Reserve(w) PROVE WorkInv'
<1> DEFINE q == Head(queue)
<1>1. /\ TypeOK /\ JobPlaced /\ RunInv /\ queue # <<>> /\ queue' = Tail(queue)
      /\ pc[w] = "free" /\ job[w] = None /\ None \notin Requests
  BY NullAssumption DEF Reserve, WorkInv, TypeInv, BusyWithJob
<1>2. /\ q \in Requests /\ Distinct(Tail(queue))
      /\ Holds(queue, q) /\ ~Holds(Tail(queue), q)
      /\ \A x : Holds(Tail(queue), x) => Holds(queue, x)
      /\ \A x : Holds(queue, x) => Holds(Tail(queue), x) \/ x = q
  BY <1>1, TailHolds DEF TypeOK, JobPlaced
<1> HIDE DEF q
<1>3. /\ \A v \in Workers \ {w} : pc'[v] = pc[v] /\ job'[v] = job[v]
      /\ pc'[w] = (IF form[q].kind = "train" THEN "run" ELSE "evBegin") /\ job'[w] = q
      /\ UNCHANGED <<form, stage, row, run, snapshot, failedJobs, hit, muted>>
  BY <1>1 DEF Reserve, TypeOK, apiVars, dataVars, faultVars, q
<1>3a. \A p \in Requests : Interrupted(p) => Interrupted(p)' \/ (p = q /\ q \in hit)
  BY <1>1, <1>2, <1>3 DEF Interrupted, Queued, Holds
<1>4. RowsTrained'
  <2>1. \A v \in Workers : Resuming(pc[v], job[v]) =>
           v # w /\ Resuming(pc[v], job[v])' /\ Target(v)' = Target(v)
    BY <1>1, <1>3 DEF Resuming, Trainers, Target
  <2>2. form[q].kind = "train" /\ q \in hit =>
           Resuming(pc[w], job[w])' /\ Target(w)' = form[q].model
    BY <1>3 DEF Resuming, Target
  <2>3. ASSUME NEW m \in Models, Waiting(m)
        PROVE  Waiting(m)' \/ \E v \in Workers : Resuming(pc[v], job[v])' /\ Target(v)' = m
    BY <1>3, <1>3a, <2>2, <2>3 DEF Waiting
  <2> QED BY <1>3, <2>1, <2>3 DEF WorkInv, RowsTrained
<1>5. SnapshotsPending'
  <2>1. ASSUME NEW m \in Models, Pending(m) PROVE Pending(m)'
    <3>1. PICK p \in Requests : form[p].model = m /\ (\/ stage[p] \in {"marked", "stored", "unstored"}
                                                     \/ Holds(queue, p)
                                                     \/ \E v \in Workers : job[v] = p)
      BY <2>1 DEF Pending, Queued, Holds
    <3>2. Holds(queue, p) => Holds(queue, p)' \/ job'[w] = p
      BY <1>1, <1>2, <1>3 DEF Holds
    <3>3. (\E v \in Workers : job[v] = p) => \E v \in Workers : job'[v] = p
      BY <1>1, <1>3
    <3> QED BY <1>3, <3>1, <3>2, <3>3 DEF Pending, Queued, Holds
  <2> QED BY <1>3, <2>1 DEF WorkInv, SnapshotsPending, Disturbed, CutShort
<1>6. JobPlaced'
  <2>1. \A v \in Workers \ {w} : job'[v] # q
    BY <1>1, <1>2, <1>3 DEF JobPlaced
  <2>2. q \notin failedJobs /\ stage[q] \in Pushed
    BY <1>1, <1>2 DEF JobPlaced
  <2>3. \A p \in Requests : Holds(Tail(queue), p) => p \notin failedJobs /\ \A v \in Workers : job'[v] # p
    BY <1>1, <1>2, <1>3 DEF JobPlaced
  <2>4. \A v \in Workers : job'[v] \notin failedJobs
    BY <1>1, <1>3, <2>2 DEF JobPlaced
  <2>5. \A v, u \in Workers : job'[v] = job'[u] /\ job'[v] # None => v = u
    BY <1>1, <1>3, <2>1 DEF JobPlaced
  <2>6. \A p \in Requests : Holds(Tail(queue), p) \/ p \in failedJobs \/ (\E v \in Workers : job'[v] = p)
                               => stage[p] \in Pushed
    BY <1>1, <1>2, <1>3, <2>2 DEF JobPlaced
  <2> QED BY <1>1, <1>2, <1>3, <2>3, <2>4, <2>5, <2>6 DEF JobPlaced, Holds, Distinct
<1>7. RunInv'
  <2>1. form[q].kind \in {"train", "evaluate"}
    BY <1>1, <1>2 DEF TypeOK, Forms, Kinds
  <2>2. ASSUME NEW v \in Workers
        PROVE  /\ pc'[v] \in {"publish", "settle"} => run[job'[v]] = "completed"
               /\ pc'[v] \in {"failRow", "failMark"} => run[job'[v]] = "failed"
               /\ pc'[v] \in TrainSteps => form[job'[v]].kind = "train"
               /\ pc'[v] \in EvaluateSteps => form[job'[v]].kind = "evaluate"
    <3>1. CASE v = w
      BY <1>3, <2>1, <3>1 DEF TrainSteps, EvaluateSteps
    <3>2. CASE v # w
      BY <1>1, <1>3, <3>2 DEF RunInv
    <3> QED BY <3>1, <3>2
  <2>3. \A p \in Requests : run[p] = "running" => Interrupted(p)' \/ \E v \in Workers : job'[v] = p
    BY <1>1, <1>3, <1>3a DEF RunInv
  <2> QED BY <1>1, <1>3, <2>2, <2>3 DEF RunInv
<1> QED BY <1>4, <1>5, <1>6, <1>7 DEF WorkInv

LEMMA JobsWork ==
    ASSUME WorkInv, TypeInv', NEW w \in Workers, WorkerStep(w) \/ Kill(w)
    PROVE  WorkInv'
<1> USE DEF HandlerSteps, TrainSteps, EvaluateSteps, Outcomes, Trainers, Over, Busy
<1>1. /\ TypeInv /\ seen[w] \in Row /\ row \in [Models -> Row]
      /\ pc[w] # "free" => Target(w) \in Models /\ job[w] \in Requests
  BY BusyJob DEF WorkInv, TypeInv, TypeOK
<1>2. CASE TrainRun(w)
  BY <1>2, SaveRunWorks DEF TrainRun
<1>3. CASE TrainRow(w)
  <2>1. pc[w] = "row"
    BY <1>3 DEF TrainRow, SaveModel
  <2> DEFINE saved == IF seen[w].status = "training" THEN row[Target(w)]
                      ELSE [row[Target(w)] EXCEPT !.status = "training"]
             memory == [seen[w] EXCEPT !.status = "training"]
  <2>2. SaveModel(w, "row", saved, memory, "begin")
    BY <1>3 DEF TrainRow
  <2> HIDE DEF saved, memory
  <2> QED BY <2>2, SaveModelWorks
<1>4. CASE TrainBegin(w)
  <2>1. ReportPath("begin", "training", "fit", "throw")
    BY DEF ReportPath
  <2> QED BY <1>4, <2>1, ReportWorks DEF TrainBegin
<1>5. CASE TrainFit(w)
  <2>1. ReportPath("fit", "training", "fitted", "failRun")
    BY DEF ReportPath
  <2> QED BY <1>5, <2>1, ReportWorks, SkipWorks DEF TrainFit
<1>6. CASE TrainPut(w)
  <2>1. /\ pc[w] = "fitted" /\ hit \subseteq hit' /\ muted \subseteq muted'
        /\ UNCHANGED <<form, stage, queue, row, run, snapshot>>
    BY <1>6 DEF TrainPut, Fault, faultVars, apiVars
  <2>2. Works(w, "stored")
    BY <2>1 DEF Works, Resuming, WorkInv, RunInv
  <2> QED BY <1>6, <2>1, <2>2, WorkKeeps DEF TrainPut
<1>7. CASE TrainReport(w)
  <2>1. ReportPath("stored", "training", "complete", "failRun")
    BY DEF ReportPath
  <2> QED BY <1>7, <2>1, ReportWorks DEF TrainReport
<1>8. CASE TrainComplete(w)
  BY <1>8, SaveRunWorks DEF TrainComplete
<1>9. CASE TrainPublish(w)
  <2> DEFINE saved == Published([seen[w].metadata EXCEPT !.artifact = job[w]])
  <2>1. SaveModel(w, "publish", saved, saved, "settle")
    BY <1>9 DEF TrainPublish
  <2>2. saved.status = "active"
    BY DEF Published
  <2> HIDE DEF saved
  <2> QED BY <2>1, <2>2, SaveModelWorks
<1>10. CASE TrainSettle(w)
  <2>1. ReportPath("settle", "idle", "done", "failRun")
    BY DEF ReportPath
  <2> QED BY <1>10, <2>1, ReportWorks DEF TrainSettle
<1>11. CASE TrainFailRun(w)
  BY <1>11, SaveRunWorks DEF TrainFailRun
<1>12. CASE TrainFailRow(w)
  <2>1. pc[w] = "failRow"
    BY <1>12 DEF TrainFailRow, SaveModel
  <2> DEFINE saved == [row[Target(w)] EXCEPT !.status = "failed"]
             memory == [seen[w] EXCEPT !.status = "failed"]
  <2>2. SaveModel(w, "failRow", saved, memory, "failMark")
    BY <1>12 DEF TrainFailRow
  <2>3. saved.status = "failed"
    BY <1>1, <2>1 DEF Row
  <2> HIDE DEF saved, memory
  <2> QED BY <2>2, <2>3, SaveModelWorks
<1>13. CASE TrainFailMark(w)
  <2>1. ReportPath("failMark", "failed", "throw", "throw")
    BY DEF ReportPath
  <2> QED BY <1>13, <2>1, ReportWorks DEF TrainFailMark
<1>14. CASE EvaluateBegin(w)
  <2>1. ReportPath("evBegin", "evaluating", "evCompute", "throw")
    BY DEF ReportPath
  <2> QED BY <1>14, <2>1, ReportWorks DEF EvaluateBegin
<1>15. CASE EvaluateCompute(w)
  BY <1>15, SkipWorks DEF EvaluateCompute
<1>16. CASE EvaluateProgress(w)
  <2>1. ReportPath("evProgress", "evaluating", "evSave", "evFail")
    BY DEF ReportPath
  <2> QED BY <1>16, <2>1, ReportWorks DEF EvaluateProgress
<1>17. CASE EvaluateSave(w)
  <2>1. pc[w] = "evSave"
    BY <1>17 DEF EvaluateSave, SaveModel
  <2> DEFINE metadata == [seen[w].metadata EXCEPT !.evals = @ \cup {job[w]}]
             saved == [row[Target(w)] EXCEPT !.metadata = metadata]
             memory == [seen[w] EXCEPT !.metadata = metadata]
  <2>2. SaveModel(w, "evSave", saved, memory, "evSettle")
    BY <1>17 DEF EvaluateSave
  <2>3. saved.status = row[Target(w)].status
    BY <1>1, <2>1 DEF Row
  <2> HIDE DEF saved, memory, metadata
  <2> QED BY <2>2, <2>3, SaveModelWorks
<1>18. CASE EvaluateSettle(w)
  <2>1. ReportPath("evSettle", "idle", "done", "evFail")
    BY DEF ReportPath
  <2> QED BY <1>18, <2>1, ReportWorks DEF EvaluateSettle
<1>19. CASE EvaluateFail(w)
  <2>1. ReportPath("evFail", "failed", "throw", "throw")
    BY DEF ReportPath
  <2> QED BY <1>19, <2>1, ReportWorks DEF EvaluateFail
<1>20. CASE Kill(w)
  <2>1. /\ pc[w] # "free" /\ hit' = hit \cup {job[w]}
        /\ UNCHANGED <<form, stage, queue, row, run, snapshot, muted>>
    BY <1>20 DEF Kill, apiVars, dataVars
  <2>2. Works(w, "throw")
    BY <2>1 DEF Works, Resuming, WorkInv, RunInv
  <2> QED BY <1>20, <2>1, <2>2, WorkKeeps DEF Kill
<1> QED
  BY <1>2, <1>3, <1>4, <1>5, <1>6, <1>7, <1>8, <1>9, <1>10, <1>11, <1>12, <1>13, <1>14,
     <1>15, <1>16, <1>17, <1>18, <1>19, <1>20, ReserveWorks
  DEF WorkerStep, TrainStep, EvaluateStep

\* A request's own steps, and the retry of its job.
LEMMA RequestsWork ==
    ASSUME WorkInv, TypeInv', NEW q \in Requests, RequestStep(q) \/ Retry(q)
    PROVE  WorkInv'
<1>1. /\ TypeOK /\ JobPlaced /\ RunInv
      /\ form[q].kind \in Kinds /\ form[q].model \in Models
      /\ \A p \in Requests : Holds(queue, p) => stage[p] \in Pushed
  BY DEF WorkInv, TypeInv, TypeOK, Forms, JobPlaced
<1>2. /\ UNCHANGED <<form, pc, job, row>> /\ hit \subseteq hit' /\ muted \subseteq muted'
      /\ failedJobs' \subseteq failedJobs
  BY DEF RequestStep, Check, SaveRun, MarkQueued, StoreResponse, Dispatch, Retry, Store, Fault,
         apiVars, dataVars, workerVars, faultVars
\* The queue is left alone, and q is none of those pushed.
<1>3. ASSUME queue' = queue, failedJobs' = failedJobs,
             \A p \in Requests \ {q} : stage'[p] = stage[p],
             stage[q] \notin {"status500", "push500"} \cup Pushed,
             stage[q] \in Marked => stage'[q] \in Marked \/ Disturbed(form[q].model)'
      PROVE  /\ JobPlaced'
             /\ \A p \in Requests : Interrupted(p) => Interrupted(p)'
             /\ \A m \in Models : Pending(m) \/ Disturbed(m) => Pending(m)' \/ Disturbed(m)'
  <2>1. \A p \in Requests : stage[p] \in Pushed => stage'[p] \in Pushed
    BY <1>3
  <2>2. JobPlaced'
    BY <1>1, <1>2, <1>3, <2>1 DEF JobPlaced, Holds, Distinct
  <2>3. \A p \in Requests : Interrupted(p) => Interrupted(p)'
    BY <1>2, <1>3 DEF Interrupted, Queued
  <2>4. \A m \in Models : Disturbed(m) => Disturbed(m)'
    BY <1>2, <1>3 DEF Disturbed, CutShort
  <2>5. \A m \in Models : Pending(m) => Pending(m)' \/ Disturbed(m)'
    BY <1>2, <1>3 DEF Pending, Queued, Marked
  <2>6. ASSUME NEW m \in Models, Pending(m) \/ Disturbed(m)
        PROVE  Pending(m)' \/ Disturbed(m)'
    BY <2>4, <2>5, <2>6
  <2> HIDE DEF JobPlaced
  <2> QED BY <2>2, <2>3, <2>6
<1>4. CASE Check(q)
  <2>1. /\ UNCHANGED <<run, snapshot, queue, failedJobs>> /\ stage[q] = "new"
        /\ \A p \in Requests \ {q} : stage'[p] = stage[p]
    BY <1>1, <1>4 DEF Check, dataVars, workerVars, TypeOK
  <2> QED BY <1>2, <1>3, <2>1, OthersKeepWork DEF Marked, Pushed
<1>5. CASE SaveRun(q)
  <2>1. /\ UNCHANGED <<snapshot, queue, failedJobs>> /\ stage[q] = "checked" /\ form[q].kind = "train"
        /\ \A p \in Requests \ {q} : stage'[p] = stage[p] /\ run'[p] = run[p]
        /\ run'[q] = "queued"
    BY <1>1, <1>5 DEF SaveRun, workerVars, TypeOK
  <2> QED BY <1>2, <1>3, <2>1, OthersKeepWork DEF Marked, Pushed
<1>6. CASE MarkQueued(q)
  <2>1. PICK returned \in BOOLEAN :
           /\ Store(q, form[q].model, StateOf(form[q].kind), returned)
           /\ stage' = [stage EXCEPT ![q] = IF returned THEN "marked" ELSE "status500"]
    BY <1>6 DEF MarkQueued
  <2>2. /\ UNCHANGED <<run, queue, failedJobs>> /\ stage[q] \in {"saved", "checked"}
        /\ \A p \in Requests \ {q} : stage'[p] = stage[p]
        /\ \A m \in Models \ {form[q].model} : snapshot'[m] = snapshot[m]
    BY <1>1, <1>6, <2>1 DEF MarkQueued, Store, dataVars, workerVars, TypeOK
  <2>3. (q \in hit' /\ stage'[q] = "status500") \/ stage'[q] = "marked"
    BY <1>1, <2>1 DEF Store, Fault, TypeOK
  <2>4. Pending(form[q].model)' \/ Disturbed(form[q].model)'
    BY <1>2, <2>3 DEF Pending, Disturbed, CutShort
  <2> QED BY <1>2, <1>3, <2>2, <2>4, OthersKeepWork DEF Marked, Pushed
<1>7. CASE StoreResponse(q)
  <2>1. /\ UNCHANGED <<run, snapshot, queue, failedJobs>> /\ stage[q] = "marked"
        /\ stage'[q] \in {"stored", "unstored"}
        /\ \A p \in Requests \ {q} : stage'[p] = stage[p]
    BY <1>1, <1>7 DEF StoreResponse, dataVars, workerVars, TypeOK
  <2> QED BY <1>2, <1>3, <2>1, OthersKeepWork DEF Marked, Pushed
<1>8. CASE Dispatch(q)
  <2>1. /\ UNCHANGED <<run, snapshot, failedJobs>> /\ stage[q] \in {"stored", "unstored"}
        /\ \A p \in Requests \ {q} : stage'[p] = stage[p]
    BY <1>1, <1>8 DEF Dispatch, dataVars, workerVars, TypeOK
  <2>2. CASE Fault(q) /\ queue' = queue /\ stage' = [stage EXCEPT ![q] = "push500"]
    <3>1. q \in hit' /\ stage'[q] = "push500"
      BY <1>1, <2>2 DEF Fault, TypeOK
    <3>2. Disturbed(form[q].model)'
      BY <1>2, <3>1 DEF Disturbed, CutShort
    <3> QED BY <1>2, <1>3, <2>1, <2>2, <3>2, OthersKeepWork DEF Pushed
  <2>3. CASE queue' = Append(queue, q) /\ stage'[q] \in Pushed
    <3>1. /\ ~Holds(queue, q) /\ q \notin failedJobs /\ \A w \in Workers : job[w] # q
      BY <1>1, <2>1 DEF JobPlaced, Pushed
    <3>2. /\ Distinct(Append(queue, q))
          /\ \A x : Holds(Append(queue, q), x) <=> Holds(queue, x) \/ x = q
      BY <1>1, <3>1, AppendHolds DEF JobPlaced, TypeOK
    <3>3. Distinct(queue)' /\ \A x : Holds(queue, x)' <=> Holds(queue, x) \/ x = q
      BY <2>3, <3>2 DEF Holds, Distinct
    <3>4. JobPlaced'
      BY <1>1, <1>2, <2>1, <2>3, <3>1, <3>3 DEF JobPlaced
    <3>5. \A m \in Models : Pending(m) => Pending(m)'
      <4> SUFFICES ASSUME NEW m \in Models, Pending(m) PROVE Pending(m)'
        OBVIOUS
      <4>1. PICK p \in Requests : form[p].model = m /\ (\/ stage[p] \in Marked
                                                       \/ Holds(queue, p)
                                                       \/ \E w \in Workers : job[w] = p)
        BY DEF Pending, Queued, Holds, Marked
      <4>2. stage'[p] \in Marked \/ Holds(queue, p)' \/ \E w \in Workers : job[w] = p
        BY <2>1, <3>3, <4>1
      <4> QED BY <1>2, <4>1, <4>2 DEF Pending, Queued, Holds, Marked
    <3>6. \A p \in Requests : Interrupted(p) => Interrupted(p)'
      BY <1>2, <2>1, <3>3 DEF Interrupted, Queued, Holds
    <3>7. \A m \in Models : Disturbed(m) => Disturbed(m)'
      BY <1>2, <2>1 DEF Disturbed, CutShort
    <3> QED BY <1>2, <2>1, <3>4, <3>5, <3>6, <3>7, OthersKeepWork
  <2>4. \/ Fault(q) /\ queue' = queue /\ stage' = [stage EXCEPT ![q] = "push500"]
        \/ queue' = Append(queue, q) /\ stage'[q] \in Pushed
    BY <1>1, <1>8 DEF Dispatch, TypeOK, Pushed
  <2> QED BY <2>2, <2>3, <2>4
<1>9. CASE Retry(q)
  <2>1. /\ UNCHANGED <<stage, run, snapshot>> /\ q \in failedJobs /\ queue' = Append(queue, q)
        /\ failedJobs' = failedJobs \ {q}
    BY <1>9 DEF Retry, apiVars, dataVars
  <2>2. ~Holds(queue, q) /\ stage[q] \in Pushed /\ \A w \in Workers : job[w] # q
    BY <1>1, <2>1 DEF JobPlaced
  <2>3. /\ Distinct(Append(queue, q))
        /\ \A x : Holds(Append(queue, q), x) <=> Holds(queue, x) \/ x = q
    BY <1>1, <2>2, AppendHolds DEF JobPlaced, TypeOK
  <2>4. Distinct(queue)' /\ \A x : Holds(queue, x)' <=> Holds(queue, x) \/ x = q
    BY <2>1, <2>3 DEF Holds, Distinct
  <2>5. JobPlaced'
    BY <1>1, <1>2, <2>1, <2>2, <2>4 DEF JobPlaced
  <2>6. \A m \in Models : Pending(m) => Pending(m)'
    BY <1>2, <2>1, <2>4 DEF Pending, Queued, Holds
  <2>7. \A p \in Requests : Interrupted(p) => Interrupted(p)'
    BY <1>2, <2>1, <2>4 DEF Interrupted, Queued, Holds
  <2>8. Pending(form[q].model)'
    BY <1>2, <2>4 DEF Pending, Queued, Holds
  <2>9. \A m \in Models : Disturbed(m) => Disturbed(m)' \/ Pending(m)'
    BY <1>2, <2>1, <2>8 DEF Disturbed, CutShort
  <2> QED BY <1>2, <2>1, <2>5, <2>6, <2>7, <2>9, OthersKeepWork
<1> QED BY <1>4, <1>5, <1>6, <1>7, <1>8, <1>9 DEF RequestStep

LEMMA NextWork == WorkInv /\ [Next]_vars => WorkInv'
<1> SUFFICES ASSUME WorkInv, [Next]_vars PROVE WorkInv'
  OBVIOUS
<1>1. TypeInv' /\ TypeOK
  BY NextType DEF WorkInv, TypeInv
\* Steps that only rewrite rows, or only clear a cache entry.
<1>2. ASSUME UNCHANGED <<form, stage, run, queue, pc, job, failedJobs, hit, muted>>,
             \A m \in Models : row'[m].status = "training" => row[m].status = "training",
             \A m \in Models : snapshot'[m] \in Busy => snapshot[m] \in Busy
      PROVE  WorkInv'
  <2>1. /\ JobPlaced'
        /\ \A m \in Models : Pending(m) \/ Disturbed(m) => Pending(m)' \/ Disturbed(m)'
        /\ \A q \in Requests : Interrupted(q) => Interrupted(q)'
    BY <1>2 DEF WorkInv, JobPlaced, Holds, Distinct, Pending, Queued, Disturbed, CutShort, Interrupted
  <2> QED BY <1>1, <1>2, <2>1, OthersKeepWork
<1>3. ASSUME NEW a \in Admins, AdminStep(a) PROVE WorkInv'
  <2>1. UNCHANGED <<form, stage, run, queue, pc, job, failedJobs, hit, muted, snapshot>>
    BY <1>3 DEF AdminStep, Find, Activate, Deactivate, Registered, apiVars, dataVars, workerVars, faultVars
  <2>2. \A m \in Models : row'[m].status = "training" => row[m].status = "training"
    <3>1. \A models : \A m \in Models :
             /\ WithStatus(models, "inactive")[m].status = "training" => row[m].status = "training"
             /\ WithStatus(models, "active")[m].status = "training" => row[m].status = "training"
             /\ [WithStatus(models, "inactive")[m] EXCEPT !.status = "active"].status = "active"
      BY <1>1 DEF WithStatus, Row, TypeOK
    <3>2. CASE Activate(a)
      BY <3>1, <3>2 DEF Activate, Registered
    <3>3. CASE Deactivate(a)
      BY <3>1, <3>3 DEF Deactivate, Registered
    <3>4. CASE row' = row
      BY <3>4
    <3> QED BY <1>3, <3>2, <3>3, <3>4 DEF AdminStep, Find, dataVars
  <2> QED BY <1>2, <2>1, <2>2
<1>4. ASSUME NEW m \in Models, SnapshotExpires(m) PROVE WorkInv'
  <2>1. UNCHANGED <<form, stage, run, queue, pc, job, failedJobs, hit, muted, row>>
    BY <1>4 DEF SnapshotExpires, apiVars, dataVars, workerVars, faultVars
  <2>2. \A o \in Models : snapshot'[o] \in Busy => snapshot[o] \in Busy
    BY <1>1, <1>4 DEF SnapshotExpires, TypeOK, Busy
  <2> QED BY <1>2, <2>1, <2>2
<1>5. ASSUME NEW f \in Forms, ResponseExpires(f) PROVE WorkInv'
  BY <1>2, <1>5 DEF ResponseExpires, dataVars, workerVars, faultVars
<1>6. CASE UNCHANGED vars
  BY <1>2, <1>6 DEF vars, apiVars, dataVars, workerVars, faultVars
<1> QED BY <1>1, <1>3, <1>4, <1>5, <1>6, JobsWork, RequestsWork DEF Next

LEMMA InitWork == Init => WorkInv
<1> SUFFICES ASSUME Init PROVE WorkInv
  OBVIOUS
<1>1. RowsTrained /\ SnapshotsPending
  BY DEF Init, RowsTrained, SnapshotsPending, BlankRow, Busy
<1>2. Distinct(queue) /\ \A q : ~Holds(queue, q)
  BY DEF Init, Distinct, Holds
<1>3. JobPlaced
  BY <1>2, NullAssumption DEF Init, JobPlaced
<1>4. RunInv
  BY DEF Init, RunInv, TrainSteps, EvaluateSteps
<1> QED BY <1>1, <1>3, <1>4, InitType DEF WorkInv

LEMMA WorkInvariant == Spec => []WorkInv
BY InitWork, NextWork, PTL DEF Spec

\* What the status endpoint reports of a model as training or evaluating is still going
\* to be written by a request or a job of that model, for every number of requests,
\* workers and models; or a request of the model was answered with a 500 before the
\* push of its job, or a job of it that met a failed report or a kill is in failed_jobs,
\* or Redis lost a report of it without an exception.
THEOREM ReportedWorkAlwaysPending == Spec => []ReportedWorkIsPending
<1>1. WorkInv => ReportedWorkIsPending
  <2> SUFFICES ASSUME WorkInv, NEW m \in Models, GetStatus(m) \in Busy, ~Disturbed(m)
               PROVE  Pending(m)
    BY DEF ReportedWorkIsPending, Busy
  <2>1. CASE snapshot[m] # "none"
    BY <2>1 DEF GetStatus, WorkInv, SnapshotsPending
  <2>2. CASE snapshot[m] = "none"
    <3>1. row[m].status = "training"
      BY <2>2 DEF GetStatus, Busy, WorkInv, TypeInv, TypeOK, Row, ModelStatus
    <3>2. ASSUME NEW w \in Workers, Resuming(pc[w], job[w]), Target(w) = m
          PROVE  Pending(m)
      <4>1. job[w] \in Requests /\ form[job[w]].model = m
        BY <3>2, BusyJob DEF WorkInv, Resuming, Trainers, Target
      <4> QED BY <4>1 DEF Pending
    <3>3. Waiting(m) => Pending(m)
      BY DEF Waiting, Interrupted, Pending, Disturbed, CutShort
    <3> QED BY <3>1, <3>2, <3>3 DEF WorkInv, RowsTrained
  <2> QED BY <2>1, <2>2
<1> QED BY <1>1, WorkInvariant, PTL

\* A run that is "running" and a model that is "training" belong to a worker that is
\* training it, or to a training that was cut short and waits in failed_jobs or in the
\* queue: whatever the number of jobs of one model under way, the last to end leaves
\* neither behind, and neither does the retry of one that was killed.
THEOREM TrainingAlwaysHasTrainer == Spec => []TrainingHasTrainer
<1>1. WorkInv => TrainingHasTrainer
  BY DEF WorkInv, RunInv, RowsTrained, Waiting, Resuming, TrainingHasTrainer, Trainers, TrainSteps
<1> QED BY <1>1, WorkInvariant, PTL

-----------------------------------------------------------------------------
(* Published artifacts, when no write fails and no job is retried *)

\* Before these steps, or at them, a training has not saved its run as completed.
Early == {"run", "row", "begin", "fit", "fitted", "stored", "complete", "failRun"}

\* A run that may still be written.
Open(q) ==
    \/ stage[q] \notin Pushed
    \/ Holds(queue, q)
    \/ \E w \in Workers : job[w] = q /\ pc[w] \in Early

OpenNotCompleted == \A q \in Requests : Open(q) => run[q] # "completed"

\* An artifact is that of a completed run of m, or none: in this state, in the next one.
Completed(a, m) == a # None => run[a] = "completed" /\ form[a].model = m
CompletedNext(a, m) == a # None => run'[a] = "completed" /\ form'[a].model = m

PublishInv ==
    /\ WorkInv
    /\ OpenNotCompleted
    /\ \A m \in Models : Completed(row[m].metadata.artifact, m)
    /\ \A w \in Workers : pc[w] # "free" => Completed(seen[w].metadata.artifact, Target(w))

LEMMA HandlerKeepsPublished ==
    ASSUME PublishInv, WorkInv', NEW w \in Workers, pc[w] # "free",
           NEW step \in Outcomes, NEW memory \in Row, Advance(w, step, memory),
           UNCHANGED <<form, stage, queue>>,
           \A q \in Requests \ {job[w]} : run'[q] = run[q],
           run'[job[w]] # run[job[w]] => pc[w] \in Early,
           step \in Early => pc[w] \in Early /\ (run'[job[w]] = run[job[w]] \/ run'[job[w]] # "completed"),
           \/ memory.metadata.artifact = seen[w].metadata.artifact
           \/ memory.metadata.artifact = job[w] /\ run'[job[w]] = "completed",
           \A m \in Models : \/ row'[m].metadata.artifact = row[m].metadata.artifact
                             \/ m = Target(w) /\ row'[m].metadata.artifact = memory.metadata.artifact
    PROVE  PublishInv'
<1>1. /\ TypeOK /\ TypeInv /\ JobPlaced /\ job[w] \in Requests /\ Target(w) \in Models
      /\ Target(w) = form[job[w]].model
  BY BusyJob DEF PublishInv, WorkInv, TypeInv, Target
<1>2. /\ \A v \in Workers \ {w} : pc'[v] = pc[v] /\ job'[v] = job[v] /\ seen'[v] = seen[v]
      /\ pc'[w] # "free" => pc'[w] = step /\ job'[w] = job[w] /\ seen'[w] = memory
      /\ pc'[w] \in Early => pc'[w] = step /\ job'[w] = job[w]
  <2>1. /\ pc' = [pc EXCEPT ![w] = IF step \in {"done", "throw"} THEN "free" ELSE step]
        /\ job' = [job EXCEPT ![w] = IF step \in {"done", "throw"} THEN None ELSE job[w]]
        /\ seen' = [seen EXCEPT ![w] = IF step \in {"done", "throw"} THEN BlankRow ELSE memory]
    BY DEF Advance
  <2>2. /\ \A v \in Workers \ {w} : pc'[v] = pc[v] /\ job'[v] = job[v] /\ seen'[v] = seen[v]
        /\ pc'[w] = (IF step \in {"done", "throw"} THEN "free" ELSE step)
        /\ job'[w] = (IF step \in {"done", "throw"} THEN None ELSE job[w])
        /\ seen'[w] = (IF step \in {"done", "throw"} THEN BlankRow ELSE memory)
    BY <1>1, <2>1 DEF TypeOK
  <2> QED BY <2>2 DEF Early
<1>3. pc[w] \in Early => run[job[w]] # "completed"
  BY <1>1 DEF PublishInv, OpenNotCompleted, Open
<1>4. \A q \in Requests : run[q] = "completed" => run'[q] = "completed"
  BY <1>1, <1>3
<1>5. ASSUME NEW q \in Requests, Open(q)' PROVE run'[q] # "completed"
  <2>1. CASE q = job[w]
    <3>1. stage[q] \in Pushed /\ ~Holds(queue, q)
      BY <1>1, <2>1 DEF JobPlaced
    <3>2. \E v \in Workers : job'[v] = q /\ pc'[v] \in Early
      BY <1>5, <3>1 DEF Open, Holds
    <3>3. pc'[w] \in Early
      BY <1>1, <1>2, <2>1, <3>2, NullAssumption DEF JobPlaced
    <3> QED BY <1>2, <1>3, <2>1, <3>3
  <2>2. CASE q # job[w]
    <3>1. Open(q)
      BY <1>2, <1>5, <2>2 DEF Open, Holds
    <3> QED BY <2>2, <3>1 DEF PublishInv, OpenNotCompleted
  <2> QED BY <2>1, <2>2
<1>6. \A a \in Requests \cup {None} : \A m : Completed(a, m) => CompletedNext(a, m)
  BY <1>4 DEF Completed, CompletedNext
<1>7. /\ \A v \in Workers : seen[v].metadata.artifact \in Requests \cup {None}
      /\ \A m \in Models : row[m].metadata.artifact \in Requests \cup {None}
  BY <1>1 DEF TypeOK, Row, Metadata
<1>8. CompletedNext(memory.metadata.artifact, Target(w))
  <2>1. CASE memory.metadata.artifact = seen[w].metadata.artifact
    BY <1>6, <1>7, <2>1 DEF PublishInv
  <2>2. CASE memory.metadata.artifact = job[w] /\ run'[job[w]] = "completed"
    BY <1>1, <2>2 DEF CompletedNext
  <2> QED BY <2>1, <2>2
<1>9. ASSUME NEW m \in Models PROVE CompletedNext(row'[m].metadata.artifact, m)
  BY <1>6, <1>7, <1>8 DEF PublishInv
<1>10. ASSUME NEW v \in Workers, pc'[v] # "free"
       PROVE  CompletedNext(seen'[v].metadata.artifact, form[job'[v]].model)
  <2>1. CASE v = w
    BY <1>1, <1>2, <1>8, <1>10, <2>1
  <2>2. CASE v # w
    BY <1>2, <1>6, <1>7, <1>10, <2>2 DEF PublishInv, Target
  <2> QED BY <2>1, <2>2
<1>11. OpenNotCompleted'
  BY <1>5 DEF OpenNotCompleted
<1>12. (\A m \in Models : Completed(row[m].metadata.artifact, m))'
  BY <1>9 DEF Completed, CompletedNext
<1>13. (\A v \in Workers : pc[v] # "free" => Completed(seen[v].metadata.artifact, Target(v)))'
  BY <1>10 DEF Completed, CompletedNext, Target
<1> QED BY <1>11, <1>12, <1>13 DEF PublishInv
LEMMA SkipKeepsPublished ==
    ASSUME PublishInv, WorkInv', NEW w \in Workers, NEW at \in HandlerSteps, NEW next \in Outcomes,
           Skip(w, at, next), next \in Early => at \in Early
    PROVE  PublishInv'
<1>1. pc[w] = at /\ pc[w] # "free" /\ seen[w] \in Row /\ UNCHANGED <<form, stage, queue, run, row>>
  BY DEF Skip, HandlerSteps, TrainSteps, EvaluateSteps, apiVars, dataVars, PublishInv, WorkInv, TypeInv, TypeOK
<1> QED BY <1>1, HandlerKeepsPublished DEF Skip

\* A report returns when no write fails.
LEMMA ReportKeepsPublished ==
    ASSUME MaxFaults = 0, PublishInv, WorkInv', NEW w \in Workers, NEW at \in HandlerSteps, NEW state,
           NEW next \in Outcomes, NEW onError, Report(w, at, state, next, onError),
           next \in Early => at \in Early
    PROVE  PublishInv'
<1>1. /\ pc[w] = at /\ pc[w] # "free" /\ seen[w] \in Row /\ faults \in Nat
      /\ UNCHANGED <<form, stage, queue, run, row>>
  BY DEF Report, HandlerSteps, TrainSteps, EvaluateSteps, apiVars, dataVars, PublishInv, WorkInv, TypeInv, TypeOK
<1>2. Advance(w, next, seen[w])
  BY <1>1 DEF Report, Store, Fault
<1> QED BY <1>1, <1>2, HandlerKeepsPublished

LEMMA SaveRunKeepsPublished ==
    ASSUME PublishInv, WorkInv', NEW w \in Workers, NEW at \in Early, NEW next \in TrainSteps,
           NEW status, SaveRunAs(w, at, status, next), next \in Early => status # "completed"
    PROVE  PublishInv'
<1>1. /\ pc[w] = at /\ pc[w] # "free" /\ seen[w] \in Row /\ next \in Outcomes
      /\ run \in [Requests -> TrainingStatus] /\ run' = [run EXCEPT ![job[w]] = status]
      /\ UNCHANGED <<form, stage, queue, row>>
  BY DEF SaveRunAs, Early, Outcomes, HandlerSteps, apiVars, PublishInv, WorkInv, TypeInv, TypeOK
<1>2. job[w] \in Requests
  BY <1>1, BusyJob DEF PublishInv, WorkInv
<1>3. run'[job[w]] = status /\ \A q \in Requests \ {job[w]} : run'[q] = run[q]
  BY <1>1, <1>2
<1> QED BY <1>1, <1>3, HandlerKeepsPublished DEF SaveRunAs

LEMMA SaveModelKeepsPublished ==
    ASSUME PublishInv, WorkInv', NEW w \in Workers, NEW at \in HandlerSteps, NEW next \in Outcomes,
           NEW saved, NEW memory \in Row, SaveModel(w, at, saved, memory, next),
           next \in Early => at \in Early,
           \/ memory.metadata.artifact = seen[w].metadata.artifact
           \/ memory.metadata.artifact = job[w] /\ run[job[w]] = "completed",
           saved.metadata.artifact \in {row[Target(w)].metadata.artifact, memory.metadata.artifact}
    PROVE  PublishInv'
<1>1. /\ pc[w] = at /\ pc[w] # "free" /\ UNCHANGED <<form, stage, queue, run>>
      /\ row' = [row EXCEPT ![Target(w)] = saved] /\ row \in [Models -> Row]
  BY DEF SaveModel, HandlerSteps, TrainSteps, EvaluateSteps, apiVars, PublishInv, WorkInv, TypeInv, TypeOK
<1>2. Target(w) \in Models
  BY <1>1, BusyJob DEF PublishInv, WorkInv
<1>3. row'[Target(w)] = saved /\ \A m \in Models \ {Target(w)} : row'[m] = row[m]
  BY <1>1, <1>2
<1> QED BY <1>1, <1>3, HandlerKeepsPublished DEF SaveModel

LEMMA JobsKeepPublished ==
    ASSUME MaxFaults = 0, PublishInv, WorkInv', NEW w \in Workers, TrainStep(w) \/ EvaluateStep(w) \/ Kill(w)
    PROVE  PublishInv'
<1> USE DEF HandlerSteps, TrainSteps, EvaluateSteps, Outcomes, Early
<1>1. /\ TypeInv /\ RunInv /\ seen[w] \in Row /\ row \in [Models -> Row] /\ faults \in Nat
      /\ pc[w] # "free" => Target(w) \in Models /\ job[w] \in Requests
  BY BusyJob DEF PublishInv, WorkInv, TypeInv, TypeOK
<1>2. CASE TrainRun(w)
  BY <1>2, SaveRunKeepsPublished DEF TrainRun
<1>3. CASE TrainRow(w)
  <2>1. pc[w] = "row"
    BY <1>3 DEF TrainRow, SaveModel
  <2> DEFINE saved == IF seen[w].status = "training" THEN row[Target(w)]
                      ELSE [row[Target(w)] EXCEPT !.status = "training"]
             memory == [seen[w] EXCEPT !.status = "training"]
  <2>2. memory \in Row /\ memory.metadata = seen[w].metadata
    BY <1>1 DEF Row, ModelStatus
  <2>3. saved.metadata = row[Target(w)].metadata
    BY <1>1, <2>1 DEF Row
  <2>4. SaveModel(w, "row", saved, memory, "begin")
    BY <1>3 DEF TrainRow
  <2> HIDE DEF saved, memory
  <2> QED BY <2>2, <2>3, <2>4, SaveModelKeepsPublished
<1>4. CASE TrainBegin(w)
  BY <1>4, ReportKeepsPublished DEF TrainBegin
<1>5. CASE TrainFit(w)
  BY <1>5, ReportKeepsPublished, SkipKeepsPublished DEF TrainFit
<1>6. CASE TrainPut(w)
  <2>1. pc[w] = "fitted" /\ UNCHANGED <<form, stage, queue, row, run>>
    BY <1>6 DEF TrainPut, apiVars
  <2> QED BY <1>1, <1>6, <2>1, HandlerKeepsPublished DEF TrainPut
<1>7. CASE TrainReport(w)
  BY <1>7, ReportKeepsPublished DEF TrainReport
<1>8. CASE TrainComplete(w)
  BY <1>8, SaveRunKeepsPublished DEF TrainComplete
<1>9. CASE TrainPublish(w)
  <2> DEFINE saved == Published([seen[w].metadata EXCEPT !.artifact = job[w]])
  <2>1. SaveModel(w, "publish", saved, saved, "settle") /\ pc[w] = "publish"
    BY <1>9 DEF TrainPublish, SaveModel
  <2>2. saved \in Row /\ saved.metadata.artifact = job[w]
    <3>1. saved \in Row
      BY <1>1, <2>1, RowValues
    <3>2. saved.metadata.artifact = job[w]
      BY <1>1 DEF Published, Row, Metadata
    <3> QED BY <3>1, <3>2
  <2>3. run[job[w]] = "completed"
    BY <1>1, <2>1 DEF RunInv
  <2> HIDE DEF saved
  <2> QED BY <2>1, <2>2, <2>3, SaveModelKeepsPublished
<1>10. CASE TrainSettle(w)
  BY <1>10, ReportKeepsPublished DEF TrainSettle
<1>11. CASE TrainFailRun(w)
  BY <1>11, SaveRunKeepsPublished DEF TrainFailRun
<1>12. CASE TrainFailRow(w)
  <2>1. pc[w] = "failRow"
    BY <1>12 DEF TrainFailRow, SaveModel
  <2> DEFINE saved == [row[Target(w)] EXCEPT !.status = "failed"]
             memory == [seen[w] EXCEPT !.status = "failed"]
  <2>2. memory \in Row /\ memory.metadata = seen[w].metadata
    BY <1>1 DEF Row, ModelStatus
  <2>3. saved.metadata = row[Target(w)].metadata
    BY <1>1, <2>1 DEF Row
  <2>4. SaveModel(w, "failRow", saved, memory, "failMark")
    BY <1>12 DEF TrainFailRow
  <2> HIDE DEF saved, memory
  <2> QED BY <2>2, <2>3, <2>4, SaveModelKeepsPublished
<1>13. CASE TrainFailMark(w)
  BY <1>13, ReportKeepsPublished DEF TrainFailMark
<1>14. CASE EvaluateBegin(w)
  BY <1>14, ReportKeepsPublished DEF EvaluateBegin
<1>15. CASE EvaluateCompute(w)
  BY <1>15, SkipKeepsPublished DEF EvaluateCompute
<1>16. CASE EvaluateProgress(w)
  BY <1>16, ReportKeepsPublished DEF EvaluateProgress
<1>17. CASE EvaluateSave(w)
  <2>1. pc[w] = "evSave"
    BY <1>17 DEF EvaluateSave, SaveModel
  <2> DEFINE metadata == [seen[w].metadata EXCEPT !.evals = @ \cup {job[w]}]
             saved == [row[Target(w)] EXCEPT !.metadata = metadata]
             memory == [seen[w] EXCEPT !.metadata = metadata]
  <2>2. memory \in Row
    BY <1>1, <2>1, RowValues
  <2>3. metadata.artifact = seen[w].metadata.artifact
    BY <1>1 DEF Row, Metadata
  <2>4. saved.metadata = metadata /\ memory.metadata = metadata
    BY <1>1, <2>1 DEF Row
  <2>5. SaveModel(w, "evSave", saved, memory, "evSettle")
    BY <1>17 DEF EvaluateSave
  <2> HIDE DEF saved, memory, metadata
  <2> QED BY <2>2, <2>3, <2>4, <2>5, SaveModelKeepsPublished
<1>18. CASE EvaluateSettle(w)
  BY <1>18, ReportKeepsPublished DEF EvaluateSettle
<1>19. CASE EvaluateFail(w)
  BY <1>19, ReportKeepsPublished DEF EvaluateFail
<1>20. CASE Kill(w)
  <2>1. pc[w] # "free" /\ UNCHANGED <<form, stage, queue, row, run>>
    BY <1>20 DEF Kill, apiVars, dataVars
  <2> QED BY <1>1, <1>20, <2>1, HandlerKeepsPublished DEF Kill
<1> QED
  BY <1>2, <1>3, <1>4, <1>5, <1>6, <1>7, <1>8, <1>9, <1>10, <1>11, <1>12, <1>13, <1>14,
     <1>15, <1>16, <1>17, <1>18, <1>19, <1>20
  DEF TrainStep, EvaluateStep

\* Any other step: completed runs stay completed, and what a handler newly holds is a row.
LEMMA OthersKeepPublished ==
    ASSUME PublishInv, WorkInv', UNCHANGED form,
           \A q \in Requests : run[q] = "completed" => run'[q] = "completed",
           \A q \in Requests : Open(q)' => Open(q) /\ (run'[q] = run[q] \/ run'[q] # "completed"),
           \A m \in Models : row'[m].metadata.artifact = row[m].metadata.artifact,
           \A w \in Workers : pc'[w] # "free" =>
              \/ pc[w] # "free" /\ seen'[w] = seen[w] /\ job'[w] = job[w]
              \/ \E m \in Models : seen'[w] = row[m] /\ form[job'[w]].model = m
    PROVE  PublishInv'
<1>1. /\ \A w \in Workers : seen[w].metadata.artifact \in Requests \cup {None}
      /\ \A m \in Models : row[m].metadata.artifact \in Requests \cup {None}
  BY DEF PublishInv, WorkInv, TypeInv, TypeOK, Row, Metadata
<1>2. \A a \in Requests \cup {None} : \A m : Completed(a, m) => CompletedNext(a, m)
  BY DEF Completed, CompletedNext
<1>3. \A m \in Models : CompletedNext(row'[m].metadata.artifact, m)
  BY <1>1, <1>2 DEF PublishInv
<1>4. ASSUME NEW w \in Workers, pc'[w] # "free"
      PROVE  CompletedNext(seen'[w].metadata.artifact, form[job'[w]].model)
  BY <1>1, <1>2, <1>4 DEF PublishInv, Target
<1>5. OpenNotCompleted'
  BY DEF PublishInv, OpenNotCompleted
<1>6. (\A m \in Models : Completed(row[m].metadata.artifact, m))'
  BY <1>3 DEF Completed, CompletedNext
<1>7. (\A w \in Workers : pc[w] # "free" => Completed(seen[w].metadata.artifact, Target(w)))'
  BY <1>4 DEF Completed, CompletedNext, Target
<1> QED BY <1>5, <1>6, <1>7 DEF PublishInv

LEMMA NextPublished ==
    ASSUME MaxFaults = 0, MaxRetries = 0, PublishInv, [Next]_vars
    PROVE  PublishInv'
<1>1. WorkInv' /\ WorkInv /\ TypeOK /\ faults \in Nat /\ retries \in Nat
  BY NextWork DEF PublishInv, WorkInv, TypeInv, TypeOK
<1>2. ASSUME NEW q \in Requests, RequestStep(q) PROVE PublishInv'
  <2>1. UNCHANGED <<form, row, pc, job, seen>>
    BY <1>2 DEF RequestStep, Check, SaveRun, MarkQueued, StoreResponse, Dispatch, apiVars, dataVars, workerVars
  <2>2. /\ stage[q] \notin Pushed
        /\ \A p \in Requests \ {q} : stage'[p] = stage[p] /\ run'[p] = run[p]
        /\ run'[q] = run[q] \/ run'[q] = "queued"
    BY <1>1, <1>2 DEF RequestStep, Check, SaveRun, MarkQueued, StoreResponse, Dispatch, dataVars, TypeOK,
                      Pushed
  <2>3. Open(q) /\ run[q] # "completed"
    BY <2>2 DEF Open, PublishInv, OpenNotCompleted
  <2>4. \A p \in Requests \ {q} : Holds(queue, p)' => Holds(queue, p)
    <3>1. CASE queue' = queue
      BY <3>1 DEF Holds
    <3>2. CASE Dispatch(q)
      <4>1. stage[q] \in {"stored", "unstored"} /\ (queue' = queue \/ queue' = Append(queue, q))
        BY <3>2 DEF Dispatch
      <4>2. ~Holds(queue, q) /\ Distinct(queue) /\ queue \in Seq(Requests)
        BY <1>1, <4>1 DEF WorkInv, JobPlaced, TypeOK, Pushed
      <4>3. \A x : Holds(Append(queue, q), x) <=> Holds(queue, x) \/ x = q
        BY <4>2, AppendHolds
      <4> QED BY <4>1, <4>3 DEF Holds
    <3> QED BY <1>2, <3>1, <3>2 DEF RequestStep, Check, SaveRun, MarkQueued, StoreResponse
  <2>5. \A p \in Requests : Open(p)' => Open(p) /\ (run'[p] = run[p] \/ run'[p] # "completed")
    BY <2>1, <2>2, <2>3, <2>4 DEF Open
  <2>6. \A p \in Requests : run[p] = "completed" => run'[p] = "completed"
    BY <2>2, <2>3
  <2> QED BY <1>1, <2>1, <2>5, <2>6, OthersKeepPublished
<1>3. ASSUME NEW w \in Workers, Reserve(w) PROVE PublishInv'
  <2> DEFINE q == Head(queue)
  <2>1. /\ queue # <<>> /\ queue' = Tail(queue) /\ pc[w] = "free"
        /\ UNCHANGED <<form, stage, row, run>>
    BY <1>3 DEF Reserve, apiVars, dataVars
  <2>2. /\ q \in Requests /\ Holds(queue, q)
        /\ \A x : Holds(Tail(queue), x) => Holds(queue, x)
    BY <1>1, <2>1, TailHolds DEF WorkInv, JobPlaced, TypeOK
  <2>3. /\ \A v \in Workers \ {w} : pc'[v] = pc[v] /\ job'[v] = job[v] /\ seen'[v] = seen[v]
        /\ job'[w] = q /\ seen'[w] = row[form[q].model]
    BY <1>1, <1>3 DEF Reserve, TypeOK
  <2>4. form[q].model \in Models
    BY <1>1, <2>2 DEF TypeOK, Forms
  <2> HIDE DEF q
  <2>5. \A p \in Requests : Open(p)' => Open(p)
    BY <2>1, <2>2, <2>3 DEF Open, Holds
  <2> QED BY <1>1, <2>1, <2>3, <2>4, <2>5, OthersKeepPublished
<1>4. ASSUME UNCHANGED <<form, stage, run, queue, pc, job, seen>>,
             \A m \in Models : row'[m].metadata.artifact = row[m].metadata.artifact
      PROVE  PublishInv'
  <2>1. \A p \in Requests : Open(p)' => Open(p)
    BY <1>4 DEF Open, Holds
  <2> QED BY <1>1, <1>4, <2>1, OthersKeepPublished
<1>5. ASSUME NEW a \in Admins, AdminStep(a) PROVE PublishInv'
  <2>1. UNCHANGED <<form, stage, run, queue, pc, job, seen>>
    BY <1>5 DEF AdminStep, Find, Activate, Deactivate, Registered, apiVars, dataVars, workerVars
  <2>2. \A m \in Models : row'[m].metadata.artifact = row[m].metadata.artifact
    <3>1. \A models, status : \A m \in Models :
             /\ WithStatus(models, status)[m].metadata = row[m].metadata
             /\ [WithStatus(models, status)[m] EXCEPT !.status = "active"].metadata = row[m].metadata
      BY <1>1 DEF WithStatus, Row, TypeOK
    <3>2. CASE Activate(a)
      BY <3>1, <3>2 DEF Activate, Registered
    <3>3. CASE Deactivate(a)
      BY <3>1, <3>3 DEF Deactivate, Registered
    <3>4. CASE row' = row
      BY <3>4
    <3> QED BY <1>5, <3>2, <3>3, <3>4 DEF AdminStep, Find, dataVars
  <2> QED BY <1>4, <2>1, <2>2
<1>6. ASSUME NEW m \in Models, SnapshotExpires(m) PROVE PublishInv'
  BY <1>4, <1>6 DEF SnapshotExpires, apiVars, dataVars, workerVars
<1>7. ASSUME NEW f \in Forms, ResponseExpires(f) PROVE PublishInv'
  BY <1>4, <1>7 DEF ResponseExpires, dataVars, workerVars
<1>8. CASE UNCHANGED vars
  BY <1>4, <1>8 DEF vars, apiVars, dataVars, workerVars
<1>9. ASSUME NEW q \in Requests, Retry(q) PROVE FALSE
  BY <1>1, <1>9 DEF Retry
<1> QED BY <1>1, <1>2, <1>3, <1>5, <1>6, <1>7, <1>8, <1>9, JobsKeepPublished DEF Next, WorkerStep

\* Wherever a worker dies, a model names the artifact of a run of its own that is
\* recorded as completed, if no write fails and no failed job is retried.
THEOREM PublishedStayCompleted ==
    ASSUME MaxFaults = 0, MaxRetries = 0
    PROVE  Spec => []PublishedRunCompleted
<1>1. Init => PublishInv
  <2> SUFFICES ASSUME Init PROVE PublishInv
    OBVIOUS
  <2>1. OpenNotCompleted
    BY DEF Init, OpenNotCompleted
  <2>2. \A m \in Models : Completed(row[m].metadata.artifact, m)
    BY DEF Init, BlankRow, Completed
  <2>3. \A w \in Workers : pc[w] = "free"
    BY DEF Init
  <2> QED BY <2>1, <2>2, <2>3, InitWork DEF PublishInv
<1>2. PublishInv /\ [Next]_vars => PublishInv'
  BY NextPublished
<1>3. PublishInv => PublishedRunCompleted
  BY DEF PublishInv, Completed, PublishedRunCompleted
<1> QED BY <1>1, <1>2, <1>3, PTL DEF Spec

-----------------------------------------------------------------------------
(* The metadata of a model, with any number of workers *)

\* Metadata d holds all that r records, but for what the jobs of x saved.
Keeps(r, x, d) ==
    /\ r.evals \subseteq d.evals \cup x
    /\ r.artifact \in {d.artifact} \cup x

\* A copy that may still be written back has all that the row has to keep.
CopiesKeep ==
    \A w \in Workers : pc[w] \in BeforeSave => Keeps(recorded[Target(w)], exposed, seen[w].metadata)

RowsKeep == \A m \in Models : Keeps(recorded[m], exposed, row[m].metadata)

KeptInv == TypeInv /\ RowsKeep /\ CopiesKeep

\* A step that leaves the workers and the metadata alone.
LEMMA OthersKeepCopies ==
    ASSUME KeptInv, UNCHANGED <<form, pc, job, seen, recorded, exposed>>,
           \A m \in Models : row'[m].metadata = row[m].metadata
    PROVE  RowsKeep' /\ CopiesKeep'
BY DEF KeptInv, RowsKeep, CopiesKeep, Target

\* A step of a handler that saves no metadata.
LEMMA QuietKeepsCopies ==
    ASSUME KeptInv, NEW w \in Workers, UNCHANGED <<form, recorded, exposed>>,
           NEW step, NEW memory, Advance(w, step, memory),
           memory.metadata = seen[w].metadata,
           step \in BeforeSave => pc[w] \in BeforeSave,
           \A m \in Models : row'[m].metadata = row[m].metadata
    PROVE  RowsKeep' /\ CopiesKeep'
<1>1. RowsKeep'
  BY DEF KeptInv, RowsKeep
<1>2. ASSUME NEW v \in Workers, pc'[v] \in BeforeSave
      PROVE  Keeps(recorded[Target(v)'], exposed, seen'[v].metadata)
  <2>1. CASE v = w
    <3>1. step \notin {"done", "throw"} /\ pc'[w] = step /\ job'[w] = job[w] /\ seen'[w] = memory
      BY <1>2, <2>1 DEF Advance, BeforeSave, KeptInv, TypeInv, TypeOK
    <3>2. Target(w)' = Target(w) /\ pc[w] \in BeforeSave
      BY <1>2, <2>1, <3>1 DEF Target
    <3> QED BY <2>1, <3>1, <3>2 DEF KeptInv, CopiesKeep
  <2>2. CASE v # w
    <3>1. pc'[v] = pc[v] /\ job'[v] = job[v] /\ seen'[v] = seen[v]
      BY <2>2 DEF Advance, KeptInv, TypeInv, TypeOK
    <3>2. Target(v)' = Target(v)
      BY <3>1 DEF Target
    <3> QED BY <1>2, <3>1, <3>2 DEF KeptInv, CopiesKeep
  <2> QED BY <2>1, <2>2
<1>3. CopiesKeep'
  BY <1>2 DEF CopiesKeep
<1> QED BY <1>1, <1>3

\* A save of the metadata: what it adds is exposed if another worker holds a copy.
LEMMA SaverKeepsCopies ==
    ASSUME KeptInv, NEW w \in Workers, pc[w] \in BeforeSave, form' = form,
           NEW step, step \notin BeforeSave, NEW memory, Advance(w, step, memory),
           NEW saved, row' = [row EXCEPT ![Target(w)] = saved],
           NEW r, recorded' = [recorded EXCEPT ![Target(w)] = r],
           exposed \subseteq exposed',
           \A v \in Workers \ {w} : Holding(v, Target(w)) => job[w] \in exposed',
           r.evals \subseteq recorded[Target(w)].evals \cup {job[w]},
           r.artifact \in {recorded[Target(w)].artifact, job[w]},
           \A x : Keeps(recorded[Target(w)], x, seen[w].metadata) => Keeps(r, x, saved.metadata)
    PROVE  RowsKeep' /\ CopiesKeep'
<1>1. /\ Target(w) \in Models
      /\ row \in [Models -> Row] /\ recorded \in [Models -> Metadata]
  BY BusyJob DEF KeptInv, TypeInv, TypeOK, BeforeSave
<1>2. \A m \in Models \ {Target(w)} : row'[m] = row[m] /\ recorded'[m] = recorded[m]
  BY <1>1
<1>3. row'[Target(w)] = saved /\ recorded'[Target(w)] = r
  BY <1>1
<1>4. RowsKeep'
  <2>1. Keeps(r, exposed', saved.metadata)
    <3>1. Keeps(recorded[Target(w)], exposed', seen[w].metadata)
      BY DEF KeptInv, CopiesKeep, Keeps
    <3> QED BY <3>1
  <2>2. \A m \in Models \ {Target(w)} : Keeps(recorded'[m], exposed', row'[m].metadata)
    BY <1>2 DEF KeptInv, RowsKeep, Keeps
  <2> QED BY <1>3, <2>1, <2>2 DEF RowsKeep
<1>5. ASSUME NEW v \in Workers, pc'[v] \in BeforeSave
      PROVE  Keeps(recorded'[Target(v)'], exposed', seen'[v].metadata)
  <2>1. v # w
    BY <1>5 DEF Advance, BeforeSave, KeptInv, TypeInv, TypeOK
  <2>2. pc'[v] = pc[v] /\ job'[v] = job[v] /\ seen'[v] = seen[v]
    BY <2>1 DEF Advance, KeptInv, TypeInv, TypeOK
  <2>3. Target(v)' = Target(v) /\ Keeps(recorded[Target(v)], exposed, seen[v].metadata)
        /\ Target(v) \in Models
    BY <1>5, <2>2, BusyJob DEF Target, KeptInv, CopiesKeep, BeforeSave
  <2>4. CASE Target(v) = Target(w)
    <3>1. job[w] \in exposed'
      BY <1>5, <2>1, <2>2, <2>4 DEF Holding
    <3>2. Keeps(r, exposed', seen[v].metadata)
      BY <2>3, <2>4, <3>1 DEF Keeps
    <3> QED BY <1>3, <2>2, <2>3, <2>4, <3>2
  <2>5. CASE Target(v) # Target(w)
    BY <1>2, <2>2, <2>3, <2>5 DEF Keeps
  <2> QED BY <2>4, <2>5
<1>6. CopiesKeep'
  BY <1>5 DEF CopiesKeep
<1> QED BY <1>4, <1>6

\* Most steps of a handler go on with what it holds, and save no model.
LEMMA QuietJobs ==
    ASSUME NEW w \in Workers, TrainStep(w) \/ EvaluateStep(w) \/ Kill(w)
    PROVE  \/ TrainRow(w) \/ TrainPublish(w) \/ TrainFailRow(w) \/ EvaluateSave(w)
           \/ /\ UNCHANGED <<row, form, recorded, exposed>>
              /\ \E step : Advance(w, step, seen[w]) /\ (step \in BeforeSave => pc[w] \in BeforeSave)
<1> USE DEF Skip, Report, SaveRunAs, apiVars, dataVars, BeforeSave
<1>1. CASE TrainRun(w) \/ TrainBegin(w) \/ TrainFit(w)
  BY <1>1 DEF TrainRun, TrainBegin, TrainFit
<1>2. CASE TrainPut(w)
  BY <1>2 DEF TrainPut
<1>3. CASE TrainReport(w) \/ TrainComplete(w) \/ TrainSettle(w)
  BY <1>3 DEF TrainReport, TrainComplete, TrainSettle
<1>4. CASE TrainFailRun(w) \/ TrainFailMark(w)
  BY <1>4 DEF TrainFailRun, TrainFailMark
<1>5. CASE EvaluateBegin(w) \/ EvaluateCompute(w) \/ EvaluateProgress(w)
  BY <1>5 DEF EvaluateBegin, EvaluateCompute, EvaluateProgress
<1>6. CASE EvaluateSettle(w) \/ EvaluateFail(w)
  BY <1>6 DEF EvaluateSettle, EvaluateFail
<1>7. CASE Kill(w)
  BY <1>7 DEF Kill
<1> QED BY <1>1, <1>2, <1>3, <1>4, <1>5, <1>6, <1>7 DEF TrainStep, EvaluateStep

\* A save of the status only, or of nothing.
LEMMA StatusKeepsCopies ==
    ASSUME KeptInv, NEW w \in Workers, NEW at, NEW saved, NEW memory, NEW next,
           SaveModel(w, at, saved, memory, next),
           at \notin {"publish", "evSave", "free"}, next \in BeforeSave => at \in BeforeSave,
           saved.metadata = row[Target(w)].metadata, memory.metadata = seen[w].metadata
    PROVE  RowsKeep' /\ CopiesKeep'
<1>1. /\ UNCHANGED <<form, recorded, exposed>> /\ pc[w] = at
      /\ Advance(w, next, memory) /\ row' = [row EXCEPT ![Target(w)] = saved]
  BY DEF SaveModel, Record, apiVars
<1>2. \A m \in Models : row'[m].metadata = row[m].metadata
  BY <1>1 DEF KeptInv, TypeInv, TypeOK
<1> QED BY <1>1, <1>2, QuietKeepsCopies

LEMMA JobsKeepCopies ==
    ASSUME KeptInv, NEW w \in Workers, WorkerStep(w) \/ Kill(w)
    PROVE  RowsKeep' /\ CopiesKeep'
<1>1. /\ seen[w] \in Row /\ row \in [Models -> Row] /\ seen[w].metadata \in Metadata
      /\ recorded \in [Models -> Metadata]
      /\ pc[w] # "free" => Target(w) \in Models /\ job[w] \in Requests
  BY BusyJob DEF KeptInv, TypeInv, TypeOK, Row
<1>2. CASE Reserve(w)
  <2> DEFINE q == Head(queue)
  <2>1. q \in Requests /\ form[q].model \in Models
    BY <1>2 DEF Reserve, KeptInv, TypeInv, TypeOK, Forms
  <2>2. /\ job'[w] = q /\ seen'[w] = row[form[q].model]
        /\ UNCHANGED <<form, row, recorded, exposed>>
        /\ \A v \in Workers \ {w} : pc'[v] = pc[v] /\ job'[v] = job[v] /\ seen'[v] = seen[v]
    BY <1>2 DEF Reserve, KeptInv, TypeInv, TypeOK, apiVars, dataVars
  <2> HIDE DEF q
  <2>3. RowsKeep'
    BY <2>2 DEF KeptInv, RowsKeep
  <2>4. Keeps(recorded[Target(w)'], exposed, seen'[w].metadata)
    BY <2>1, <2>2 DEF KeptInv, RowsKeep, Target
  <2>5. \A v \in Workers \ {w} : Target(v)' = Target(v)
    BY <2>2 DEF Target
  <2>6. CopiesKeep'
    BY <2>2, <2>4, <2>5 DEF KeptInv, CopiesKeep
  <2> QED BY <2>3, <2>6
<1>3. CASE TrainRow(w)
  <2> DEFINE saved == IF seen[w].status = "training" THEN row[Target(w)]
                      ELSE [row[Target(w)] EXCEPT !.status = "training"]
             memory == [seen[w] EXCEPT !.status = "training"]
  <2>1. SaveModel(w, "row", saved, memory, "begin")
    BY <1>3 DEF TrainRow
  <2>2. pc[w] = "row"
    BY <2>1 DEF SaveModel
  <2>3. memory.metadata = seen[w].metadata /\ saved.metadata = row[Target(w)].metadata
    BY <1>1, <2>2 DEF Row
  <2> HIDE DEF saved, memory
  <2> QED BY <2>1, <2>3, StatusKeepsCopies DEF BeforeSave
<1>4. CASE TrainFailRow(w)
  <2> DEFINE saved == [row[Target(w)] EXCEPT !.status = "failed"]
             memory == [seen[w] EXCEPT !.status = "failed"]
  <2>1. SaveModel(w, "failRow", saved, memory, "failMark")
    BY <1>4 DEF TrainFailRow
  <2>2. pc[w] = "failRow"
    BY <2>1 DEF SaveModel
  <2>3. memory.metadata = seen[w].metadata /\ saved.metadata = row[Target(w)].metadata
    BY <1>1, <2>2 DEF Row
  <2> HIDE DEF saved, memory
  <2> QED BY <2>1, <2>3, StatusKeepsCopies DEF BeforeSave
<1>5. CASE TrainPublish(w)
  <2> DEFINE saved == Published([seen[w].metadata EXCEPT !.artifact = job[w]])
             r == [recorded[Target(w)] EXCEPT !.artifact = job[w]]
  <2>1. SaveModel(w, "publish", saved, saved, "settle")
    BY <1>5 DEF TrainPublish
  <2>2. /\ pc[w] = "publish" /\ form' = form /\ Advance(w, "settle", saved)
        /\ row' = [row EXCEPT ![Target(w)] = saved]
    BY <2>1 DEF SaveModel, apiVars
  <2>3. /\ recorded' = [recorded EXCEPT ![Target(w)] = r]
        /\ exposed \subseteq exposed'
        /\ \A v \in Workers \ {w} : Holding(v, Target(w)) => job[w] \in exposed'
    BY <1>1, <2>1, <2>2 DEF SaveModel, Record
  <2>4. recorded[Target(w)] \in Metadata
    BY <1>1, <2>2
  <2>5. /\ r.evals = recorded[Target(w)].evals /\ r.artifact = job[w]
        /\ saved.metadata.evals = seen[w].metadata.evals /\ saved.metadata.artifact = job[w]
    BY <1>1, <2>4 DEF Published, Metadata
  <2> HIDE DEF saved, r
  <2>6. \A x : Keeps(recorded[Target(w)], x, seen[w].metadata) => Keeps(r, x, saved.metadata)
    BY <2>5 DEF Keeps
  <2>7. pc[w] \in BeforeSave /\ "settle" \notin BeforeSave
    BY <2>2 DEF BeforeSave
  <2> QED BY <2>2, <2>3, <2>5, <2>6, <2>7, SaverKeepsCopies
<1>6. CASE EvaluateSave(w)
  <2> DEFINE metadata == [seen[w].metadata EXCEPT !.evals = @ \cup {job[w]}]
             saved == [row[Target(w)] EXCEPT !.metadata = metadata]
             memory == [seen[w] EXCEPT !.metadata = metadata]
             r == [recorded[Target(w)] EXCEPT !.evals = @ \cup {job[w]}]
  <2>1. SaveModel(w, "evSave", saved, memory, "evSettle")
    BY <1>6 DEF EvaluateSave
  <2>2. /\ pc[w] = "evSave" /\ form' = form /\ Advance(w, "evSettle", memory)
        /\ row' = [row EXCEPT ![Target(w)] = saved]
    BY <2>1 DEF SaveModel, apiVars
  <2>3. /\ recorded' = [recorded EXCEPT ![Target(w)] = r]
        /\ exposed \subseteq exposed'
        /\ \A v \in Workers \ {w} : Holding(v, Target(w)) => job[w] \in exposed'
    BY <1>1, <2>1, <2>2 DEF SaveModel, Record
  <2>4. recorded[Target(w)] \in Metadata /\ row[Target(w)] \in Row
    BY <1>1, <2>2
  <2>5. /\ r.evals = recorded[Target(w)].evals \cup {job[w]}
        /\ r.artifact = recorded[Target(w)].artifact
        /\ metadata.evals = seen[w].metadata.evals \cup {job[w]}
        /\ metadata.artifact = seen[w].metadata.artifact
        /\ saved.metadata = metadata
    BY <1>1, <2>4 DEF Metadata, Row
  <2> HIDE DEF saved, metadata, memory, r
  <2>6. \A x : Keeps(recorded[Target(w)], x, seen[w].metadata) => Keeps(r, x, saved.metadata)
    BY <2>5 DEF Keeps
  <2>7. pc[w] \in BeforeSave /\ "evSettle" \notin BeforeSave
    BY <2>2 DEF BeforeSave
  <2> QED BY <2>2, <2>3, <2>5, <2>6, <2>7, SaverKeepsCopies
<1>7. CASE /\ UNCHANGED <<row, form, recorded, exposed>>
           /\ \E step : Advance(w, step, seen[w]) /\ (step \in BeforeSave => pc[w] \in BeforeSave)
  BY <1>7, QuietKeepsCopies
<1> QED BY <1>2, <1>3, <1>4, <1>5, <1>6, <1>7, QuietJobs DEF WorkerStep

LEMMA NextKept ==
    ASSUME KeptInv, [Next]_vars
    PROVE  KeptInv'
<1>1. TypeInv'
  BY NextType DEF KeptInv
<1> SUFFICES RowsKeep' /\ CopiesKeep'
  BY <1>1 DEF KeptInv
<1>2. ASSUME NEW q \in Requests, RequestStep(q) \/ Retry(q) PROVE RowsKeep' /\ CopiesKeep'
  <2>1. UNCHANGED <<form, row, pc, job, seen, recorded, exposed>>
    BY <1>2 DEF RequestStep, Check, SaveRun, MarkQueued, StoreResponse, Dispatch, Retry,
                apiVars, dataVars, workerVars
  <2> QED BY <2>1, OthersKeepCopies
<1>3. ASSUME NEW a \in Admins, AdminStep(a) PROVE RowsKeep' /\ CopiesKeep'
  <2>1. UNCHANGED <<form, pc, job, seen, recorded, exposed>>
    BY <1>3 DEF AdminStep, Find, Activate, Deactivate, Registered, apiVars, dataVars, workerVars
  <2>2. \A m \in Models : row'[m].metadata = row[m].metadata
    <3>0. row \in [Models -> Row]
      BY DEF KeptInv, TypeInv, TypeOK
    <3>1. \A models, status : \A m \in Models :
             /\ WithStatus(models, status)[m].metadata = row[m].metadata
             /\ [WithStatus(models, status)[m] EXCEPT !.status = "active"].metadata = row[m].metadata
      BY <3>0 DEF WithStatus, Row
    <3>2. CASE Activate(a)
      BY <3>1, <3>2 DEF Activate, Registered
    <3>3. CASE Deactivate(a)
      BY <3>1, <3>3 DEF Deactivate, Registered
    <3>4. CASE row' = row
      BY <3>4
    <3> QED BY <1>3, <3>2, <3>3, <3>4 DEF AdminStep, Find, dataVars
  <2> QED BY <2>1, <2>2, OthersKeepCopies
<1>4. ASSUME NEW m \in Models, SnapshotExpires(m) PROVE RowsKeep' /\ CopiesKeep'
  BY <1>4, OthersKeepCopies DEF SnapshotExpires, apiVars, dataVars, workerVars
<1>5. ASSUME NEW f \in Forms, ResponseExpires(f) PROVE RowsKeep' /\ CopiesKeep'
  BY <1>5, OthersKeepCopies DEF ResponseExpires, dataVars, workerVars
<1>6. CASE UNCHANGED vars
  BY <1>6, OthersKeepCopies DEF vars, apiVars, dataVars, workerVars
<1> QED BY <1>2, <1>3, <1>4, <1>5, <1>6, JobsKeepCopies DEF Next

\* For any number of workers, requests, failures, kills and retries, the metadata of a
\* model keeps every evaluation saved in it and names the artifact published last, but
\* for what a job saved while another worker held a copy still to be written back.
THEOREM MetadataStaysKept == Spec => []MetadataKept
<1>1. Init => KeptInv
  BY InitType DEF Init, KeptInv, RowsKeep, CopiesKeep, Keeps, BlankRow, BeforeSave
<1>2. KeptInv /\ [Next]_vars => KeptInv'
  BY NextKept
<1>3. KeptInv => MetadataKept
  BY DEF KeptInv, RowsKeep, Keeps, MetadataKept
<1> QED BY <1>1, <1>2, <1>3, PTL DEF Spec
=============================================================================
