----------------------- MODULE DatasetIngestionProofs -----------------------
(***************************************************************************)
(* The safety properties of DatasetIngestion, for any datasets, mappings,  *)
(* numbers of batches and bounds on faults, kills and retries.             *)
(*                                                                         *)
(* A dataset has one handler that finalises it: the request of an upload,  *)
(* the job of a remote dataset.  The invariant says of each dataset what   *)
(* row, files and features are at each step of that handler, and a step    *)
(* of another dataset's handler disturbs none of it (OtherDataset).        *)
(***************************************************************************)
EXTENDS DatasetIngestion, TLAPS

DatasetTypeOK ==
    /\ row \in [Datasets -> [status : Status, file : Nat]]
    /\ features \in [Datasets -> SUBSET (Nat \X Nat)]
    /\ disk \in SUBSET (Datasets \X Nat)
    /\ pc \in [Handlers -> Steps]
    /\ attempt \in [Datasets -> Nat]
    /\ batch \in [Datasets -> Nat \ {0}]
    /\ events \in SUBSET [dataset : Datasets, attempt : Nat, status : Status]
    /\ hit \in SUBSET Datasets /\ killed \in SUBSET hit /\ retried \in SUBSET Datasets

Deriving == {"clear", "insert", "announceReady"}

\* Where the handlers of d are, and the status it has there.
Placed(d) ==
    /\ IF d \in Remote
       THEN pc[Request(d)] \in {"none", "save", "announce", "dispatch", "ok", "error", "answered"}
       ELSE /\ pc[Request(d)] \in {"none", "save", "announce", "ok", "error", "answered"} \cup Finalising
            /\ pc[Job(d)] = "none" /\ row[d].status # "failed"
    /\ pc[Request(d)] \in {"none", "save", "announce", "dispatch"} => pc[Job(d)] = "none"
    /\ pc[Request(d)] \in {"none", "save"} => row[d].status = "none"
    /\ pc[Request(d)] = "announce" => row[d].status \in {"pending", "processing"}
    /\ pc[Job(d)] = "announceStart" => row[d].status = "processing"
    /\ pc[Job(d)] = "announceFailed" => row[d].status = "failed"
    /\ pc[Request(d)] \in Deriving \/ pc[Job(d)] \in Deriving \cup {"ack"} => row[d].status = "ready"
    /\ d \notin Remote /\ pc[Request(d)] = "ok" => row[d].status = "ready"

\* While features are inserted, all are of the file of the row.
OneFile(d) ==
    /\ \A f, g \in features[d] : f[1] = g[1]
    /\ "insert" \in {pc[Request(d)], pc[Job(d)]} => \A f \in features[d] : f[1] = row[d].file

\* The job of a dataset that was not killed has its file on the disk only from the
\* download to the catch block.
Files(d) ==
    /\ row[d].status = "failed" =>
          pc[Job(d)] \in {"announceFailed", "failed", "queued"} /\ row[d].file = NoFile
    /\ d \in Remote \ killed =>
          \A f \in disk : f[1] = d =>
              /\ f = File(d)
              /\ pc[Job(d)] \in {"name", "preview", "ack", "done", "delete"} \cup Deriving

DerivedFeatures(d) ==
    features[d] =
        IF d \in Mapped THEN {row[d].file} \X (1 .. Batches[<<d, row[d].file>>]) ELSE {}

\* The handler that finalises d, seen from d.
At(d) == IF d \in Remote THEN pc[Job(d)] ELSE pc[Request(d)]

\* What is true of a dataset that nothing bad has met.
WholeSoFar(d) ==
    /\ d \notin Mapped => features[d] = {}
    /\ At(d) \in {"clear", "insert"} => d \in Mapped
    /\ d \notin hit =>
        /\ pc[Job(d)] = "name" => File(d) \in disk
        /\ At(d) \in {"preview", "ack", "done", "ok"} \cup Deriving => <<d, row[d].file>> \in disk
        /\ At(d) \in {"announce", "error", "answered"} => <<d, row[d].file>> \in disk
        /\ At(d) = "insert" => features[d] = {row[d].file} \X (1 .. batch[d] - 1)
        /\ At(d) \in {"announceReady", "ack", "done", "ok"} => DerivedFeatures(d)
        /\ At(d) \in {"error", "answered"} => DerivedFeatures(d)
        /\ row[d].status = "ready" =>
              At(d) \in Deriving \cup {"ack", "delete", "saveFailed", "done", "ok", "error", "answered"}

DatasetInv(d) == Placed(d) /\ OneFile(d) /\ Files(d) /\ WholeSoFar(d)

\* Ready, and no handler of d will change it any more but by a retry.
Settled(d) ==
    /\ row[d].status = "ready"
    /\ IF d \in Remote THEN pc[Job(d)] \in {"ack", "done", "failed"}
                       ELSE pc[Request(d)] \in {"ok", "answered"}

BrowserInv ==
    /\ current \in Datasets \cup {NoDataset} /\ waiting \in Datasets \cup {NoDataset}
    /\ subscribed \in Datasets \cup {NoDataset}
    /\ subscribed # NoDataset => current = subscribed /\ waiting = NoDataset
    /\ \A e \in events : e.status = "ready" => e.dataset \in retried \/ Settled(e.dataset)
    /\ ui = "completed" => current \in Datasets /\ (current \in retried \/ Settled(current))

IngestionInv == DatasetTypeOK /\ (\A d \in Datasets : DatasetInv(d)) /\ BrowserInv

-----------------------------------------------------------------------------
(* Frames *)

LEMMA HandlerNames ==
    ASSUME NEW d \in Datasets, NEW e \in Datasets
    PROVE  /\ Request(d) \in Handlers /\ Job(d) \in Handlers
           /\ Request(d) # Job(e)
           /\ Request(d) = Request(e) <=> d = e
           /\ Job(d) = Job(e) <=> d = e
BY DEF Request, Job, Handlers

\* A step of one dataset leaves another one as it is.
LEMMA OtherDataset ==
    ASSUME IngestionInv, NEW d \in Datasets,
           pc'[Request(d)] = pc[Request(d)], pc'[Job(d)] = pc[Job(d)],
           row'[d] = row[d], features'[d] = features[d], attempt'[d] = attempt[d], batch'[d] = batch[d],
           \A n \in Nat : <<d, n>> \in disk' <=> <<d, n>> \in disk,
           disk' \in SUBSET (Datasets \X Nat),
           hit \subseteq hit', killed \subseteq killed'
    PROVE  DatasetInv(d)'
<1> USE DEF IngestionInv, DatasetInv
<1>1. Placed(d)'
  BY DEF Placed, Request, Job
<1>2. OneFile(d)'
  BY DEF OneFile, Request, Job
<1>3. Files(d)'
  <2>1. \A f \in disk' : f[1] = d => f \in disk
    <3> SUFFICES ASSUME NEW f \in disk', f[1] = d PROVE f \in disk
      OBVIOUS
    <3>1. f[2] \in Nat /\ f = <<d, f[2]>>
      OBVIOUS
    <3> QED BY <3>1
  <2> QED BY <2>1 DEF Files, File, Request, Job
<1>4. WholeSoFar(d)'
  <2>1. row[d].file \in Nat /\ attempt[d] \in Nat
    BY DEF DatasetTypeOK
  <2> QED BY <2>1 DEF WholeSoFar, At, DerivedFeatures, File, Request, Job
<1> QED BY <1>1, <1>2, <1>3, <1>4

\* A step of the handlers of one dataset, or a fault that meets it.
LEMMA OneDataset ==
    ASSUME IngestionInv, NEW d \in Datasets, DatasetTypeOK', DatasetInv(d)',
           \A h \in Handlers : h[1] # d => pc'[h] = pc[h],
           \A e \in Datasets \ {d} : /\ row'[e] = row[e] /\ features'[e] = features[e]
                                    /\ attempt'[e] = attempt[e] /\ batch'[e] = batch[e],
           \A f \in Datasets \X Nat : f[1] # d => (f \in disk' <=> f \in disk),
           hit \subseteq hit', killed \subseteq killed', retried \subseteq retried',
           UNCHANGED clientVars,
           \A e \in events' : e \in events \/ (e.dataset = d /\ (e.status = "ready" => Settled(d)')),
           Settled(d) => Settled(d)' \/ d \in retried'
    PROVE  IngestionInv'
<1>1. ASSUME NEW e \in Datasets, e # d
      PROVE  /\ pc'[Request(e)] = pc[Request(e)] /\ pc'[Job(e)] = pc[Job(e)]
             /\ row'[e] = row[e] /\ features'[e] = features[e]
             /\ attempt'[e] = attempt[e] /\ batch'[e] = batch[e]
  BY <1>1, HandlerNames DEF Request, Job
<1>2. ASSUME NEW e \in Datasets PROVE DatasetInv(e)'
  <2>1. CASE e = d
    BY <2>1
  <2>2. CASE e # d
    <3>1. \A n \in Nat : <<e, n>> \in disk' <=> <<e, n>> \in disk
      BY <2>2
    <3>2. disk' \in SUBSET (Datasets \X Nat)
      BY DEF DatasetTypeOK
    <3> QED BY <1>1, <2>2, <3>1, <3>2, OtherDataset
  <2> QED BY <2>1, <2>2
<1>3. ASSUME NEW e \in Datasets, Settled(e) PROVE Settled(e)' \/ e \in retried'
  <2>1. CASE e = d
    BY <1>3, <2>1
  <2>2. CASE e # d
    BY <1>1, <1>3, <2>2 DEF Settled, Request, Job
  <2> QED BY <2>1, <2>2
<1>4. BrowserInv'
  <2>1. UNCHANGED <<ui, current, subscribed, waiting>>
    BY DEF clientVars
  <2>2. ASSUME NEW e \in events', e.status = "ready"
        PROVE  e.dataset \in retried' \/ Settled(e.dataset)'
    <3>1. CASE e \in events
      <4>1. e.dataset \in Datasets /\ (e.dataset \in retried \/ Settled(e.dataset))
        BY <2>2, <3>1 DEF IngestionInv, BrowserInv, DatasetTypeOK
      <4> DEFINE x == e.dataset
      <4>2. x \in retried' \/ Settled(x)'
        BY <1>3, <4>1
      <4> QED BY <4>2
    <3>2. CASE e.dataset = d /\ Settled(d)'
      BY <3>2 DEF Settled, Request, Job
    <3> QED BY <2>2, <3>1, <3>2
  <2>3. ASSUME ui' = "completed"
        PROVE  current' \in Datasets /\ (current' \in retried' \/ Settled(current)')
    <3>1. current \in Datasets /\ (current \in retried \/ Settled(current))
      BY <2>1, <2>3 DEF IngestionInv, BrowserInv
    <3>2. PICK x \in Datasets : x = current
      BY <3>1
    <3>3. x \in retried' \/ Settled(x)'
      BY <1>3, <3>1, <3>2
    <3> QED BY <2>1, <3>2, <3>3 DEF Settled, Request, Job
  <2> QED BY <2>1, <2>2, <2>3 DEF IngestionInv, BrowserInv
<1> QED BY <1>2, <1>4 DEF IngestionInv

LEMMA RequestMoves ==
    ASSUME DatasetTypeOK, NEW d \in Datasets, NEW from, NEW to \in Steps, Go(Request(d), from, to)
    PROVE  /\ pc[Request(d)] = from /\ pc'[Request(d)] = to /\ pc'[Job(d)] = pc[Job(d)]
           /\ \A h \in Handlers : h[1] # d => pc'[h] = pc[h]
           /\ pc' \in [Handlers -> Steps]
BY HandlerNames DEF Go, DatasetTypeOK, Request

LEMMA JobMoves ==
    ASSUME DatasetTypeOK, NEW d \in Datasets, NEW from, NEW to \in Steps, Go(Job(d), from, to)
    PROVE  /\ pc[Job(d)] = from /\ pc'[Job(d)] = to /\ pc'[Request(d)] = pc[Request(d)]
           /\ \A h \in Handlers : h[1] # d => pc'[h] = pc[h]
           /\ pc' \in [Handlers -> Steps]
BY HandlerNames DEF Go, DatasetTypeOK, Job

LEMMA Faults ==
    ASSUME DatasetTypeOK, NEW d \in Datasets, NoFault \/ Fault \/ Unhandled(d)
    PROVE  /\ hit \subseteq hit' /\ hit' \in SUBSET Datasets /\ killed' = killed /\ retried' = retried
           /\ killed' \in SUBSET hit' /\ retried' \in SUBSET Datasets
           /\ Unhandled(d) => d \in hit'
BY DEF NoFault, Fault, Unhandled, historyVars, DatasetTypeOK

-----------------------------------------------------------------------------
(* The request *)

LEMMA SaveKeeps == ASSUME IngestionInv, NEW d \in Datasets, Save(d) PROVE IngestionInv'
<1> DEFINE file == IF d \in Remote THEN 0 ELSE 1
           status == IF d \in Remote THEN "pending" ELSE "processing"
<1> USE DEF IngestionInv
<1>1. /\ pc[Request(d)] = "save" /\ pc'[Request(d)] = "announce" /\ pc'[Job(d)] = pc[Job(d)]
      /\ \A h \in Handlers : h[1] # d => pc'[h] = pc[h]
      /\ pc' \in [Handlers -> Steps]
  BY RequestMoves DEF Save, Steps
<1>2. /\ row' = [row EXCEPT ![d] = [status |-> status, file |-> file]]
      /\ UNCHANGED <<features, attempt, batch, events>> /\ UNCHANGED clientVars
      /\ \/ disk' = (IF d \in Remote THEN disk ELSE disk \cup {<<d, file>>})
            /\ NoFault
         \/ d \notin Remote /\ Unhandled(d) /\ disk' = disk
  BY DEF Save, NoFile, handlerVars
<1>3. /\ row'[d] = [status |-> status, file |-> file]
      /\ \A e \in Datasets \ {d} : row'[e] = row[e]
      /\ row' \in [Datasets -> [status : Status, file : Nat]]
  BY <1>2 DEF DatasetTypeOK, Status
<1>4. /\ hit \subseteq hit' /\ hit' \in SUBSET Datasets /\ killed' = killed /\ retried' = retried
      /\ killed' \in SUBSET hit' /\ retried' \in SUBSET Datasets
      /\ Unhandled(d) => d \in hit'
  BY <1>2, Faults
<1>5. /\ disk' \in SUBSET (Datasets \X Nat)
      /\ \A f \in Datasets \X Nat : f[1] # d => (f \in disk' <=> f \in disk)
      /\ d \in Remote => disk' = disk
      /\ d \notin Remote /\ d \notin hit' => <<d, row'[d].file>> \in disk'
  BY <1>2, <1>3, <1>4 DEF DatasetTypeOK
<1>6. DatasetTypeOK'
  BY <1>1, <1>2, <1>3, <1>4, <1>5 DEF DatasetTypeOK
<1>7. pc[Job(d)] = "none" /\ row[d].status = "none"
  BY <1>1 DEF DatasetInv, Placed
<1>8. DatasetInv(d)'
  <2>1. Placed(d)'
    BY <1>1, <1>3, <1>7 DEF Placed, Request, Job, Deriving, Finalising
  <2>2. OneFile(d)'
    BY <1>1, <1>2, <1>7 DEF DatasetInv, OneFile, Request, Job
  <2>3. Files(d)'
    BY <1>1, <1>2, <1>3, <1>4, <1>5, <1>7 DEF DatasetInv, Files, File, Request, Job, Deriving
  <2>4. WholeSoFar(d)'
    BY <1>1, <1>2, <1>3, <1>4, <1>5, <1>7 DEF DatasetInv, WholeSoFar, At, Request, Job, Deriving
  <2> QED BY <2>1, <2>2, <2>3, <2>4 DEF DatasetInv
<1>9. ~Settled(d)
  BY <1>7 DEF Settled
<1> QED BY <1>1, <1>2, <1>3, <1>4, <1>5, <1>6, <1>8, <1>9, OneDataset

LEMMA AnnounceNewKeeps == ASSUME IngestionInv, NEW d \in Datasets, AnnounceNew(d) PROVE IngestionInv'
<1> USE DEF IngestionInv
<1>1. PICK to \in {"dispatch", "preview", "error"} :
          /\ Go(Request(d), "announce", to)
          /\ to = "dispatch" => d \in Remote
          /\ to = "preview" => d \notin Remote
          /\ to = "error" => Unhandled(d)
          /\ NoFault \/ Unhandled(d)
          /\ Announce(d) \/ events' = events
          /\ UNCHANGED <<row, features, disk, attempt, batch>> /\ UNCHANGED clientVars
  BY DEF AnnounceNew, serverVars, handlerVars
<1>2. /\ pc[Request(d)] = "announce" /\ pc'[Request(d)] = to /\ pc'[Job(d)] = pc[Job(d)]
      /\ \A h \in Handlers : h[1] # d => pc'[h] = pc[h]
      /\ pc' \in [Handlers -> Steps]
  BY <1>1, RequestMoves DEF Steps, Finalising
<1>3. /\ hit \subseteq hit' /\ hit' \in SUBSET Datasets /\ killed' = killed /\ retried' = retried
      /\ killed' \in SUBSET hit' /\ retried' \in SUBSET Datasets
      /\ Unhandled(d) => d \in hit'
  BY <1>1, Faults
<1>4. pc[Job(d)] = "none" /\ row[d].status \in {"pending", "processing"}
  BY <1>2 DEF DatasetInv, Placed
<1>5. /\ events' \in SUBSET [dataset : Datasets, attempt : Nat, status : Status]
      /\ \A e \in events' : e \in events \/ (e.dataset = d /\ e.status # "ready")
  <2>1. CASE events' = events
    BY <2>1 DEF DatasetTypeOK
  <2>2. CASE Announce(d)
    <3> DEFINE new == [dataset |-> d, attempt |-> attempt[d], status |-> row[d].status]
    <3>1. events' = events \cup {new}
      BY <2>2 DEF Announce
    <3>2. new \in [dataset : Datasets, attempt : Nat, status : Status] /\ new.dataset = d /\ new.status # "ready"
      BY <1>4 DEF DatasetTypeOK
    <3> QED BY <3>1, <3>2 DEF DatasetTypeOK
  <2> QED BY <1>1, <2>1, <2>2
<1>6. DatasetTypeOK'
  BY <1>1, <1>2, <1>3, <1>5 DEF DatasetTypeOK
<1>7. DatasetInv(d)'
  <2>1. Placed(d)'
    BY <1>1, <1>2, <1>4 DEF DatasetInv, Placed, Request, Job, Deriving, Finalising
  <2>2. OneFile(d)'
    BY <1>1, <1>2, <1>4 DEF DatasetInv, OneFile, Request, Job
  <2>3. Files(d)'
    BY <1>1, <1>2, <1>3, <1>4 DEF DatasetInv, Files, File, Request, Job, Deriving
  <2>4. WholeSoFar(d)'
    BY <1>1, <1>2, <1>3, <1>4 DEF DatasetInv, WholeSoFar, At, Request, Job, Deriving
  <2> QED BY <2>1, <2>2, <2>3, <2>4 DEF DatasetInv
<1>8. ~Settled(d)
  BY <1>4 DEF Settled
<1> QED BY <1>1, <1>2, <1>3, <1>5, <1>6, <1>7, <1>8, OneDataset

LEMMA DispatchKeeps == ASSUME IngestionInv, NEW d \in Datasets, Dispatch(d) PROVE IngestionInv'
<1> USE DEF IngestionInv
<1>1. /\ pc[Request(d)] = "dispatch"
      /\ NoFault \/ Unhandled(d)
      /\ UNCHANGED <<row, features, disk, attempt, batch, events>> /\ UNCHANGED clientVars
  BY DEF Dispatch, serverVars, handlerVars
<1>2. PICK to \in {"ok", "error"} :
          /\ to = "error" => Unhandled(d)
          /\ pc'[Request(d)] = to
          /\ pc'[Job(d)] = (IF to = "ok" THEN "queued" ELSE pc[Job(d)])
          /\ \A h \in Handlers : h[1] # d => pc'[h] = pc[h]
          /\ pc' \in [Handlers -> Steps]
  <2>1. /\ pc \in [Handlers -> Steps] /\ Request(d) \in Handlers /\ Job(d) \in Handlers
        /\ Request(d) # Job(d) /\ Request(d)[1] = d /\ Job(d)[1] = d
    BY HandlerNames DEF DatasetTypeOK, Request, Job
  <2>2. CASE pc' = [pc EXCEPT ![Request(d)] = "ok", ![Job(d)] = "queued"]
    BY <2>1, <2>2 DEF Steps
  <2>3. CASE pc' = [pc EXCEPT ![Request(d)] = "error"] /\ Unhandled(d)
    BY <2>1, <2>3 DEF Steps
  <2> QED BY <2>2, <2>3 DEF Dispatch
<1>3. /\ hit \subseteq hit' /\ hit' \in SUBSET Datasets /\ killed' = killed /\ retried' = retried
      /\ killed' \in SUBSET hit' /\ retried' \in SUBSET Datasets
      /\ Unhandled(d) => d \in hit'
  BY <1>1, Faults
<1>4. pc[Job(d)] = "none" /\ d \in Remote
  BY <1>1 DEF DatasetInv, Placed, Finalising
<1>5. DatasetTypeOK'
  BY <1>1, <1>2, <1>3 DEF DatasetTypeOK
<1>6. DatasetInv(d)'
  <2>1. Placed(d)'
    BY <1>1, <1>2, <1>4 DEF DatasetInv, Placed, Request, Job, Deriving, Finalising
  <2>2. OneFile(d)'
    BY <1>1, <1>2, <1>4 DEF DatasetInv, OneFile, Request, Job
  <2>3. Files(d)'
    BY <1>1, <1>2, <1>3, <1>4 DEF DatasetInv, Files, File, Request, Job, Deriving
  <2>4. WholeSoFar(d)'
    BY <1>1, <1>2, <1>3, <1>4 DEF DatasetInv, WholeSoFar, At, Request, Job, Deriving
  <2> QED BY <2>1, <2>2, <2>3, <2>4 DEF DatasetInv
<1>7. ~Settled(d)
  BY <1>4 DEF Settled
<1> QED BY <1>1, <1>2, <1>3, <1>5, <1>6, <1>7, OneDataset

-----------------------------------------------------------------------------
(* The job *)

\* A job is that of a remote dataset, whose request is over.
LEMMA BusyJob ==
    ASSUME IngestionInv, NEW d \in Datasets, pc[Job(d)] # "none"
    PROVE  d \in Remote /\ pc[Request(d)] \in {"ok", "error", "answered"}
BY DEF IngestionInv, DatasetInv, Placed

\* Writes of the row.
LEMMA RowStep ==
    ASSUME IngestionInv, NEW d \in Datasets, NEW from, NEW to \in Steps,
           NEW status \in Status, NEW file \in Nat,
           Go(Job(d), from, to), row' = [row EXCEPT ![d] = [status |-> status, file |-> file]],
           \/ /\ from = "queued" /\ to = "announceStart"
              /\ status = "processing" /\ file = row[d].file
           \/ /\ from = "name" /\ to = "preview"
              /\ status = row[d].status /\ file = attempt[d]
           \/ /\ from = "saveFailed" /\ to = "announceFailed"
              /\ status = "failed" /\ file = 0,
           UNCHANGED <<features, disk, attempt, batch, events, hit, killed, retried>>,
           UNCHANGED clientVars
    PROVE  IngestionInv'
<1> USE DEF IngestionInv
<1>1. \/ /\ from = "queued" /\ to = "announceStart"
         /\ status = "processing" /\ file = row[d].file
      \/ /\ from = "name" /\ to = "preview"
         /\ status = row[d].status /\ file = attempt[d]
      \/ /\ from = "saveFailed" /\ to = "announceFailed"
         /\ status = "failed" /\ file = 0
  OBVIOUS
<1>2. /\ pc[Job(d)] = from /\ pc'[Job(d)] = to /\ pc'[Request(d)] = pc[Request(d)]
      /\ \A h \in Handlers : h[1] # d => pc'[h] = pc[h]
      /\ pc' \in [Handlers -> Steps]
  BY JobMoves
<1>3. /\ row'[d] = [status |-> status, file |-> file]
      /\ \A e \in Datasets \ {d} : row'[e] = row[e]
      /\ row' \in [Datasets -> [status : Status, file : Nat]]
  BY DEF DatasetTypeOK
<1>4. row'[d].status = status /\ row'[d].file = file
  BY <1>3
<1>5. d \in Remote /\ pc[Request(d)] \in {"ok", "error", "answered"}
  BY <1>2, BusyJob
<1>6. DatasetTypeOK'
  BY <1>1, <1>2, <1>3 DEF DatasetTypeOK
<1>7. DatasetInv(d)'
  <2>1. Placed(d)'
    BY <1>1, <1>2, <1>4, <1>5 DEF DatasetInv, Placed, Request, Job, Deriving, Finalising
  <2>2. OneFile(d)'
    BY <1>1, <1>2, <1>4, <1>5 DEF DatasetInv, OneFile, Request, Job
  <2>3. Files(d)'
    <3>1. status = "failed" => to = "announceFailed" /\ file = 0
      BY <1>1, <1>2 DEF DatasetInv, Files
    <3> QED BY <1>1, <1>2, <1>4, <1>5, <3>1 DEF DatasetInv, Files, File, Request, Job, Deriving, NoFile
  <2>4. WholeSoFar(d)'
    <3>1. At(d) = from /\ At(d)' = to
      BY <1>2, <1>5 DEF At, Request, Job
    <3>2. from = "name" /\ d \notin hit => status # "ready" /\ <<d, file>> \in disk
      BY <1>1, <1>2, <3>1 DEF DatasetInv, WholeSoFar, File, Deriving
    <3>3. to \notin {"clear", "insert", "announceReady", "ack", "done", "ok", "name"} /\ pc'[Job(d)] = to
      BY <1>1, <1>2
    <3>4. from = "name" <=> to = "preview"
      BY <1>1
    <3>5. status = "ready" => from = "name"
      BY <1>1
    <3>6. d \notin Mapped => features[d] = {}
      BY DEF DatasetInv, WholeSoFar
    <3>7. d \notin hit => status # "ready" /\ (to = "preview" => <<d, file>> \in disk)
      BY <3>2, <3>4, <3>5
    <3>8. UNCHANGED <<features, disk, hit>>
      OBVIOUS
    <3> HIDE DEF IngestionInv
    <3> QED BY <1>4, <1>5, <3>1, <3>3, <3>6, <3>7, <3>8 DEF WholeSoFar, Deriving
  <2> QED BY <2>1, <2>2, <2>3, <2>4 DEF DatasetInv
<1>8. ~Settled(d)
  BY <1>1, <1>2, <1>5 DEF Settled
<1> QED BY <1>1, <1>2, <1>3, <1>6, <1>7, <1>8, OneDataset

LEMMA RowKeeps ==
    ASSUME IngestionInv, NEW d \in Datasets, Begin(d) \/ NameFile(d) \/ SaveFailed(d)
    PROVE  IngestionInv'
<1>1. row[d] \in [status : Status, file : Nat] /\ attempt[d] \in Nat
  BY DEF IngestionInv, DatasetTypeOK
<1>2. row[d].status \in Status /\ row[d].file \in Nat
  BY <1>1
<1>3. CASE Begin(d)
  <2>1. row' = [row EXCEPT ![d] = [row[d] EXCEPT !.status = "processing"]]
    BY <1>3 DEF Begin
  <2>2. [row[d] EXCEPT !.status = "processing"] = [status |-> "processing", file |-> row[d].file]
    BY <1>1
  <2>3. row' = [row EXCEPT ![d] = [status |-> "processing", file |-> row[d].file]]
    BY <2>1, <2>2
  <2>4. /\ Go(Job(d), "queued", "announceStart") /\ "announceStart" \in Steps /\ "processing" \in Status
        /\ UNCHANGED <<features, disk, attempt, batch, events, hit, killed, retried>>
        /\ UNCHANGED clientVars
    BY <1>3 DEF Begin, handlerVars, historyVars, Status, Steps
  <2> QED BY <1>2, <2>3, <2>4, RowStep
<1>4. CASE NameFile(d)
  <2>1. row' = [row EXCEPT ![d] = [row[d] EXCEPT !.file = attempt[d]]]
    BY <1>4 DEF NameFile
  <2>2. [row[d] EXCEPT !.file = attempt[d]] = [status |-> row[d].status, file |-> attempt[d]]
    BY <1>1
  <2>3. row' = [row EXCEPT ![d] = [status |-> row[d].status, file |-> attempt[d]]]
    BY <2>1, <2>2
  <2>4. /\ Go(Job(d), "name", "preview") /\ "preview" \in Steps
        /\ UNCHANGED <<features, disk, attempt, batch, events, hit, killed, retried>>
        /\ UNCHANGED clientVars
    BY <1>4 DEF NameFile, handlerVars, historyVars, Steps, Finalising
  <2> QED BY <1>1, <1>2, <2>3, <2>4, RowStep
<1>5. CASE SaveFailed(d)
  <2>1. /\ Go(Job(d), "saveFailed", "announceFailed") /\ "announceFailed" \in Steps /\ "failed" \in Status
        /\ row' = [row EXCEPT ![d] = [status |-> "failed", file |-> 0]] /\ 0 \in Nat
        /\ UNCHANGED <<features, disk, attempt, batch, events, hit, killed, retried>>
        /\ UNCHANGED clientVars
    BY <1>5 DEF SaveFailed, handlerVars, historyVars, NoFile, Status, Steps
  <2> QED BY <2>1, RowStep
<1> QED BY <1>3, <1>4, <1>5

\* The other steps of the job: broadcasts, the file on the disk, and the end.
JobGoes(d, from, to) ==
    \/ from = "announceStart" /\ to = "download" /\ disk' = disk
    \/ from = "announceStart" /\ to = "failed" /\ disk' = disk /\ Unhandled(d)
    \/ from = "download" /\ to = "name" /\ disk' = disk \cup {File(d)}
    \/ from = "download" /\ to = "delete" /\ disk' = disk
    \/ from = "delete" /\ to = "saveFailed" /\ disk' = disk \ {File(d)}
    \/ from = "announceFailed" /\ to = "failed" /\ disk' = disk
    \/ from = "announceReady" /\ to \in {"ack", "delete"} /\ disk' = disk
    \/ from = "ack" /\ to = "done" /\ disk' = disk

LEMMA NewEvent ==
    ASSUME DatasetTypeOK, NEW d \in Datasets, Announce(d) \/ events' = events
    PROVE  /\ events' \in SUBSET [dataset : Datasets, attempt : Nat, status : Status]
           /\ \A e \in events' : e \in events \/ (e.dataset = d /\ e.status = row[d].status)
<1>1. CASE events' = events
  BY <1>1 DEF DatasetTypeOK
<1>2. CASE Announce(d)
  <2> DEFINE new == [dataset |-> d, attempt |-> attempt[d], status |-> row[d].status]
  <2>1. events' = events \cup {new}
    BY <1>2 DEF Announce
  <2>2. new \in [dataset : Datasets, attempt : Nat, status : Status]
    BY DEF DatasetTypeOK
  <2> QED BY <2>1, <2>2 DEF DatasetTypeOK
<1> QED BY <1>1, <1>2

LEMMA JobStepKeeps ==
    ASSUME IngestionInv, NEW d \in Datasets, NEW from, NEW to \in Steps, Go(Job(d), from, to),
           JobGoes(d, from, to), NoFault \/ Fault \/ Unhandled(d),
           \/ events' = events
           \/ Announce(d) /\ from \in {"announceStart", "announceFailed", "announceReady"} /\ to # "delete",
           UNCHANGED <<row, features, attempt, batch>>, UNCHANGED clientVars
    PROVE  IngestionInv'
<1> USE DEF IngestionInv
<1>1. /\ pc[Job(d)] = from /\ pc'[Job(d)] = to /\ pc'[Request(d)] = pc[Request(d)]
      /\ \A h \in Handlers : h[1] # d => pc'[h] = pc[h]
      /\ pc' \in [Handlers -> Steps]
  BY JobMoves
<1>2. /\ hit \subseteq hit' /\ hit' \in SUBSET Datasets /\ killed' = killed /\ retried' = retried
      /\ killed' \in SUBSET hit' /\ retried' \in SUBSET Datasets
      /\ Unhandled(d) => d \in hit'
  BY Faults
<1>3. d \in Remote /\ pc[Request(d)] \in {"ok", "error", "answered"}
  BY <1>1, BusyJob DEF JobGoes
<1>4. File(d) = <<d, attempt[d]>> /\ File(d) \in Datasets \X Nat /\ File(d)[1] = d
  BY DEF File, DatasetTypeOK
<1>5. /\ disk' \in SUBSET (Datasets \X Nat)
      /\ \A f \in Datasets \X Nat : f[1] # d => (f \in disk' <=> f \in disk)
  <2>1. disk \in SUBSET (Datasets \X Nat)
    BY DEF DatasetTypeOK
  <2>2. disk' \in {disk, disk \cup {File(d)}, disk \ {File(d)}}
    BY DEF JobGoes
  <2> QED BY <1>4, <2>1, <2>2
<1>6. /\ events' \in SUBSET [dataset : Datasets, attempt : Nat, status : Status]
      /\ \A e \in events' : e \in events \/ (e.dataset = d /\ e.status = row[d].status)
  BY NewEvent
<1>7. DatasetTypeOK'
  BY <1>1, <1>2, <1>5, <1>6 DEF DatasetTypeOK
<1>8. DatasetInv(d)'
  <2>1. Placed(d) /\ OneFile(d) /\ Files(d) /\ WholeSoFar(d)
    BY DEF DatasetInv
  <2> HIDE DEF IngestionInv
  <2>2. Placed(d)'
    BY <1>1, <1>3, <2>1 DEF JobGoes, Placed, Request, Job, Deriving, Finalising
  <2>3. OneFile(d)'
    BY <1>1, <1>3, <2>1 DEF JobGoes, OneFile, Request, Job
  <2>4. Files(d)'
    <3>1. File(d)' = File(d)
      BY DEF File
    <3>2. row[d].status = "failed" => to = "failed" /\ row[d].file = NoFile
      BY <1>1, <2>1 DEF Files, Placed, JobGoes
    <3>3. ASSUME d \notin killed, NEW f \in disk', f[1] = d
          PROVE  /\ f = File(d)
                 /\ to \in {"name", "preview", "ack", "done", "delete"} \cup Deriving
      <4>1. f \in disk => /\ f = File(d)
                         /\ from \in {"name", "preview", "ack", "done", "delete"} \cup Deriving
        BY <1>1, <1>3, <2>1, <3>3 DEF Files
      <4> QED BY <3>3, <4>1 DEF JobGoes, Deriving
    <3> QED BY <1>1, <1>2, <3>1, <3>2, <3>3 DEF Files, Job
  <2>5. WholeSoFar(d)'
    <3>1. At(d) = from /\ At(d)' = to
      BY <1>1, <1>3 DEF At, Request, Job
    <3>2. CASE from = "announceReady" \/ from = "ack"
      BY <1>1, <1>2, <1>3, <2>1, <3>1, <3>2 DEF JobGoes, WholeSoFar, DerivedFeatures, Deriving, Job
    <3>3. CASE from \notin {"announceReady", "ack"}
      <4>1. d \notin Mapped => features[d] = {}
        BY <2>1 DEF WholeSoFar
      <4>2. to \in {"download", "failed", "name", "delete", "saveFailed"} /\ (to = "name" => File(d) \in disk')
        BY <1>4, <3>3 DEF JobGoes
      <4>3. d \notin hit /\ row[d].status = "ready" => from = "delete" /\ to = "saveFailed"
        BY <1>1, <2>1, <3>1, <3>3 DEF WholeSoFar, Placed, JobGoes, Deriving
      <4>4. File(d)' = File(d)
        BY DEF File
      <4> QED BY <1>1, <1>2, <1>3, <3>1, <4>1, <4>2, <4>3, <4>4 DEF WholeSoFar, Deriving
    <3> QED BY <3>2, <3>3
  <2> QED BY <2>2, <2>3, <2>4, <2>5 DEF DatasetInv
<1>9. Settled(d) => Settled(d)'
  BY <1>1, <1>3 DEF Settled, JobGoes, Request, Job
<1>10. \A e \in events' : e \in events \/ (e.dataset = d /\ (e.status = "ready" => Settled(d)'))
  <2>1. row[d].status = "ready" /\ events' # events => to = "ack"
    BY <1>1 DEF JobGoes, DatasetInv, Placed
  <2>2. row[d].status = "ready" /\ to = "ack" => Settled(d)'
    BY <1>1, <1>3 DEF Settled, Request, Job
  <2> QED BY <1>6, <2>1, <2>2
<1> QED BY <1>1, <1>2, <1>5, <1>7, <1>8, <1>9, <1>10, OneDataset

LEMMA JobKeeps ==
    ASSUME IngestionInv, NEW d \in Datasets,
           AnnounceStart(d) \/ DownloadFile(d) \/ DeleteFile(d) \/ AnnounceFailed(d) \/ Ack(d)
    PROVE  IngestionInv'
<1> {"announceStart", "download", "failed", "name", "delete", "saveFailed", "ack", "done"} \subseteq Steps
  BY DEF Steps
<1>1. CASE AnnounceStart(d)
  <2>1. /\ UNCHANGED <<row, features, disk, attempt, batch>> /\ UNCHANGED clientVars
        /\ \/ Go(Job(d), "announceStart", "download") /\ Announce(d) /\ NoFault
           \/ Go(Job(d), "announceStart", "failed") /\ Unhandled(d) /\ events' = events
    BY <1>1 DEF AnnounceStart, serverVars, handlerVars
  <2> QED BY <2>1, JobStepKeeps DEF JobGoes
<1>2. CASE DownloadFile(d)
  <2>1. /\ UNCHANGED <<row, features, attempt, batch, events>> /\ UNCHANGED clientVars
        /\ \/ Go(Job(d), "download", "name") /\ disk' = disk \cup {File(d)} /\ NoFault
           \/ Go(Job(d), "download", "delete") /\ Fault /\ disk' = disk
    BY <1>2 DEF DownloadFile, handlerVars
  <2> QED BY <2>1, JobStepKeeps DEF JobGoes
<1>3. CASE DeleteFile(d)
  <2>1. /\ UNCHANGED <<row, features, attempt, batch, events>> /\ UNCHANGED clientVars
        /\ Go(Job(d), "delete", "saveFailed") /\ disk' = disk \ {File(d)} /\ NoFault
    BY <1>3 DEF DeleteFile, handlerVars, NoFault
  <2> QED BY <2>1, JobStepKeeps DEF JobGoes
<1>4. CASE AnnounceFailed(d)
  <2>1. /\ UNCHANGED <<row, features, disk, attempt, batch>> /\ UNCHANGED clientVars
        /\ Go(Job(d), "announceFailed", "failed")
        /\ Announce(d) \/ events' = events
        /\ NoFault \/ Fault
    BY <1>4 DEF AnnounceFailed, serverVars, handlerVars
  <2> QED BY <2>1, JobStepKeeps DEF JobGoes
<1>5. CASE Ack(d)
  <2>1. /\ UNCHANGED <<row, features, disk, attempt, batch, events>> /\ UNCHANGED clientVars
        /\ Go(Job(d), "ack", "done") /\ NoFault
    BY <1>5 DEF Ack, serverVars, handlerVars, NoFault
  <2> QED BY <2>1, JobStepKeeps DEF JobGoes
<1> QED BY <1>1, <1>2, <1>3, <1>4, <1>5

-----------------------------------------------------------------------------
(* Finalising *)

\* Who finalises a dataset: its job if it is remote, its request if not.
LEMMA Finaliser ==
    ASSUME IngestionInv, NEW h \in Handlers, NEW d, d = h[1], NEW to \in Steps,
           NEW from \in Finalising, Go(h, from, to)
    PROVE  /\ d \in Datasets /\ At(d) = from /\ At(d)' = to
           /\ \A g \in Handlers : g[1] # d => pc'[g] = pc[g]
           /\ pc' \in [Handlers -> Steps]
           /\ IF d \in Remote
              THEN /\ h = Job(d) /\ pc'[Request(d)] = pc[Request(d)]
                   /\ pc[Job(d)] = from /\ pc'[Job(d)] = to
                   /\ pc[Request(d)] \in {"ok", "error", "answered"}
              ELSE /\ h = Request(d) /\ pc'[Job(d)] = "none" /\ pc[Job(d)] = "none"
                   /\ pc[Request(d)] = from /\ pc'[Request(d)] = to
<1>1. d \in Datasets /\ (h = Request(d) \/ h = Job(d))
  BY DEF Handlers, Request, Job
<1>2. pc[h] = from /\ from \notin {"none", "ok", "error", "answered", "save", "announce", "dispatch"}
  BY DEF Go, Finalising
<1>3. CASE h = Job(d)
  <2>1. d \in Remote /\ pc[Request(d)] \in {"ok", "error", "answered"}
    BY <1>1, <1>2, <1>3, BusyJob
  <2>2. /\ pc[Job(d)] = from /\ pc'[Job(d)] = to /\ pc'[Request(d)] = pc[Request(d)]
        /\ \A g \in Handlers : g[1] # d => pc'[g] = pc[g]
        /\ pc' \in [Handlers -> Steps]
    BY <1>1, <1>3, JobMoves DEF IngestionInv
  <2> QED BY <1>1, <1>3, <2>1, <2>2 DEF At, Request, Job
<1>4. CASE h = Request(d)
  <2>1. d \notin Remote /\ pc[Job(d)] = "none"
    BY <1>1, <1>2, <1>4 DEF IngestionInv, DatasetInv, Placed
  <2>2. /\ pc[Request(d)] = from /\ pc'[Request(d)] = to /\ pc'[Job(d)] = pc[Job(d)]
        /\ \A g \in Handlers : g[1] # d => pc'[g] = pc[g]
        /\ pc' \in [Handlers -> Steps]
    BY <1>1, <1>4, RequestMoves DEF IngestionInv
  <2> QED BY <1>1, <1>4, <2>1, <2>2 DEF At, Request, Job
<1> QED BY <1>1, <1>3, <1>4

LEMMA MakeReadyKeeps == ASSUME IngestionInv, NEW h \in Handlers, MakeReady(h) PROVE IngestionInv'
<1> DEFINE d == h[1]
           next == IF d \in Mapped THEN "clear" ELSE "announceReady"
<1> USE DEF IngestionInv
<1>1. PICK to \in {next, "delete", "error"} :
          /\ Go(h, "preview", to)
          /\ IF to = next THEN row' = [row EXCEPT ![d].status = "ready"] /\ NoFault
                          ELSE row' = row /\ (Fault \/ Unhandled(d))
          /\ h = Job(d) => to # "error"
          /\ h # Job(d) => to # "delete" /\ (to = "error" => Unhandled(d))
          /\ UNCHANGED <<features, disk, attempt, batch, events>> /\ UNCHANGED clientVars
  <2>1. d \in Datasets /\ (h = Request(d) \/ h = Job(d))
    BY DEF Handlers, Request, Job
  <2>2. h[2] = "job" <=> h = Job(d)
    BY <2>1 DEF Request, Job
  <2> QED BY <2>2 DEF MakeReady, Thrown, handlerVars
<1>2. to \in Steps /\ "preview" \in Finalising
  BY DEF Steps, Finalising
<1>3. /\ d \in Datasets /\ At(d) = "preview" /\ At(d)' = to
      /\ \A g \in Handlers : g[1] # d => pc'[g] = pc[g]
      /\ pc' \in [Handlers -> Steps]
      /\ IF d \in Remote
         THEN /\ h = Job(d) /\ pc'[Request(d)] = pc[Request(d)]
              /\ pc[Job(d)] = "preview" /\ pc'[Job(d)] = to
              /\ pc[Request(d)] \in {"ok", "error", "answered"}
         ELSE /\ h = Request(d) /\ pc'[Job(d)] = "none" /\ pc[Job(d)] = "none"
              /\ pc[Request(d)] = "preview" /\ pc'[Request(d)] = to
  BY <1>1, <1>2, Finaliser
<1>4. /\ hit \subseteq hit' /\ hit' \in SUBSET Datasets /\ killed' = killed /\ retried' = retried
      /\ killed' \in SUBSET hit' /\ retried' \in SUBSET Datasets
      /\ Unhandled(d) => d \in hit'
  BY <1>1, <1>3, Faults
<1>5. /\ row' \in [Datasets -> [status : Status, file : Nat]]
      /\ \A e \in Datasets \ {d} : row'[e] = row[e]
      /\ row'[d].file = row[d].file
      /\ row'[d].status = IF to = next THEN "ready" ELSE row[d].status
  BY <1>1, <1>3 DEF DatasetTypeOK, Status
<1>6. DatasetTypeOK'
  BY <1>1, <1>3, <1>4, <1>5 DEF DatasetTypeOK
<1>7. DatasetInv(d)'
  <2>1. Placed(d) /\ OneFile(d) /\ Files(d) /\ WholeSoFar(d)
    BY <1>3 DEF DatasetInv
  <2>2. to = next \/ to = "delete" \/ to = "error"
    OBVIOUS
  <2>3. h # Job(d) => d \notin Remote
    BY <1>3
  <2> HIDE DEF IngestionInv
  <2>4. Placed(d)'
    BY <1>1, <1>3, <1>5, <2>1 DEF Placed, Deriving, Finalising, Request, Job
  <2>5. OneFile(d)'
    BY <1>1, <1>3, <1>5, <2>1 DEF OneFile, Request, Job
  <2>6. Files(d)'
    BY <1>1, <1>3, <1>4, <1>5, <2>1 DEF Files, File, Deriving, Request, Job
  <2>7. WholeSoFar(d)'
    <3>1. d \notin Mapped => features[d] = {}
      BY <2>1 DEF WholeSoFar
    <3>2. d \notin hit => <<d, row[d].file>> \in disk /\ row[d].status # "ready"
      BY <1>3, <2>1 DEF WholeSoFar, Deriving
    <3>3. to = "error" => d \in hit'
      BY <1>1, <1>4
    <3>4. to = "announceReady" => DerivedFeatures(d)'
      BY <1>1, <3>1 DEF DerivedFeatures
    <3> QED BY <1>1, <1>3, <1>4, <1>5, <3>1, <3>2, <3>3, <3>4 DEF WholeSoFar, Deriving, Request, Job
  <2> QED BY <2>4, <2>5, <2>6, <2>7 DEF DatasetInv
<1>8. ~Settled(d)
  BY <1>3 DEF Settled
<1> QED BY <1>1, <1>3, <1>4, <1>5, <1>6, <1>7, <1>8, OneDataset

\* The derivation of the features: cleared or not, one batch inserted or not.
Derives(d, from, to, more, next) ==
    \/ /\ from = "clear" /\ next = 1 /\ NoFault
       /\ IF <<d, row[d].file>> \in disk
          THEN more = {} /\ to = IF Batches[<<d, row[d].file>>] # 0 THEN "insert" ELSE "announceReady"
          ELSE more = features[d] /\ to = "announceReady"
    \/ /\ from = "insert" /\ NoFault /\ more = features[d] \cup {<<row[d].file, batch[d]>>}
       /\ batch[d] = Batches[<<d, row[d].file>>] /\ to = "announceReady" /\ next = 1
    \/ /\ from = "insert" /\ NoFault /\ more = features[d] \cup {<<row[d].file, batch[d]>>}
       /\ batch[d] # Batches[<<d, row[d].file>>] /\ to = "insert" /\ next = batch[d] + 1
    \/ /\ from = "insert" /\ next = 1 /\ Unhandled(d)
       /\ more = features[d] /\ to = "announceReady"

LEMMA DerivationKeeps ==
    ASSUME IngestionInv, NEW h \in Handlers, NEW d, d = h[1],
           NEW from \in {"clear", "insert"}, NEW to \in {"insert", "announceReady"}, Go(h, from, to),
           NEW more \in SUBSET (Nat \X Nat), features' = [features EXCEPT ![d] = more],
           NEW next \in Nat \ {0}, batch' = [batch EXCEPT ![d] = next],
           Derives(d, from, to, more, next),
           UNCHANGED <<row, disk, attempt, events>>, UNCHANGED clientVars
    PROVE  IngestionInv'
<1> DEFINE file == row[d].file
           many == Batches[<<d, row[d].file>>]
           last == batch[d] = many
           found == <<d, row[d].file>> \in disk
<1> USE DEF IngestionInv
<1>1. /\ \/ /\ from = "clear" /\ next = 1 /\ NoFault
            /\ IF found THEN more = {} /\ to = IF many # 0 THEN "insert" ELSE "announceReady"
                        ELSE more = features[d] /\ to = "announceReady"
         \/ /\ from = "insert" /\ NoFault /\ more = features[d] \cup {<<file, batch[d]>>}
            /\ IF last THEN to = "announceReady" /\ next = 1 ELSE to = "insert" /\ next = batch[d] + 1
         \/ /\ from = "insert" /\ next = 1 /\ Unhandled(d)
            /\ more = features[d] /\ to = "announceReady"
      /\ Go(h, from, to)
      /\ UNCHANGED <<row, disk, attempt, events>> /\ UNCHANGED clientVars
  BY DEF Derives
<1>2. to \in Steps /\ from \in Finalising
  BY DEF Steps, Finalising
<1>3. /\ d \in Datasets /\ At(d) = from /\ At(d)' = to
      /\ \A g \in Handlers : g[1] # d => pc'[g] = pc[g]
      /\ pc' \in [Handlers -> Steps]
      /\ IF d \in Remote
         THEN /\ h = Job(d) /\ pc'[Request(d)] = pc[Request(d)]
              /\ pc[Job(d)] = from /\ pc'[Job(d)] = to
              /\ pc[Request(d)] \in {"ok", "error", "answered"}
         ELSE /\ h = Request(d) /\ pc'[Job(d)] = "none" /\ pc[Job(d)] = "none"
              /\ pc[Request(d)] = from /\ pc'[Request(d)] = to
  BY <1>1, <1>2, Finaliser
<1>4. /\ hit \subseteq hit' /\ hit' \in SUBSET Datasets /\ killed' = killed /\ retried' = retried
      /\ killed' \in SUBSET hit' /\ retried' \in SUBSET Datasets
      /\ Unhandled(d) => d \in hit'
  <2>1. NoFault \/ Fault \/ Unhandled(d)
    BY <1>1
  <2> QED BY <1>3, <2>1, Faults
<1>5. file \in Nat /\ batch[d] \in Nat \ {0}
  BY <1>3 DEF DatasetTypeOK
<1>6. /\ features'[d] = more /\ \A e \in Datasets \ {d} : features'[e] = features[e]
      /\ features' \in [Datasets -> SUBSET (Nat \X Nat)]
  BY <1>1, <1>3 DEF DatasetTypeOK
<1>7. /\ batch'[d] = next /\ next = IF from = "insert" /\ to = "insert" THEN batch[d] + 1 ELSE 1
      /\ \A e \in Datasets \ {d} : batch'[e] = batch[e]
      /\ batch' \in [Datasets -> Nat \ {0}]
  BY <1>1, <1>3, <1>5 DEF DatasetTypeOK
<1>8. DatasetTypeOK'
  BY <1>1, <1>3, <1>4, <1>6, <1>7 DEF DatasetTypeOK
<1>9. DatasetInv(d)'
  <2>1. Placed(d) /\ OneFile(d) /\ Files(d) /\ WholeSoFar(d)
    BY <1>3 DEF DatasetInv
  <2>2. UNCHANGED <<row, disk, attempt>>
    BY <1>1
  <2> HIDE DEF IngestionInv
  <2>3. row[d].status = "ready" /\ d \in Mapped
    BY <1>3, <2>1 DEF Placed, WholeSoFar, Deriving
  <2>4. Placed(d)'
    BY <1>3, <2>1, <2>2, <2>3 DEF Placed, Deriving, Finalising, Request, Job
  <2>5. OneFile(d)'
    <3>1. \A f, g \in more : f[1] = g[1]
      <4>1. more = {} \/ more = features[d] \/ (from = "insert" /\ more = features[d] \cup {<<file, batch[d]>>})
        BY <1>1
      <4>2. CASE more = features[d] \cup {<<file, batch[d]>>} /\ from = "insert"
        <5>1. \A f \in features[d] : f[1] = file
          BY <1>3, <2>1, <4>2 DEF OneFile
        <5> QED BY <4>2, <5>1
      <4> QED BY <2>1, <4>1, <4>2 DEF OneFile
    <3>2. to = "insert" => \A f \in more : f[1] = file
      <4>1. CASE from = "clear"
        BY <1>1, <4>1
      <4>2. CASE from = "insert"
        <5>1. \A f \in features[d] : f[1] = file
          BY <1>3, <2>1, <4>2 DEF OneFile
        <5> QED BY <1>1, <4>2, <5>1
      <4> QED BY <4>1, <4>2
    <3> QED BY <1>3, <1>6, <2>2, <3>1, <3>2 DEF OneFile
  <2>6. Files(d)'
    BY <1>3, <1>4, <2>1, <2>2, <2>3 DEF Files, File, Deriving, Request, Job
  <2>7. WholeSoFar(d)'
    <3>1. d \notin hit' => NoFault /\ found /\ d \notin hit
      BY <1>1, <1>3, <1>4, <2>1 DEF WholeSoFar, Deriving
    <3>2. d \notin hit' /\ to = "insert" => more = {file} \X (1 .. batch'[d] - 1)
      <4>1. CASE from = "clear"
        <5>1. 1 .. batch'[d] - 1 = {}
          BY <1>7, <4>1
        <5> QED BY <1>1, <3>1, <4>1, <5>1
      <4>2. CASE from = "insert"
        <5> SUFFICES ASSUME d \notin hit', to = "insert" PROVE more = {file} \X (1 .. batch'[d] - 1)
          OBVIOUS
        <5>1. features[d] = {file} \X (1 .. batch[d] - 1)
          BY <1>3, <2>1, <3>1, <4>2 DEF WholeSoFar
        <5>2. more = features[d] \cup {<<file, batch[d]>>} /\ batch'[d] - 1 = batch[d]
          BY <1>1, <1>5, <1>7, <4>2
        <5>3. 1 .. batch[d] = (1 .. batch[d] - 1) \cup {batch[d]}
          BY <1>5
        <5> QED BY <5>1, <5>2, <5>3
      <4> QED BY <4>1, <4>2
    <3>3. d \notin hit' /\ to = "announceReady" => more = {file} \X (1 .. many)
      <4> SUFFICES ASSUME d \notin hit', to = "announceReady" PROVE more = {file} \X (1 .. many)
        OBVIOUS
      <4>1. CASE from = "insert"
        <5>1. last /\ more = features[d] \cup {<<file, batch[d]>>}
          BY <1>1, <1>4, <3>1, <4>1
        <5>2. features[d] = {file} \X (1 .. batch[d] - 1)
          BY <1>3, <2>1, <3>1, <4>1 DEF WholeSoFar
        <5>3. 1 .. many = (1 .. batch[d] - 1) \cup {batch[d]}
          BY <1>5, <5>1
        <5> QED BY <5>1, <5>2, <5>3
      <4>2. CASE from = "clear"
        <5>1. many = 0 /\ more = {}
          BY <1>1, <3>1, <4>2
        <5>2. 1 .. many = {}
          BY <5>1
        <5> QED BY <5>1, <5>2
      <4> QED BY <4>1, <4>2
    <3> QED BY <1>3, <1>6, <2>2, <2>3, <3>1, <3>2, <3>3 DEF WholeSoFar, DerivedFeatures, Deriving, Request, Job
  <2> QED BY <2>4, <2>5, <2>6, <2>7 DEF DatasetInv
<1>10. ~Settled(d)
  BY <1>3 DEF Settled
<1>11. UNCHANGED <<row, disk, attempt, events>> /\ UNCHANGED clientVars
  BY <1>1
<1> QED BY <1>3, <1>4, <1>6, <1>7, <1>8, <1>9, <1>10, <1>11, OneDataset

LEMMA FeaturesKeep ==
    ASSUME IngestionInv, NEW h \in Handlers, ClearFeatures(h) \/ InsertBatch(h)
    PROVE  IngestionInv'
<1> DEFINE d == h[1]
           file == row[d].file
<1>1. /\ features[d] \in SUBSET (Nat \X Nat) /\ features = [features EXCEPT ![d] = features[d]]
      /\ file \in Nat /\ batch[d] \in Nat \ {0} /\ batch[d] + 1 \in Nat \ {0}
      /\ Named(d) = <<d, file>>
  <2>1. d \in Datasets /\ DatasetTypeOK
    BY DEF IngestionInv, Handlers
  <2>2. batch[d] \in Nat \ {0} /\ row[d].file \in Nat
    BY <2>1 DEF DatasetTypeOK
  <2>3. features[d] \in SUBSET (Nat \X Nat) /\ features = [features EXCEPT ![d] = features[d]]
    BY <2>1 DEF DatasetTypeOK
  <2> QED BY <2>2, <2>3 DEF Named
<1>2. {} \in SUBSET (Nat \X Nat) /\ features[d] \cup {<<file, batch[d]>>} \in SUBSET (Nat \X Nat)
  BY <1>1
<1>3. CASE ClearFeatures(h)
  <2> DEFINE found == <<d, file>> \in disk
             empty == Batches[<<d, row[d].file>>] = 0
  <2>1. /\ Go(h, "clear", IF found /\ ~empty THEN "insert" ELSE "announceReady")
        /\ features' = (IF found THEN [features EXCEPT ![d] = {}] ELSE features)
        /\ batch' = [batch EXCEPT ![d] = 1] /\ NoFault /\ 1 \in Nat \ {0}
        /\ UNCHANGED <<row, disk, attempt, events>> /\ UNCHANGED clientVars
    BY <1>3 DEF ClearFeatures, NoFault, Named
  <2>2. CASE found /\ ~empty
    <3>1. /\ Go(h, "clear", "insert") /\ features' = [features EXCEPT ![d] = {}]
          /\ Derives(d, "clear", "insert", {}, 1)
      BY <2>1, <2>2 DEF Derives
    <3> QED BY <1>1, <1>2, <2>1, <3>1, DerivationKeeps
  <2>3. CASE found /\ empty
    <3>1. /\ Go(h, "clear", "announceReady") /\ features' = [features EXCEPT ![d] = {}]
          /\ Derives(d, "clear", "announceReady", {}, 1)
      BY <2>1, <2>3 DEF Derives
    <3> QED BY <1>1, <1>2, <2>1, <3>1, DerivationKeeps
  <2>4. CASE ~found
    <3>1. /\ Go(h, "clear", "announceReady") /\ features' = [features EXCEPT ![d] = features[d]]
          /\ Derives(d, "clear", "announceReady", features[d], 1)
      BY <1>1, <2>1, <2>4 DEF Derives
    <3> QED BY <1>1, <2>1, <3>1, DerivationKeeps
  <2> QED BY <2>2, <2>3, <2>4
<1>4. CASE InsertBatch(h)
  <2>1. UNCHANGED <<row, disk, attempt, events>> /\ UNCHANGED clientVars
    BY <1>4 DEF InsertBatch
  <2>2. CASE /\ Go(h, "insert", IF batch[d] = Batches[<<d, row[d].file>>] THEN "announceReady" ELSE "insert")
             /\ features' = [features EXCEPT ![d] = @ \cup {<<file, batch[d]>>}]
             /\ batch' = [batch EXCEPT ![d] = IF batch[d] = Batches[<<d, row[d].file>>] THEN 1 ELSE @ + 1]
             /\ NoFault
    <3> DEFINE more == features[d] \cup {<<row[d].file, batch[d]>>}
    <3>1. /\ more \in SUBSET (Nat \X Nat) /\ features' = [features EXCEPT ![d] = more]
          /\ NoFault /\ more = features[d] \cup {<<row[d].file, batch[d]>>}
      BY <1>2, <2>2
    <3>2. CASE batch[d] = Batches[<<d, row[d].file>>]
      <4>1. /\ batch' = [batch EXCEPT ![d] = 1] /\ Go(h, "insert", "announceReady")
            /\ 1 \in Nat \ {0}
        BY <1>1, <2>2, <3>2
      <4>2. Derives(d, "insert", "announceReady", more, 1)
        BY <3>1, <3>2 DEF Derives
      <4> HIDE DEF more
      <4> QED BY <2>1, <3>1, <4>1, <4>2, DerivationKeeps
    <3>3. CASE batch[d] # Batches[<<d, row[d].file>>]
      <4>1. /\ batch' = [batch EXCEPT ![d] = batch[d] + 1] /\ Go(h, "insert", "insert")
            /\ batch[d] + 1 \in Nat \ {0} /\ batch[d] # Batches[<<d, row[d].file>>]
        BY <1>1, <2>2, <3>3
      <4>2. Derives(d, "insert", "insert", more, batch[d] + 1)
        BY <3>1, <4>1 DEF Derives
      <4> HIDE DEF more
      <4> QED BY <2>1, <3>1, <4>1, <4>2, DerivationKeeps
    <3> QED BY <3>2, <3>3
  <2>3. CASE /\ Go(h, "insert", "announceReady") /\ Unhandled(d)
             /\ batch' = [batch EXCEPT ![d] = 1] /\ features' = features
    <3>1. /\ features' = [features EXCEPT ![d] = features[d]] /\ 1 \in Nat \ {0}
          /\ Derives(d, "insert", "announceReady", features[d], 1)
      BY <1>1, <2>3 DEF Derives
    <3> QED BY <1>1, <2>1, <2>3, <3>1, DerivationKeeps
  <2> QED BY <1>4, <2>2, <2>3 DEF InsertBatch, Named
<1> QED BY <1>3, <1>4

LEMMA AnnounceReadyKeeps == ASSUME IngestionInv, NEW h \in Handlers, AnnounceReady(h) PROVE IngestionInv'
<1> DEFINE d == h[1]
<1> USE DEF IngestionInv
<1>1. d \in Datasets /\ (h = Request(d) \/ h = Job(d)) /\ (h[2] = "job" <=> h = Job(d))
  BY DEF Handlers, Request, Job
<1>2. {"ack", "ok", "delete", "error"} \subseteq Steps /\ "announceReady" \in Finalising
  BY DEF Steps, Finalising
<1>3. /\ UNCHANGED <<row, features, disk, attempt, batch>> /\ UNCHANGED clientVars
      /\ \/ /\ Go(h, "announceReady", IF h = Job(d) THEN "ack" ELSE "ok")
            /\ Announce(d) /\ NoFault
         \/ Go(h, "announceReady", IF h = Job(d) THEN "delete" ELSE "error") /\ Fault /\ events' = events
  BY <1>1 DEF AnnounceReady, Thrown, serverVars, handlerVars
<1>4. CASE h = Job(d)
  <2>1. \/ Go(Job(d), "announceReady", "ack") /\ Announce(d) /\ NoFault
        \/ Go(Job(d), "announceReady", "delete") /\ Fault /\ events' = events
    BY <1>3, <1>4
  <2> QED BY <1>1, <1>2, <1>3, <2>1, JobStepKeeps DEF JobGoes
<1>5. CASE h # Job(d)
  <2>1. PICK to \in {"ok", "error"} :
            /\ Go(h, "announceReady", to)
            /\ to = "ok" => Announce(d)
            /\ to = "error" => events' = events
            /\ NoFault \/ Fault
    BY <1>3, <1>5
  <2>2. /\ At(d) = "announceReady" /\ At(d)' = to
        /\ \A g \in Handlers : g[1] # d => pc'[g] = pc[g]
        /\ pc' \in [Handlers -> Steps]
        /\ d \notin Remote /\ h = Request(d) /\ pc'[Job(d)] = "none" /\ pc[Job(d)] = "none"
        /\ pc[Request(d)] = "announceReady" /\ pc'[Request(d)] = to
    BY <1>1, <1>2, <1>5, <2>1, Finaliser
  <2>3. /\ hit \subseteq hit' /\ hit' \in SUBSET Datasets /\ killed' = killed /\ retried' = retried
        /\ killed' \in SUBSET hit' /\ retried' \in SUBSET Datasets
    <3>1. NoFault \/ Fault \/ Unhandled(d)
      BY <2>1
    <3> QED BY <1>1, <3>1, Faults
  <2>4. /\ events' \in SUBSET [dataset : Datasets, attempt : Nat, status : Status]
        /\ \A e \in events' : e \in events \/ (e.dataset = d /\ e.status = row[d].status)
    <3>1. Announce(d) \/ events' = events
      BY <2>1
    <3> QED BY <1>1, <3>1, NewEvent
  <2>5. DatasetTypeOK'
    BY <1>3, <2>2, <2>3, <2>4 DEF DatasetTypeOK
  <2>6. DatasetInv(d)'
    <3>1. Placed(d) /\ OneFile(d) /\ Files(d) /\ WholeSoFar(d)
      BY <1>1 DEF DatasetInv
    <3> HIDE DEF IngestionInv
    <3>2. row[d].status = "ready"
      BY <2>2, <3>1 DEF Placed, Deriving
    <3>3. Placed(d)'
      BY <1>3, <2>2, <3>1, <3>2 DEF Placed, Deriving, Finalising, Request, Job
    <3>4. OneFile(d)'
      BY <1>3, <2>2, <3>1 DEF OneFile, Request, Job
    <3>5. Files(d)'
      BY <1>3, <2>2, <2>3, <3>1, <3>2 DEF Files, File, Deriving, Request, Job
    <3>6. WholeSoFar(d)'
      BY <1>3, <2>2, <2>3, <3>1, <3>2 DEF WholeSoFar, DerivedFeatures, Deriving, Request, Job
    <3> QED BY <3>3, <3>4, <3>5, <3>6 DEF DatasetInv
  <2>7. ~Settled(d)
    BY <2>2 DEF Settled
  <2>8. \A e \in events' : e \in events \/ (e.dataset = d /\ (e.status = "ready" => Settled(d)'))
    <3>1. to = "ok" => Settled(d)'
      <4>1. row[d].status = "ready"
        BY <1>1, <2>2 DEF DatasetInv, Placed, Deriving
      <4> QED BY <1>3, <2>2, <4>1 DEF Settled, Request, Job
    <3>2. to # "ok" => events' = events
      BY <2>1
    <3> QED BY <2>1, <2>4, <3>1, <3>2
  <2> QED BY <1>1, <1>3, <2>2, <2>3, <2>5, <2>6, <2>7, <2>8, OneDataset
<1> QED BY <1>4, <1>5

-----------------------------------------------------------------------------
(* Kills and retries *)

LEMMA KillKeeps == ASSUME IngestionInv, NEW h \in Handlers, Kill(h) PROVE IngestionInv'
<1> DEFINE d == h[1]
           to == IF h[2] = "job" THEN "failed" ELSE "error"
<1> USE DEF IngestionInv
<1>1. /\ d \in Datasets /\ (h = Request(d) \/ h = Job(d))
      /\ h = Job(d) => to = "failed"
      /\ h = Request(d) => to = "error"
  BY DEF Handlers, Request, Job
<1>2. /\ pc[h] \notin {"none", "answered", "queued", "failed", "done", "ok", "error"}
      /\ Go(h, pc[h], to)
      /\ hit' = hit \cup {d} /\ killed' = killed \cup {d} /\ retried' = retried
      /\ UNCHANGED <<row, features, disk, attempt, batch, events>> /\ UNCHANGED clientVars
  BY DEF Kill, Live, Go, serverVars, handlerVars
<1>3. to \in Steps
  BY DEF Steps
<1>4. /\ \A g \in Handlers : g[1] # d => pc'[g] = pc[g]
      /\ pc' \in [Handlers -> Steps]
      /\ pc'[h] = to
      /\ h = Job(d) => pc'[Request(d)] = pc[Request(d)]
      /\ h = Request(d) => pc'[Job(d)] = pc[Job(d)]
  BY <1>1, <1>2, <1>3, RequestMoves, JobMoves
<1>5. /\ hit \subseteq hit' /\ hit' \in SUBSET Datasets /\ killed \subseteq killed'
      /\ killed' \in SUBSET hit' /\ d \in hit' /\ d \in killed'
  BY <1>1, <1>2 DEF DatasetTypeOK
<1>6. DatasetTypeOK'
  BY <1>2, <1>4, <1>5 DEF DatasetTypeOK
<1>7. h = Job(d) => d \in Remote /\ pc[Request(d)] \in {"ok", "error", "answered"}
  BY <1>1, <1>2, BusyJob
<1>8. h = Request(d) => pc[Job(d)] = "none"
  BY <1>1, <1>2 DEF DatasetInv, Placed, Finalising
<1>9. DatasetInv(d)'
  <2>1. Placed(d) /\ OneFile(d) /\ Files(d) /\ WholeSoFar(d)
    BY <1>1 DEF DatasetInv
  <2> HIDE DEF IngestionInv
  <2>2. Placed(d)'
    BY <1>1, <1>2, <1>4, <1>7, <1>8, <2>1 DEF Placed, Deriving, Finalising
  <2>3. OneFile(d)'
    BY <1>1, <1>2, <1>4, <1>7, <1>8, <2>1 DEF OneFile
  <2>4. Files(d)'
    BY <1>1, <1>2, <1>4, <1>5, <1>7, <1>8, <2>1 DEF Files
  <2>5. WholeSoFar(d)'
    <3>1. d \notin Mapped => features[d] = {}
      BY <2>1 DEF WholeSoFar
    <3>2. At(d)' \notin {"clear", "insert"}
      BY <1>1, <1>4, <1>7, <1>8, <2>1 DEF At, Placed, Request, Job
    <3> QED BY <1>2, <1>5, <3>1, <3>2 DEF WholeSoFar
  <2> QED BY <2>2, <2>3, <2>4, <2>5 DEF DatasetInv
<1>10. Settled(d) => Settled(d)'
  BY <1>1, <1>2, <1>4, <1>7, <1>8 DEF Settled, DatasetInv, Placed
<1>11. \A e \in events' : e \in events
  BY <1>2
<1> QED BY <1>1, <1>2, <1>4, <1>5, <1>6, <1>9, <1>10, <1>11, OneDataset

LEMMA RetryKeeps == ASSUME IngestionInv, NEW d \in Datasets, Retry(d) PROVE IngestionInv'
<1> USE DEF IngestionInv
<1>1. /\ Go(Job(d), "failed", "queued") /\ "queued" \in Steps
      /\ attempt' = [attempt EXCEPT ![d] = attempt[d] + 1]
      /\ batch' = [batch EXCEPT ![d] = 1]
      /\ retried' = retried \cup {d} /\ hit' = hit /\ killed' = killed
      /\ UNCHANGED <<row, features, disk, events>> /\ UNCHANGED clientVars
  BY DEF Retry, Steps, serverVars
<1>2. /\ pc[Job(d)] = "failed" /\ pc'[Job(d)] = "queued" /\ pc'[Request(d)] = pc[Request(d)]
      /\ \A h \in Handlers : h[1] # d => pc'[h] = pc[h]
      /\ pc' \in [Handlers -> Steps]
  BY <1>1, JobMoves
<1>3. d \in Remote /\ pc[Request(d)] \in {"ok", "error", "answered"}
  BY <1>2, BusyJob
<1>4. /\ attempt' \in [Datasets -> Nat] /\ batch' \in [Datasets -> Nat \ {0}]
      /\ \A e \in Datasets \ {d} : attempt'[e] = attempt[e] /\ batch'[e] = batch[e]
  <2>1. 1 \in Nat \ {0} /\ attempt[d] + 1 \in Nat
    BY BoundsAssumption DEF DatasetTypeOK
  <2> QED BY <1>1, <2>1 DEF DatasetTypeOK
<1>5. DatasetTypeOK'
  BY <1>1, <1>2, <1>4 DEF DatasetTypeOK
<1>6. DatasetInv(d)'
  <2>1. Placed(d) /\ OneFile(d) /\ Files(d) /\ WholeSoFar(d)
    BY DEF DatasetInv
  <2> HIDE DEF IngestionInv
  <2>2. Placed(d)'
    BY <1>1, <1>2, <1>3, <2>1 DEF Placed, Deriving
  <2>3. OneFile(d)'
    BY <1>1, <1>2, <1>3, <2>1 DEF OneFile
  <2>4. Files(d)'
    BY <1>1, <1>2, <1>3, <2>1 DEF Files, Deriving
  <2>5. WholeSoFar(d)'
    <3>1. At(d) = "failed" /\ At(d)' = "queued"
      BY <1>2, <1>3 DEF At
    <3> QED BY <1>1, <1>2, <1>3, <2>1, <3>1 DEF WholeSoFar, Deriving
  <2> QED BY <2>2, <2>3, <2>4, <2>5 DEF DatasetInv
<1> QED BY <1>1, <1>2, <1>4, <1>5, <1>6, OneDataset

-----------------------------------------------------------------------------
(* The browser *)

\* A step of the browser leaves the server as it is.
LEMMA Browsing ==
    ASSUME IngestionInv, BrowserInv', UNCHANGED <<serverVars, pc, handlerVars, historyVars>>,
           \A e \in events' : e \in events
    PROVE  IngestionInv'
<1> USE DEF IngestionInv, serverVars, handlerVars, historyVars
<1>1. DatasetTypeOK'
  BY DEF DatasetTypeOK
<1>2. ASSUME NEW d \in Datasets PROVE DatasetInv(d)'
  <2>1. Placed(d) /\ OneFile(d) /\ Files(d) /\ WholeSoFar(d)
    BY DEF DatasetInv
  <2>2. UNCHANGED <<row, features, disk, pc, attempt, batch, hit, killed, retried>>
    OBVIOUS
  <2> HIDE DEF IngestionInv
  <2>3. Placed(d)'
    BY <2>1, <2>2 DEF Placed
  <2>4. OneFile(d)'
    BY <2>1, <2>2 DEF OneFile
  <2>5. Files(d)'
    BY <2>1, <2>2 DEF Files, File
  <2>6. WholeSoFar(d)'
    BY <2>1, <2>2 DEF WholeSoFar, DerivedFeatures, At, File
  <2> QED BY <2>3, <2>4, <2>5, <2>6 DEF DatasetInv
<1> QED BY <1>1, <1>2

LEMMA SubmitKeeps == ASSUME IngestionInv, NEW d \in Datasets, Submit(d) PROVE IngestionInv'
<1> USE DEF IngestionInv
<1>1. /\ pc[Request(d)] = "none" /\ pc'[Request(d)] = "save" /\ pc'[Job(d)] = pc[Job(d)]
      /\ \A h \in Handlers : h[1] # d => pc'[h] = pc[h]
      /\ pc' \in [Handlers -> Steps]
  BY RequestMoves DEF Submit, Steps
<1>2. /\ waiting' = d /\ ui' # "completed" /\ current' = NoDataset /\ subscribed' = NoDataset
      /\ UNCHANGED <<row, features, disk, attempt, batch, events, hit, killed, retried>>
  BY DEF Submit, serverVars, handlerVars, historyVars
<1>3. DatasetTypeOK'
  BY <1>1, <1>2 DEF DatasetTypeOK
<1>4. pc[Job(d)] = "none" /\ row[d].status = "none"
  BY <1>1 DEF DatasetInv, Placed
<1>5. ASSUME NEW e \in Datasets PROVE DatasetInv(e)'
  <2>1. CASE e = d
    <3>1. Placed(d) /\ OneFile(d) /\ Files(d) /\ WholeSoFar(d)
      BY DEF DatasetInv
    <3> HIDE DEF IngestionInv
    <3>2. Placed(d)'
      BY <1>1, <1>2, <1>4, <3>1 DEF Placed, Deriving, Finalising
    <3>3. OneFile(d)'
      BY <1>1, <1>2, <1>4, <3>1 DEF OneFile
    <3>4. Files(d)'
      BY <1>1, <1>2, <1>4, <3>1 DEF Files, File
    <3>5. WholeSoFar(d)'
      BY <1>1, <1>2, <1>4, <3>1 DEF WholeSoFar, At, Deriving
    <3> QED BY <2>1, <3>2, <3>3, <3>4, <3>5 DEF DatasetInv
  <2>2. CASE e # d
    <3>1. pc'[Request(e)] = pc[Request(e)] /\ pc'[Job(e)] = pc[Job(e)]
      BY <1>1, <2>2, HandlerNames DEF Request, Job
    <3>2. disk' \in SUBSET (Datasets \X Nat)
      BY <1>3 DEF DatasetTypeOK
    <3> QED BY <1>2, <3>1, <3>2, OtherDataset
  <2> QED BY <2>1, <2>2
<1>6. ASSUME NEW e \in Datasets, Settled(e) PROVE Settled(e)'
  <2>1. e # d
    BY <1>4, <1>6 DEF Settled
  <2> QED BY <1>1, <1>2, <1>6, <2>1, HandlerNames DEF Settled, Request, Job
<1>7. BrowserInv'
  <2>1. ASSUME NEW e \in events', e.status = "ready"
        PROVE  e.dataset \in retried' \/ Settled(e.dataset)'
    <3> DEFINE x == e.dataset
    <3>1. x \in Datasets /\ (x \in retried \/ Settled(x))
      BY <1>2, <2>1 DEF BrowserInv, DatasetTypeOK
    <3>2. x \in retried' \/ Settled(x)'
      BY <1>2, <1>6, <3>1
    <3> QED BY <3>2
  <2> QED BY <1>2, <2>1 DEF BrowserInv
<1> QED BY <1>3, <1>5, <1>7

LEMMA AnsweredKeeps == ASSUME IngestionInv, NEW d \in Datasets, Answered(d) PROVE IngestionInv'
<1> USE DEF IngestionInv
<1>1. PICK from \in {"ok", "error"} :
          /\ Go(Request(d), from, "answered")
          /\ from = "ok" => /\ current' = d
                            /\ ui' = "completed" => d \notin Remote
                            /\ subscribed' = IF d \in Remote THEN d ELSE subscribed
          /\ from = "error" => ui' = "error" /\ UNCHANGED <<current, subscribed>>
  BY DEF Answered
<1>2. /\ waiting = d /\ waiting' = NoDataset
      /\ UNCHANGED <<row, features, disk, attempt, batch, events, hit, killed, retried>>
  BY DEF Answered, serverVars, handlerVars, historyVars
<1>3. /\ pc[Request(d)] = from /\ pc'[Request(d)] = "answered" /\ pc'[Job(d)] = pc[Job(d)]
      /\ \A h \in Handlers : h[1] # d => pc'[h] = pc[h]
      /\ pc' \in [Handlers -> Steps]
  BY <1>1, RequestMoves DEF Steps
<1>4. DatasetTypeOK'
  BY <1>2, <1>3 DEF DatasetTypeOK
<1>5. ASSUME NEW e \in Datasets PROVE DatasetInv(e)'
  <2>1. CASE e = d
    <3>1. Placed(d) /\ OneFile(d) /\ Files(d) /\ WholeSoFar(d)
      BY DEF DatasetInv
    <3> HIDE DEF IngestionInv
    <3>2. Placed(d)'
      BY <1>2, <1>3, <3>1 DEF Placed, Deriving, Finalising
    <3>3. OneFile(d)'
      BY <1>2, <1>3, <3>1 DEF OneFile
    <3>4. Files(d)'
      BY <1>2, <1>3, <3>1 DEF Files, File
    <3>5. WholeSoFar(d)'
      BY <1>2, <1>3, <3>1 DEF WholeSoFar, At, DerivedFeatures, File, Deriving
    <3> QED BY <2>1, <3>2, <3>3, <3>4, <3>5 DEF DatasetInv
  <2>2. CASE e # d
    <3>1. pc'[Request(e)] = pc[Request(e)] /\ pc'[Job(e)] = pc[Job(e)]
      BY <1>3, <2>2, HandlerNames DEF Request, Job
    <3>2. disk' \in SUBSET (Datasets \X Nat)
      BY <1>4 DEF DatasetTypeOK
    <3> QED BY <1>2, <3>1, <3>2, OtherDataset
  <2> QED BY <2>1, <2>2
<1>6. ASSUME NEW e \in Datasets, Settled(e) PROVE Settled(e)'
  BY <1>2, <1>3, <1>6, HandlerNames DEF Settled, Request, Job
<1>7. d \notin Remote /\ from = "ok" => Settled(d)
  BY <1>3 DEF Settled, DatasetInv, Placed
<1>8. BrowserInv'
  <2>1. ASSUME NEW e \in events', e.status = "ready"
        PROVE  e.dataset \in retried' \/ Settled(e.dataset)'
    <3> DEFINE x == e.dataset
    <3>1. x \in Datasets /\ (x \in retried \/ Settled(x))
      BY <1>2, <2>1 DEF BrowserInv, DatasetTypeOK
    <3>2. x \in retried' \/ Settled(x)'
      BY <1>2, <1>6, <3>1
    <3> QED BY <3>2
  <2>2. subscribed = NoDataset
    BY <1>2, DatasetAssumption DEF BrowserInv
  <2>3. /\ current' \in Datasets \cup {NoDataset} /\ subscribed' \in Datasets \cup {NoDataset}
        /\ subscribed' # NoDataset => current' = subscribed'
    BY <1>1, <2>2 DEF BrowserInv
  <2>4. ASSUME ui' = "completed"
        PROVE  current' \in Datasets /\ (current' \in retried' \/ Settled(current)')
    <3>1. from = "ok" /\ current' = d /\ d \notin Remote
      BY <1>1, <2>4
    <3>2. Settled(d)'
      BY <1>6, <1>7, <3>1
    <3> QED BY <3>1, <3>2 DEF Settled, Request, Job
  <2> QED BY <1>2, <2>1, <2>3, <2>4 DEF BrowserInv
<1> QED BY <1>4, <1>5, <1>8

LEMMA EventKeeps ==
    ASSUME IngestionInv, NEW e \in events, Deliver(e) \/ Lose(e)
    PROVE  IngestionInv'
<1> USE DEF IngestionInv
<1>1. /\ events' \subseteq events /\ UNCHANGED <<current, waiting>>
      /\ UNCHANGED <<serverVars, pc, handlerVars, historyVars>>
      /\ subscribed' \in {subscribed, NoDataset}
      /\ ui' = "completed" => ui = "completed" \/ (subscribed = e.dataset /\ e.status = "ready")
  BY DEF Deliver, Lose, clientVars
<1>2. ASSUME NEW d PROVE Settled(d)' <=> Settled(d)
  BY <1>1 DEF Settled, serverVars
<1>3. e.dataset \in Datasets
  BY DEF DatasetTypeOK
<1>4. BrowserInv'
  <2>1. retried' = retried
    BY <1>1 DEF historyVars
  <2>2. ASSUME NEW f \in events', f.status = "ready"
        PROVE  f.dataset \in retried' \/ Settled(f.dataset)'
    <3> DEFINE x == f.dataset
    <3>1. x \in retried \/ Settled(x)
      BY <1>1, <2>2 DEF BrowserInv
    <3>2. x \in retried' \/ Settled(x)'
      BY <1>2, <2>1, <3>1
    <3> QED BY <1>1, <3>2
  <2>3. ASSUME ui' = "completed"
        PROVE  current' \in Datasets /\ (current' \in retried' \/ Settled(current)')
    <3>1. current \in Datasets /\ (current \in retried \/ Settled(current))
      BY <1>1, <1>3, <2>3, DatasetAssumption DEF BrowserInv
    <3>2. Settled(current)' <=> Settled(current)
      BY <1>1 DEF Settled, serverVars
    <3> QED BY <1>1, <2>1, <3>1, <3>2
  <2> QED BY <1>1, <2>2, <2>3 DEF BrowserInv
<1> QED BY <1>1, <1>4, Browsing

LEMMA ResetKeeps == ASSUME IngestionInv, Reset PROVE IngestionInv'
<1> USE DEF IngestionInv
<1>1. /\ UNCHANGED <<serverVars, pc, handlerVars, historyVars>> /\ UNCHANGED <<events, waiting>>
      /\ ui' = "idle" /\ current' = NoDataset /\ subscribed' = NoDataset
  BY DEF Reset
<1>2. BrowserInv'
  <2>1. ASSUME NEW e \in events', e.status = "ready"
        PROVE  e.dataset \in retried' \/ Settled(e.dataset)'
    BY <1>1, <2>1 DEF BrowserInv, Settled, serverVars, historyVars
  <2> QED BY <1>1, <2>1 DEF BrowserInv
<1> QED BY <1>1, <1>2, Browsing

-----------------------------------------------------------------------------
(* The specification *)

LEMMA IngestionInit == Init => IngestionInv
<1> SUFFICES ASSUME Init PROVE IngestionInv
  OBVIOUS
<1>1. DatasetTypeOK
  BY BoundsAssumption DEF Init, DatasetTypeOK, Status, Steps, NoFile
<1>2. ASSUME NEW d \in Datasets PROVE DatasetInv(d)
  <2>1. /\ pc[Request(d)] = "none" /\ pc[Job(d)] = "none"
        /\ row[d].status = "none" /\ features[d] = {} /\ disk = {}
    BY HandlerNames DEF Init
  <2> QED BY <2>1 DEF DatasetInv, Placed, OneFile, Files, WholeSoFar, At, Deriving
<1>3. BrowserInv
  BY DEF Init, BrowserInv
<1> QED BY <1>1, <1>2, <1>3 DEF IngestionInv

LEMMA IngestionNext == IngestionInv /\ [Next]_vars => IngestionInv'
<1> SUFFICES ASSUME IngestionInv, [Next]_vars PROVE IngestionInv'
  OBVIOUS
<1>1. ASSUME NEW d \in Datasets, RequestStep(d) PROVE IngestionInv'
  BY <1>1, SaveKeeps, AnnounceNewKeeps, DispatchKeeps DEF RequestStep
<1>2. ASSUME NEW d \in Datasets, JobStep(d) PROVE IngestionInv'
  BY <1>2, RowKeeps, JobKeeps DEF JobStep
<1>3. ASSUME NEW h \in Handlers, FinaliseStep(h) PROVE IngestionInv'
  BY <1>3, MakeReadyKeeps, FeaturesKeep, AnnounceReadyKeeps DEF FinaliseStep
<1>4. ASSUME NEW d \in Datasets, HandlerStep(d) PROVE IngestionInv'
  BY <1>1, <1>2, <1>3, <1>4, HandlerNames DEF HandlerStep
<1>5. CASE UNCHANGED vars
  <2>1. /\ UNCHANGED <<serverVars, pc, handlerVars, historyVars>> /\ UNCHANGED clientVars /\ events' = events
    BY <1>5 DEF vars
  <2>2. BrowserInv'
    BY <2>1 DEF IngestionInv, BrowserInv, Settled, clientVars, serverVars, historyVars
  <2> QED BY <2>1, <2>2, Browsing
<1> QED BY <1>4, <1>5, SubmitKeeps, AnsweredKeeps, RetryKeeps, EventKeeps, KillKeeps, ResetKeeps DEF Next

LEMMA IngestionSafe == Spec => []IngestionInv
BY IngestionInit, IngestionNext, PTL DEF Spec

\* A ready dataset that no handler works on has its file and exactly its features,
\* unless a kill or a failure that finalise() and the controller swallow has met it.
THEOREM ReadyAlwaysWhole == Spec => []ReadyIsWhole
<1>1. IngestionInv => ReadyIsWhole
  <2> SUFFICES ASSUME IngestionInv, NEW d \in Datasets \ hit, row[d].status = "ready", Unattended(d)
               PROVE  /\ <<d, row[d].file>> \in disk
                      /\ features[d] = IF d \in Mapped THEN FeaturesOf(<<d, row[d].file>>) ELSE {}
    BY DEF ReadyIsWhole, Named
  <2>1. Placed(d) /\ WholeSoFar(d)
    BY DEF IngestionInv, DatasetInv
  <2>2. At(d) \in {"done", "answered"}
    BY <2>1 DEF WholeSoFar, Placed, Deriving, At, Unattended, Live
  <2> QED BY <2>1, <2>2 DEF WholeSoFar, DerivedFeatures, At, Placed, FeaturesOf
<1> QED BY <1>1, IngestionSafe, PTL

\* The features of a dataset never come from two files, however often the job is
\* killed between two batches and retried.
THEOREM FeaturesAlwaysOfOneFile == Spec => []FeaturesOfOneFile
<1>1. IngestionInv => FeaturesOfOneFile
  BY DEF IngestionInv, DatasetInv, OneFile, FeaturesOfOneFile
<1> QED BY <1>1, IngestionSafe, PTL

\* The catch block of IngestRemoteDataset leaves no file behind, but for killed jobs.
THEOREM FailedNeverKeepsFile == Spec => []FailedKeepsNoFile
<1>1. IngestionInv => FailedKeepsNoFile
  <2> SUFFICES ASSUME IngestionInv, NEW d \in Datasets, row[d].status = "failed"
               PROVE  /\ row[d].file = NoFile
                      /\ \A f \in disk : f[1] = d => d \in killed
    BY DEF FailedKeepsNoFile
  <2>1. Placed(d) /\ Files(d)
    BY DEF IngestionInv, DatasetInv
  <2>2. d \in Remote
    BY <2>1 DEF Placed
  <2> QED BY <2>1, <2>2 DEF Files, Deriving
<1> QED BY <1>1, IngestionSafe, PTL

\* When the store shows a dataset as completed it is ready and derived, whatever the
\* order of the events, unless its job was retried.
THEOREM CompletedAlwaysTrue == Spec => []CompletedIsTrue
<1>1. IngestionInv => CompletedIsTrue
  <2> SUFFICES ASSUME IngestionInv, ui = "completed", current \notin retried
               PROVE  row[current].status = "ready" /\ pc[Request(current)] \notin Finalising
                                                    /\ pc[Job(current)] \notin Finalising
    BY DEF CompletedIsTrue
  <2>1. current \in Datasets /\ Settled(current)
    BY DEF IngestionInv, BrowserInv
  <2>2. Placed(current)
    BY <2>1 DEF IngestionInv, DatasetInv
  <2> QED BY <2>1, <2>2 DEF Settled, Placed, Finalising
<1> QED BY <1>1, IngestionSafe, PTL
=============================================================================
