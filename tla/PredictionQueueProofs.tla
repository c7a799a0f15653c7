----------------------- MODULE PredictionQueueProofs -----------------------
(***************************************************************************)
(* Predictions are worked on by one job each, are whole when they are      *)
(* completed, and advance as PredictionRows promises, for every number of  *)
(* submissions and workers and whatever fails, is killed or is retried.    *)
(*                                                                         *)
(* Everything rests on one job per prediction: it makes what a worker      *)
(* writes for its prediction stay as it is until the worker's next step.   *)
(* JobInv strengthens that to an inductive fact; RowInv and ResultInv say  *)
(* what the stage of a job tells about the row and what was written.       *)
(***************************************************************************)
EXTENDS PredictionQueue, SequenceTheorems, TLAPS

Distinct(q) == \A i, j \in 1 .. Len(q) : q[i] = q[j] => i = j
Holds(q, p) == \E i \in 1 .. Len(q) : q[i] = p

\* A worker that is not free has a job, no job is in two places, and a submission has
\* none before it is pushed.
JobInv ==
    /\ \A w \in Workers : pc[w] = "free" <=> job[w] = None
    /\ \A v, w \in Workers : job[v] # None /\ job[v] = job[w] => v = w
    /\ \A w \in Workers : ~Holds(queue, job[w]) /\ job[w] \notin failedJobs
    /\ \A p \in Predictions : Holds(queue, p) => p \notin failedJobs
    /\ Distinct(queue)
    /\ \A p \in Predictions :
          stage[p] \in {"new", "saved"} =>
              ~Holds(queue, p) /\ p \notin failedJobs /\ \A w \in Workers : job[w] # p

\* The row is visible once the request is answered, and says what its job does.
RowInv ==
    /\ \A p \in Predictions : status[p] # "absent" <=> stage[p] = "answered"
    /\ \A w \in Workers : job[w] # None => status[job[w]] # "absent"
    /\ \A w \in Workers : pc[w] \notin {"free", "start", "ack"} => status[job[w]] = "running"
    /\ \A w \in Workers : pc[w] = "ack" => status[job[w]] = "completed"
    /\ \A p \in Predictions : stage[p] = "pushed" => Holds(queue, p)
            \/ (p \in failedJobs /\ p \in early)
    /\ \A p \in Predictions :
          status[p] \in {"queued", "running"} =>
              (\E w \in Workers : job[w] = p) \/ Holds(queue, p)
                      \/ (p \in failedJobs /\ p \in hit \cup early)

\* What is written for p when its job is at a step.
Written(p, step) ==
    /\ step \in {"start", "compute", "dropShap", "saveShap", "saveJson", "fail"} =>
          results[p].json + 1 <= attempts[p]
    /\ step \in {"start", "compute", "dropShap", "saveShap", "saveJson", "fail",
                 "putTiles", "saveTiles"} => results[p].tiles + 1 <= attempts[p]
    /\ step = "saveShap" => results[p].shap < results[p].due
    /\ step \in {"saveJson", "putTiles", "saveTiles", "complete"} =>
          results[p].shap = results[p].due
    /\ step \in {"putTiles", "saveTiles", "complete"} => 1 <= results[p].json
    /\ step = "saveTiles" => results[p].onDisk \/ p \in hit
    /\ step = "complete" /\ p \in WantsTiles =>
          1 <= results[p].tiles /\ (results[p].onDisk \/ p \in hit)

ResultInv ==
    /\ \A p \in Predictions : results[p].json <= attempts[p] /\ results[p].tiles <= attempts[p]
    /\ \A w \in Workers : job[w] # None => Written(job[w], pc[w])
    /\ CompletedIsWhole

QueueInv == TypeOK /\ JobInv /\ RowInv /\ ResultInv

-----------------------------------------------------------------------------
(* The queue *)

LEMMA AppendHolds ==
    ASSUME NEW q \in Seq(Predictions), Distinct(q), NEW p \in Predictions, ~Holds(q, p)
    PROVE  /\ Append(q, p) \in Seq(Predictions)
           /\ Distinct(Append(q, p))
           /\ \A x : Holds(Append(q, p), x) <=> Holds(q, x) \/ x = p
<1> DEFINE r == Append(q, p)
<1>1. /\ r \in Seq(Predictions) /\ Len(r) = Len(q) + 1
      /\ \A i \in 1 .. Len(q) : r[i] = q[i]
      /\ r[Len(q) + 1] = p
  BY AppendProperties
<1>2. Len(q) \in Nat
  OBVIOUS
<1> HIDE DEF r
<1>3. Distinct(r)
  BY <1>1, <1>2 DEF Distinct, Holds
<1>4. ASSUME NEW x, Holds(r, x) PROVE Holds(q, x) \/ x = p
  <2>1. PICK i \in 1 .. Len(r) : r[i] = x
    BY <1>4 DEF Holds
  <2>2. i \in 1 .. Len(q) \/ i = Len(q) + 1
    BY <1>1, <1>2
  <2> QED BY <2>1, <2>2, <1>1 DEF Holds
<1>5. ASSUME NEW x, Holds(q, x) \/ x = p PROVE Holds(r, x)
  <2>1. (\A i \in 1 .. Len(q) : i \in 1 .. Len(r)) /\ Len(q) + 1 \in 1 .. Len(r)
    BY <1>1, <1>2
  <2> QED BY <2>1, <1>1, <1>5 DEF Holds
<1> QED BY <1>1, <1>3, <1>4, <1>5 DEF r

LEMMA TailHolds ==
    ASSUME NEW q \in Seq(Predictions), q # <<>>, Distinct(q)
    PROVE  /\ Tail(q) \in Seq(Predictions) /\ Head(q) \in Predictions
           /\ Distinct(Tail(q))
           /\ Holds(q, Head(q)) /\ ~Holds(Tail(q), Head(q))
           /\ \A x : Holds(Tail(q), x) => Holds(q, x)
           /\ \A x : Holds(q, x) => Holds(Tail(q), x) \/ x = Head(q)
<1> DEFINE r == Tail(q)
<1>1. /\ r \in Seq(Predictions) /\ Head(q) \in Predictions /\ Len(r) = Len(q) - 1
      /\ \A i \in 1 .. Len(r) : r[i] = q[i + 1]
  BY HeadTailProperties
<1>2. Len(q) \in Nat \ {0} /\ Head(q) = q[1]
  BY EmptySeq
<1> HIDE DEF r
<1>3. 1 \in 1 .. Len(q) /\ \A i \in 1 .. Len(r) : i + 1 \in 1 .. Len(q) /\ i + 1 # 1
  BY <1>1, <1>2
<1>4. Distinct(r)
  <2> SUFFICES ASSUME NEW i \in 1 .. Len(r), NEW j \in 1 .. Len(r), r[i] = r[j] PROVE i = j
    BY DEF Distinct
  <2>1. i + 1 = j + 1
    BY <1>1, <1>3 DEF Distinct
  <2> QED BY <2>1
<1>5. Holds(q, Head(q)) /\ ~Holds(r, Head(q)) /\ \A x : Holds(r, x) => Holds(q, x)
  BY <1>1, <1>2, <1>3 DEF Holds, Distinct
<1>6. ASSUME NEW x, Holds(q, x) PROVE Holds(r, x) \/ x = Head(q)
  <2>1. PICK i \in 1 .. Len(q) : q[i] = x
    BY <1>6 DEF Holds
  <2>2. CASE i = 1
    BY <2>1, <2>2, <1>2
  <2>3. CASE i # 1
    <3>1. i - 1 \in 1 .. Len(r) /\ (i - 1) + 1 = i
      BY <2>3, <1>1, <1>2
    <3> QED BY <3>1, <2>1, <1>1 DEF Holds
  <2> QED BY <2>2, <2>3
<1> QED BY <1>1, <1>4, <1>5, <1>6 DEF r

-----------------------------------------------------------------------------
(* The steps of a job *)

\* A job that goes on, or ends, stays the only one of its prediction.
LEMMA AdvanceJobs ==
    ASSUME TypeOK, JobInv, NEW w \in Workers, NEW from \in Steps \ {"free"},
           NEW to \in (Steps \ {"free"}) \cup {"done", "throw"},
           Advance(w, from, to), UNCHANGED <<queue, stage>>
    PROVE  /\ JobInv'
           /\ pc' \in [Workers -> Steps] /\ job' \in [Workers -> Predictions \cup {None}]
           /\ failedJobs' \in SUBSET Predictions
           /\ job[w] \in Predictions
<1>1. job[w] \in Predictions
  BY NoneAssumption DEF TypeOK, JobInv, Advance, Steps
<1>2. /\ pc' \in [Workers -> Steps] /\ job' \in [Workers -> Predictions \cup {None}]
      /\ failedJobs' \in SUBSET Predictions
  BY <1>1 DEF TypeOK, Advance, Steps
<1>3. CASE to \in {"done", "throw"}
  <2>1. /\ pc' = [pc EXCEPT ![w] = "free"] /\ job' = [job EXCEPT ![w] = None]
        /\ failedJobs' = failedJobs \/ failedJobs' = failedJobs \cup {job[w]}
    BY <1>3 DEF Advance
  <2>2. \A v \in Workers : pc'[v] = "free" <=> job'[v] = None
    BY <2>1 DEF JobInv, TypeOK
  <2>3. \A u, v \in Workers : job'[v] # None /\ job'[v] = job'[u] => v = u
    BY <2>1 DEF JobInv, TypeOK
  <2>4. ~Holds(queue, None)
    BY NoneAssumption DEF Holds, TypeOK
  <2>5. \A v \in Workers : ~Holds(queue, job'[v]) /\ job'[v] \notin failedJobs'
    BY <1>1, <2>1, <2>4, NoneAssumption DEF JobInv, TypeOK
  <2>6. \A p \in Predictions : Holds(queue, p) => p \notin failedJobs'
    BY <2>1 DEF JobInv
  <2>7. \A p \in Predictions :
            stage[p] \in {"new", "saved"} =>
                ~Holds(queue, p) /\ p \notin failedJobs' /\ \A v \in Workers : job'[v] # p
    BY <2>1, NoneAssumption DEF JobInv, TypeOK
  <2> QED BY <1>1, <1>2, <2>2, <2>3, <2>5, <2>6, <2>7 DEF JobInv, Holds, Distinct
<1>4. CASE to \notin {"done", "throw"}
  <2>1. pc' = [pc EXCEPT ![w] = to] /\ job' = job /\ failedJobs' = failedJobs /\ to # "free"
    BY <1>4 DEF Advance, TypeOK
  <2>2. \A v \in Workers : pc'[v] = "free" <=> job'[v] = None
    BY <1>1, <2>1, NoneAssumption DEF JobInv, TypeOK
  <2> QED BY <1>1, <1>2, <2>1, <2>2 DEF JobInv, Holds, Distinct
<1> QED BY <1>3, <1>4

\* The steps that neither end a job nor save the status: what is written suits the
\* next step, and nobody else's results change.
LEMMA WriteStep ==
    ASSUME QueueInv, NEW w \in Workers,
           NEW from \in {"compute", "dropShap", "saveShap", "saveJson", "putTiles", "saveTiles"},
           NEW to \in Steps \ {"free", "start", "ack"}, NEW value \in Results,
           Advance(w, from, to), UNCHANGED <<stage, status, queue, early, attempts, kills, retries>>,
           results' = [results EXCEPT ![job[w]] = value],
           hit' \in SUBSET Predictions, hit \subseteq hit', faults' \in Nat,
           value.json <= attempts[job[w]], value.tiles <= attempts[job[w]],
           Written(job[w], to)'
    PROVE  QueueInv'
<1> DEFINE p == job[w]
<1> USE DEF QueueInv
<1>1. from \in Steps \ {"free"} /\ to \in (Steps \ {"free"}) \cup {"done", "throw"}
  BY DEF Steps
<1>2. /\ JobInv' /\ p \in Predictions
      /\ pc' \in [Workers -> Steps] /\ job' \in [Workers -> Predictions \cup {None}]
      /\ failedJobs' \in SUBSET Predictions
  BY <1>1, AdvanceJobs
<1>3. pc[w] = from /\ pc' = [pc EXCEPT ![w] = to] /\ job' = job /\ failedJobs' = failedJobs
  BY DEF Advance, Steps, TypeOK
<1>4. TypeOK'
  BY <1>2 DEF TypeOK
<1>5. status[p] = "running"
  BY <1>3 DEF RowInv
<1>6. RowInv'
  <2>1. \A q \in Predictions : Holds(queue, q)' <=> Holds(queue, q)
    BY DEF Holds
  <2>2. \A v \in Workers : pc'[v] \notin {"free", "start", "ack"} => status'[job'[v]] = "running"
    BY <1>3, <1>5 DEF RowInv, TypeOK
  <2>3. \A v \in Workers : pc'[v] = "ack" => status'[job'[v]] = "completed"
    BY <1>3 DEF RowInv, TypeOK
  <2> QED BY <1>3, <2>1, <2>2, <2>3 DEF RowInv
<1>7. ResultInv'
  <2>1. \A q \in Predictions : q # p => results'[q] = results[q]
    BY DEF TypeOK
  <2>2. results'[p] = value
    BY <1>2 DEF TypeOK
  <2>3. \A q \in Predictions : results'[q].json <= attempts'[q] /\ results'[q].tiles <= attempts'[q]
    BY <2>1, <2>2 DEF ResultInv
  <2>4. ASSUME NEW v \in Workers, job'[v] # None PROVE Written(job[v], pc[v])'
    <3>1. CASE v = w
      BY <3>1, <1>3, <1>2 DEF TypeOK, Written
    <3>2. CASE v # w
      <4>1. job[v] # p /\ job[v] \in Predictions
        BY <3>2, <2>4, <1>2, <1>3 DEF JobInv, TypeOK
      <4>2. results'[job[v]] = results[job[v]] /\ pc'[v] = pc[v] /\ Written(job[v], pc[v])
        BY <4>1, <2>1, <3>2, <1>3, <2>4 DEF TypeOK, ResultInv
      <4> QED BY <4>1, <4>2, <1>3 DEF Written
    <3> QED BY <3>1, <3>2
  <2>5. CompletedIsWhole'
    BY <1>5, <2>1 DEF CompletedIsWhole, ResultInv
  <2> QED BY <2>3, <2>4, <2>5 DEF ResultInv
<1> QED BY <1>2, <1>4, <1>6, <1>7

\* A worker in hand: what the invariant says of its job.
LEMMA InHandFacts ==
    ASSUME QueueInv, NEW w \in Workers, pc[w] # "free"
    PROVE  /\ job[w] \in Predictions /\ job[w] # None
           /\ results[job[w]] \in Results
           /\ results[job[w]].shap \in Nat /\ results[job[w]].due \in Nat
           /\ results[job[w]].json \in Nat
           /\ results[job[w]].tiles \in Nat /\ results[job[w]].onDisk \in BOOLEAN
           /\ attempts[job[w]] \in Nat
           /\ results[job[w]].json <= attempts[job[w]]
           /\ results[job[w]].tiles <= attempts[job[w]]
           /\ Written(job[w], pc[w])
<1>1. job[w] \in Predictions /\ job[w] # None
  BY NoneAssumption DEF QueueInv, TypeOK, JobInv
<1>2. results[job[w]] \in Results /\ attempts[job[w]] \in Nat
  BY <1>1 DEF QueueInv, TypeOK
<1> QED BY <1>1, <1>2 DEF QueueInv, ResultInv, Results

LEMMA ComputeStep ==
    ASSUME QueueInv, NEW w \in Workers, Compute(w)
    PROVE  QueueInv'
<1>1. PICK to \in {"dropShap", "fail"} :
          /\ Advance(w, "compute", to)
          /\ UNCHANGED <<stage, status, results, queue, early, attempts, hit, faults, boundVars>>
  BY DEF Compute
<1>2. pc[w] = "compute"
  BY <1>1 DEF Advance
<1>3. results' = [results EXCEPT ![job[w]] = results[job[w]]]
  BY <1>1 DEF QueueInv, TypeOK
<1>4. Written(job[w], to)'
  <2>1. Written(job[w], to)
    BY <1>2, InHandFacts DEF Written
  <2>2. job'[w] = job[w]
    BY <1>1 DEF Advance, QueueInv, TypeOK
  <2> QED BY <2>1, <2>2, <1>1 DEF Written
<1>5. /\ to \in Steps \ {"free", "start", "ack"}
      /\ hit' \in SUBSET Predictions /\ hit \subseteq hit' /\ faults' \in Nat
  BY <1>1 DEF Steps, QueueInv, TypeOK
<1> QED
  <2>1. /\ results[job[w]] \in Results
        /\ results[job[w]].json <= attempts[job[w]] /\ results[job[w]].tiles <= attempts[job[w]]
    BY <1>2, InHandFacts
  <2> QED BY <2>1, <1>1, <1>3, <1>4, <1>5, WriteStep DEF boundVars

\* What a step of SaveResults leaves, for the use of WriteStep.
LEMMA SaveResultsStep ==
    ASSUME QueueInv, NEW w \in Workers,
           NEW from \in {"dropShap", "saveShap", "saveJson", "putTiles", "saveTiles"},
           NEW to \in Steps \ {"free", "start", "ack"}, NEW value \in Results,
           SaveResults(w, from, value, to), NoFault \/ Fault(job[w]),
           value.json <= attempts[job[w]], value.tiles <= attempts[job[w]],
           Written(job[w], to)'
    PROVE  QueueInv'
<1>1. /\ Advance(w, from, to)
      /\ results' = [results EXCEPT ![job[w]] = value]
      /\ UNCHANGED <<stage, status, queue, early, attempts, kills, retries>>
  BY DEF SaveResults, boundVars
<1>2. job[w] \in Predictions
  BY <1>1, InHandFacts DEF Advance
<1>3. hit' \in SUBSET Predictions /\ hit \subseteq hit' /\ faults' \in Nat
  BY <1>2, BoundsAssumption DEF NoFault, Fault, QueueInv, TypeOK
<1> QED BY <1>1, <1>3, WriteStep

\* The values of an earlier attempt are gone before the first of this one is written.
LEMMA DropShapStep ==
    ASSUME QueueInv, NEW w \in Workers, DropShap(w)
    PROVE  QueueInv'
<1> DEFINE p == job[w]
<1>1. PICK n \in 0 .. ShapRows :
          SaveResults(w, "dropShap", [Left(w) EXCEPT !.shap = 0, !.due = n],
                      IF n = 0 THEN "saveJson" ELSE "saveShap") /\ NoFault
  BY DEF DropShap
<1> DEFINE value == [Left(w) EXCEPT !.shap = 0, !.due = n]
           to == IF n = 0 THEN "saveJson" ELSE "saveShap"
<1>2. pc[w] = "dropShap" /\ job' = job /\ UNCHANGED <<attempts, hit>>
      /\ results' = [results EXCEPT ![p] = value]
  BY <1>1 DEF SaveResults, Advance, NoFault, QueueInv, TypeOK
<1>3. n \in Nat
  BY ShapAssumption
<1>4. /\ value \in Results /\ value.shap = 0 /\ value.due = n
      /\ value.json = results[p].json /\ value.tiles = results[p].tiles
  BY <1>2, <1>3, InHandFacts DEF Left, Results
<1>5. results'[p] = value
  BY <1>2, InHandFacts DEF QueueInv, TypeOK
<1>6. results[p].json + 1 <= attempts[p] /\ results[p].tiles + 1 <= attempts[p]
      /\ results[p].json <= attempts[p] /\ results[p].tiles <= attempts[p]
  BY <1>2, InHandFacts DEF Written
<1>7. SaveResults(w, "dropShap", value, to) /\ NoFault /\ to \in {"saveJson", "saveShap"}
      /\ (to = "saveJson" => n = 0) /\ (to = "saveShap" => n # 0)
  BY <1>1
<1> HIDE DEF value, to
<1>8. Written(job[w], to)'
  <2>1. job'[w] = p /\ attempts'[p] = attempts[p] /\ results'[p].shap = 0
        /\ results'[p].due = n /\ results'[p].json + 1 <= attempts[p]
        /\ results'[p].tiles + 1 <= attempts[p]
    BY <1>2, <1>4, <1>5, <1>6
  <2>2. to = "saveShap" => 0 < n
    BY <1>3, <1>7
  <2> QED BY <1>7, <2>1, <2>2 DEF Written
<1>9. to \in Steps \ {"free", "start", "ack"} /\ value.json <= attempts[p]
      /\ value.tiles <= attempts[p]
  BY <1>4, <1>6, <1>7 DEF Steps
<1> QED BY <1>4, <1>7, <1>8, <1>9, SaveResultsStep

\* One value more, and the job goes on when it was the last that was due.
LEMMA SaveShapStep ==
    ASSUME QueueInv, NEW w \in Workers, SaveShap(w)
    PROVE  QueueInv'
<1> DEFINE p == job[w]
           value == [Left(w) EXCEPT !.shap = @ + 1]
<1>1. PICK to \in {"saveShap", "saveJson"} :
          /\ to = IF Left(w).shap + 1 < Left(w).due THEN "saveShap" ELSE "saveJson"
          /\ SaveResults(w, "saveShap", value, to) /\ NoFault
  BY DEF SaveShap
<1>2. pc[w] = "saveShap" /\ job' = job /\ UNCHANGED <<attempts, hit>>
      /\ results' = [results EXCEPT ![p] = value]
  BY <1>1 DEF SaveResults, Advance, NoFault, QueueInv, TypeOK
<1>3. /\ value \in Results /\ value.shap = results[p].shap + 1 /\ value.due = results[p].due
      /\ value.json = results[p].json /\ value.tiles = results[p].tiles
  BY <1>2, InHandFacts DEF Left, Results
<1>4. results'[p] = value
  BY <1>2, InHandFacts DEF QueueInv, TypeOK
<1>5. /\ results[p].shap < results[p].due /\ results[p].shap \in Nat /\ results[p].due \in Nat
      /\ results[p].json + 1 <= attempts[p] /\ results[p].tiles + 1 <= attempts[p]
      /\ results[p].json <= attempts[p] /\ results[p].tiles <= attempts[p]
  BY <1>2, InHandFacts DEF Written
<1>6. /\ to = "saveShap" => results[p].shap + 1 < results[p].due
      /\ to = "saveJson" => results[p].shap + 1 = results[p].due
  BY <1>1, <1>5 DEF Left
<1> HIDE DEF value
<1>7. Written(job[w], to)'
  <2>1. job'[w] = p /\ attempts'[p] = attempts[p] /\ results'[p].shap = results[p].shap + 1
        /\ results'[p].due = results[p].due
        /\ results'[p].json + 1 <= attempts[p] /\ results'[p].tiles + 1 <= attempts[p]
    BY <1>2, <1>3, <1>4, <1>5
  <2>2. to = "saveShap" => results'[p].shap < results'[p].due
    BY <1>6, <2>1
  <2>3. to = "saveJson" => results'[p].shap = results'[p].due
    BY <1>6, <2>1
  <2>4. CASE to = "saveShap"
    BY <2>4, <2>1, <2>2 DEF Written
  <2>5. CASE to = "saveJson"
    BY <2>5, <2>1, <2>3 DEF Written
  <2> QED BY <2>4, <2>5
<1>8. to \in Steps \ {"free", "start", "ack"} /\ value.json <= attempts[p]
      /\ value.tiles <= attempts[p]
  BY <1>3, <1>5 DEF Steps
<1> QED BY <1>1, <1>3, <1>7, <1>8, SaveResultsStep

LEMMA JsonStep ==
    ASSUME QueueInv, NEW w \in Workers, SaveJson(w)
    PROVE  QueueInv'
<1> DEFINE p == job[w]
           value == [Left(w) EXCEPT !.json = @ + 1]
<1>1. PICK to \in {"putTiles", "complete"} :
          /\ to = IF p \in WantsTiles THEN "putTiles" ELSE "complete"
          /\ SaveResults(w, "saveJson", value, to) /\ NoFault
  BY DEF SaveJson
<1>2. pc[w] = "saveJson" /\ job' = job /\ UNCHANGED <<attempts, hit>>
      /\ results' = [results EXCEPT ![p] = value]
  BY <1>1 DEF SaveResults, Advance, NoFault, QueueInv, TypeOK
<1>3. /\ value \in Results /\ value.shap = results[p].shap /\ value.due = results[p].due
      /\ value.json = results[p].json + 1 /\ value.tiles = results[p].tiles
  BY <1>2, InHandFacts DEF Left, Results
<1>4. results'[p] = value
  BY <1>2, InHandFacts DEF QueueInv, TypeOK
<1>5. value.json <= attempts[p] /\ value.tiles <= attempts[p]
  BY <1>2, <1>3, InHandFacts DEF Written
<1> HIDE DEF value
<1>6. Written(job[w], to)'
  <2>1. /\ results[p].shap = results[p].due /\ results[p].json \in Nat
        /\ results[p].tiles + 1 <= attempts[p]
    BY <1>2, InHandFacts DEF Written
  <2>2. /\ job'[w] = p /\ attempts'[p] = attempts[p] 
        /\ results'[p].shap = results'[p].due /\ 1 <= results'[p].json /\ results'[p].tiles + 1 <= attempts[p]
    BY <1>2, <1>3, <1>4, <2>1
  <2> QED BY <1>1, <2>2 DEF Written
<1>7. to \in Steps \ {"free", "start", "ack"}
  BY DEF Steps
<1> QED BY <1>1, <1>3, <1>5, <1>6, <1>7, SaveResultsStep

LEMMA PutTilesStep ==
    ASSUME QueueInv, NEW w \in Workers, PutTiles(w)
    PROVE  QueueInv'
<1> DEFINE p == job[w]
<1>1. pc[w] = "putTiles" /\ job' = job /\ UNCHANGED attempts
  BY DEF PutTiles, SaveResults, Advance, QueueInv, TypeOK
<1>2. CASE SaveResults(w, "putTiles", [Left(w) EXCEPT !.onDisk = TRUE], "saveTiles") /\ NoFault
  <2> DEFINE value == [Left(w) EXCEPT !.onDisk = TRUE]
  <2>1. results' = [results EXCEPT ![p] = value] /\ UNCHANGED hit
    BY <1>2 DEF SaveResults, NoFault
  <2>2. /\ value \in Results /\ value.shap = results[p].shap
        /\ value.due = results[p].due /\ value.onDisk
        /\ value.json = results[p].json /\ value.tiles = results[p].tiles
    BY <1>1, InHandFacts DEF Left, Results
  <2>3. results'[p] = value
    BY <1>1, <2>1, InHandFacts DEF QueueInv, TypeOK
  <2>4. Written(job[w], "saveTiles")'
    BY <1>1, <2>1, <2>2, <2>3, InHandFacts, ZenonT(40) DEF Written
  <2> HIDE DEF value
  <2>5. SaveResults(w, "putTiles", value, "saveTiles") /\ NoFault
    BY <1>2 DEF value
  <2> QED BY <1>1, <2>2, <2>4, <2>5, InHandFacts, SaveResultsStep DEF Steps
<1>3. CASE SaveResults(w, "putTiles", Left(w), "saveTiles") /\ Fault(job[w])
  <2>1. results' = [results EXCEPT ![p] = results[p]] /\ hit' = hit \cup {p}
    BY <1>3 DEF SaveResults, Fault, Left
  <2>2. results'[p] = results[p]
    BY <2>1, <1>1, InHandFacts DEF QueueInv, TypeOK
  <2>3. Written(job[w], "saveTiles")'
    BY <1>1, <2>1, <2>2, InHandFacts DEF Written
  <2> QED BY <1>1, <1>3, <2>3, InHandFacts, SaveResultsStep DEF Steps, Left
<1> QED BY <1>2, <1>3 DEF PutTiles

LEMMA SaveTilesStep ==
    ASSUME QueueInv, NEW w \in Workers, SaveTiles(w)
    PROVE  QueueInv'
<1> DEFINE p == job[w]
           value == [Left(w) EXCEPT !.tiles = @ + 1]
<1>1. SaveResults(w, "saveTiles", value, "complete") /\ NoFault
  BY DEF SaveTiles
<1>2. pc[w] = "saveTiles" /\ job' = job /\ UNCHANGED <<attempts, hit>>
      /\ results' = [results EXCEPT ![p] = value]
  BY <1>1 DEF SaveResults, Advance, NoFault, QueueInv, TypeOK
<1>3. /\ value \in Results /\ value.shap = results[p].shap /\ value.due = results[p].due
      /\ value.json = results[p].json /\ value.tiles = results[p].tiles + 1
      /\ value.onDisk = results[p].onDisk
  BY <1>2, InHandFacts DEF Left, Results
<1>4. results'[p] = value
  BY <1>2, InHandFacts DEF QueueInv, TypeOK
<1>5. value.json <= attempts[p] /\ value.tiles <= attempts[p]
  BY <1>2, <1>3, InHandFacts DEF Written
<1> HIDE DEF value
<1>6. Written(job[w], "complete")'
  <2>1. /\ results[p].shap = results[p].due /\ 1 <= results[p].json /\ results[p].tiles \in Nat
        /\ results[p].onDisk \/ p \in hit
    BY <1>2, InHandFacts DEF Written
  <2>2. /\ job'[w] = p /\ hit' = hit
        /\ results'[p].shap = results'[p].due /\ 1 <= results'[p].json /\ 1 <= results'[p].tiles
        /\ results'[p].onDisk \/ p \in hit
    BY <1>2, <1>3, <1>4, <2>1
  <2> QED BY <2>2 DEF Written
<1> QED BY <1>1, <1>3, <1>5, <1>6, SaveResultsStep DEF Steps

-----------------------------------------------------------------------------
(* The status, the end of a job, and its beginning *)

\* Other workers have other predictions.
LEMMA OthersUntouched ==
    ASSUME QueueInv, NEW w \in Workers, pc[w] # "free",
           NEW v \in Workers, v # w
    PROVE  job[v] # job[w]
BY InHandFacts DEF QueueInv, JobInv

LEMMA StatusStep ==
    ASSUME QueueInv, NEW w \in Workers, NEW from, NEW value, NEW to,
           \/ from = "start" /\ value = "running" /\ to = "compute"
           \/ from = "complete" /\ value = "completed" /\ to = "ack"
           \/ from = "fail" /\ value = "failed" /\ to = "throw",
           SaveStatus(w, from, value, to)
    PROVE  QueueInv'
<1> DEFINE p == job[w]
<1>1. /\ Advance(w, from, to) /\ pc[w] = from
      /\ status' = [status EXCEPT ![p] = value]
      /\ UNCHANGED <<stage, results, queue, early, attempts, hit, faults, kills, retries>>
      /\ from \in Steps \ {"free"} /\ to \in (Steps \ {"free"}) \cup {"done", "throw"}
  BY DEF SaveStatus, Advance, boundVars, Steps
<1>2. /\ JobInv' /\ p \in Predictions
      /\ pc' \in [Workers -> Steps] /\ job' \in [Workers -> Predictions \cup {None}]
      /\ failedJobs' \in SUBSET Predictions
  BY <1>1, AdvanceJobs DEF QueueInv
<1>3. /\ pc'[w] = (IF to = "throw" THEN "free" ELSE to)
      /\ job'[w] = (IF to = "throw" THEN None ELSE p)
      /\ \A v \in Workers : v # w => pc'[v] = pc[v] /\ job'[v] = job[v]
  BY <1>1 DEF Advance, QueueInv, TypeOK
<1>4. status'[p] = value /\ \A q \in Predictions : q # p => status'[q] = status[q]
  BY <1>1, <1>2 DEF QueueInv, TypeOK
<1>5. TypeOK'
  BY <1>1, <1>2 DEF QueueInv, TypeOK, Status
<1>6. \A v \in Workers : v # w => job[v] # p
  BY <1>1, OthersUntouched, Zenon
<1>7. p # None /\ status[p] # "absent"
  BY <1>2, NoneAssumption DEF QueueInv, RowInv
<1>7a. failedJobs \subseteq failedJobs'
  BY <1>1 DEF Advance
<1>8. RowInv'
  <2>1. \A q \in Predictions : status'[q] # "absent" <=> stage'[q] = "answered"
    BY <1>1, <1>4, <1>7, <1>2 DEF QueueInv, RowInv
  <2>2. ASSUME NEW v \in Workers, job'[v] # None PROVE status'[job'[v]] # "absent"
    <3>1. CASE v = w
      BY <3>1, <2>2, <1>3, <1>4
    <3>2. CASE v # w
      <4>1. job[v] \in Predictions
        BY <3>2, <2>2, <1>3 DEF QueueInv, TypeOK
      <4> QED BY <4>1, <3>2, <2>2, <1>3, <1>4, <1>6 DEF QueueInv, RowInv
    <3> QED BY <3>1, <3>2
  <2>3. ASSUME NEW v \in Workers, pc'[v] \notin {"free", "start", "ack"}
        PROVE  status'[job'[v]] = "running"
    <3>1. CASE v = w
      BY <3>1, <2>3, <1>3, <1>4
    <3>2. CASE v # w
      <4>1. job[v] \in Predictions
        BY <3>2, <2>3, <1>3, InHandFacts
      <4> QED BY <4>1, <3>2, <2>3, <1>3, <1>4, <1>6 DEF QueueInv, RowInv
    <3> QED BY <3>1, <3>2
  <2>4. ASSUME NEW v \in Workers, pc'[v] = "ack"
        PROVE  status'[job'[v]] = "completed"
    <3>1. CASE v = w
      BY <3>1, <2>4, <1>3, <1>4
    <3>2. CASE v # w
      <4>1. job[v] \in Predictions
        BY <3>2, <2>4, <1>3, InHandFacts
      <4> QED BY <4>1, <3>2, <2>4, <1>3, <1>4, <1>6 DEF QueueInv, RowInv
    <3> QED BY <3>1, <3>2
  <2>5. \A q \in Predictions : Holds(queue, q)' <=> Holds(queue, q)
    BY <1>1 DEF Holds
  <2>6. ASSUME NEW q \in Predictions, status'[q] \in {"queued", "running"}
        PROVE  (\E v \in Workers : job'[v] = q) \/ Holds(queue, q)'
                \/ (q \in failedJobs' /\ q \in hit' \cup early')
    <3>1. CASE q = p
      BY <3>1, <2>6, <1>3, <1>4
    <3>2. CASE q # p
      <4>1. status[q] \in {"queued", "running"}
        BY <3>2, <2>6, <1>4
      <4>2. CASE \E v \in Workers : job[v] = q
        <5>1. PICK v \in Workers : job[v] = q
          BY <4>2
        <5>2. v # w
          BY <5>1, <3>2
        <5> QED BY <5>1, <5>2, <1>3
      <4> QED BY <4>1, <4>2, <2>5, <1>1, <1>7a DEF QueueInv, RowInv
    <3> QED BY <3>1, <3>2
  <2>7. \A q \in Predictions : stage'[q] = "pushed" => Holds(queue, q)'
          \/ (q \in failedJobs' /\ q \in early')
    BY <1>1, <1>7a, <2>5 DEF QueueInv, RowInv
  <2> QED BY <2>1, <2>2, <2>3, <2>4, <2>6, <2>7 DEF RowInv
<1>9. ResultInv'
  <2>1. ASSUME NEW v \in Workers, job'[v] # None PROVE Written(job[v], pc[v])'
    <3>1. CASE v = w
      <4>1. to # "throw" /\ Written(p, from)
        BY <3>1, <2>1, <1>1, <1>3, InHandFacts
      <4> QED BY <4>1, <3>1, <1>1, <1>3 DEF Written
    <3>2. CASE v # w
      BY <3>2, <2>1, <1>1, <1>3 DEF QueueInv, ResultInv, Written
    <3> QED BY <3>1, <3>2
  <2>2. ASSUME NEW q \in Predictions, status'[q] = "completed"
        PROVE  /\ results[q].shap = results[q].due
               /\ results[q].json \in 1 .. attempts[q]
               /\ q \in WantsTiles =>
                    /\ results[q].tiles \in 1 .. attempts[q]
                    /\ results[q].onDisk \/ q \in hit
    <3>1. CASE q = p
      <4>1. Written(p, "complete")
        BY <3>1, <2>2, <1>1, <1>4, InHandFacts
      <4> QED BY <4>1, <3>1, <1>1, InHandFacts DEF Written
    <3>2. CASE q # p
      BY <3>2, <2>2, <1>4 DEF QueueInv, ResultInv, CompletedIsWhole
    <3> QED BY <3>1, <3>2
  <2> QED BY <2>1, <2>2, <1>1 DEF QueueInv, ResultInv, CompletedIsWhole
<1> QED BY <1>2, <1>5, <1>8, <1>9 DEF QueueInv

\* A job that ends without a word: acknowledged, or killed.
LEMMA EndStep ==
    ASSUME QueueInv, NEW w \in Workers, pc[w] # "free", NEW to \in {"done", "throw"},
           Advance(w, pc[w], to),
           UNCHANGED <<stage, status, results, queue, early, attempts, faults, retries>>,
           hit' \in SUBSET Predictions, hit \subseteq hit', kills' \in Nat,
           pc[w] = "ack" \/ (to = "throw" /\ job[w] \in hit')
    PROVE  QueueInv'
<1> DEFINE p == job[w]
<1>1. pc[w] \in Steps \ {"free"} /\ to \in (Steps \ {"free"}) \cup {"done", "throw"}
  BY DEF QueueInv, TypeOK
<1>2. /\ JobInv' /\ p \in Predictions
      /\ pc' \in [Workers -> Steps] /\ job' \in [Workers -> Predictions \cup {None}]
      /\ failedJobs' \in SUBSET Predictions
  BY <1>1, AdvanceJobs DEF QueueInv
<1>3. /\ pc'[w] = "free" /\ job'[w] = None
      /\ \A v \in Workers : v # w => pc'[v] = pc[v] /\ job'[v] = job[v]
  BY DEF Advance, QueueInv, TypeOK
<1>4. TypeOK'
  BY <1>2 DEF QueueInv, TypeOK
<1>4a. failedJobs \subseteq failedJobs' /\ (to = "throw" => p \in failedJobs')
  BY DEF Advance
<1>5. RowInv'
  <2>1. \A q \in Predictions : Holds(queue, q)' <=> Holds(queue, q)
    BY DEF Holds
  <2>2. ASSUME NEW q \in Predictions, status[q] \in {"queued", "running"}
        PROVE  (\E v \in Workers : job'[v] = q) \/ Holds(queue, q)
                \/ (q \in failedJobs' /\ q \in hit' \cup early)
    <3>1. CASE q = p
      BY <3>1, <2>2, <1>4a DEF QueueInv, RowInv
    <3>2. CASE q # p
      <4>1. CASE \E v \in Workers : job[v] = q
        <5>1. PICK v \in Workers : job[v] = q
          BY <4>1
        <5>2. v # w
          BY <5>1, <3>2
        <5> QED BY <5>1, <5>2, <1>3
      <4> QED BY <4>1, <2>2, <1>4a DEF QueueInv, RowInv
    <3> QED BY <3>1, <3>2
  <2>3. \A v \in Workers : job'[v] # None => status[job'[v]] # "absent"
    BY <1>3 DEF QueueInv, RowInv
  <2>4. \A v \in Workers : pc'[v] \notin {"free", "start", "ack"} => status[job'[v]] = "running"
    BY <1>3 DEF QueueInv, RowInv
  <2>5. \A v \in Workers : pc'[v] = "ack" => status[job'[v]] = "completed"
    BY <1>3 DEF QueueInv, RowInv
  <2>6. \A q \in Predictions :
            stage[q] = "pushed" => Holds(queue, q) \/ (q \in failedJobs' /\ q \in early)
    BY <1>4a DEF QueueInv, RowInv
  <2> QED BY <2>1, <2>2, <2>3, <2>4, <2>5, <2>6 DEF QueueInv, RowInv
<1>6. ResultInv'
  <2>1. ASSUME NEW v \in Workers, job'[v] # None PROVE Written(job[v], pc[v])'
    <3>1. v # w
      BY <2>1, <1>3
    <3> QED BY <3>1, <2>1, <1>3 DEF QueueInv, ResultInv, Written
  <2>2. CompletedIsWhole'
    BY DEF QueueInv, ResultInv, CompletedIsWhole
  <2> QED BY <2>1, <2>2 DEF QueueInv, ResultInv
<1> QED BY <1>2, <1>4, <1>5, <1>6 DEF QueueInv

\* A worker takes a job: of a row that is not visible it makes a failed one.
LEMMA ReserveStep ==
    ASSUME QueueInv, NEW w \in Workers, Reserve(w)
    PROVE  QueueInv'
<1> DEFINE p == Head(queue)
<1> DEFINE missing == status[p] = "absent"
<1>1. /\ pc[w] = "free" /\ queue # <<>> /\ queue' = Tail(queue)
      /\ UNCHANGED <<stage, status, results, hit, faults, kills, retries>>
  BY DEF Reserve, boundVars
<1>2. /\ queue' \in Seq(Predictions) /\ p \in Predictions /\ Distinct(queue')
      /\ Holds(queue, p) /\ ~Holds(queue', p)
      /\ \A x : Holds(queue', x) => Holds(queue, x)
      /\ \A x : Holds(queue, x) => Holds(queue', x) \/ x = p
  <2>1. queue \in Seq(Predictions) /\ Distinct(queue)
    BY DEF QueueInv, TypeOK, JobInv
  <2> QED BY <1>1, <2>1, TailHolds
<1>3. /\ \A q \in Predictions : Holds(queue, q)' <=> Holds(queue', q)
      /\ Distinct(queue)' <=> Distinct(queue')
      /\ \A v \in Workers : Holds(queue, job[v])' <=> Holds(queue', job'[v])
  BY DEF Holds, Distinct
<1>4. /\ job[w] = None /\ stage[p] \notin {"new", "saved"} /\ p \notin failedJobs
      /\ \A v \in Workers : job[v] # p
  BY <1>1, <1>2 DEF QueueInv, JobInv
<1>5. p # None
  BY <1>2, NoneAssumption
<1>6. CASE missing
  <2>1. /\ failedJobs' = failedJobs \cup {p} /\ early' = early \cup {p}
        /\ UNCHANGED <<pc, job, attempts>>
    BY <1>6 DEF Reserve
  <2>2. TypeOK'
    BY <1>1, <1>2, <2>1 DEF QueueInv, TypeOK
  <2>3. JobInv'
    <3>1. \A v \in Workers : ~Holds(queue', job'[v]) /\ job'[v] \notin failedJobs'
      BY <2>1, <1>2, <1>4 DEF QueueInv, JobInv
    <3>2. \A q \in Predictions : Holds(queue', q) => q \notin failedJobs'
      BY <2>1, <1>2 DEF QueueInv, JobInv
    <3>3. \A q \in Predictions :
              stage'[q] \in {"new", "saved"} =>
                  ~Holds(queue', q) /\ q \notin failedJobs' /\ \A v \in Workers : job'[v] # q
      BY <1>1, <2>1, <1>2, <1>4 DEF QueueInv, JobInv
    <3>4. /\ \A v \in Workers : pc'[v] = "free" <=> job'[v] = None
          /\ \A u, v \in Workers : job'[u] # None /\ job'[u] = job'[v] => u = v
      BY <2>1 DEF QueueInv, JobInv
    <3> HIDE DEF p, missing
    <3> QED BY <1>2, <1>3, <3>1, <3>2, <3>3, <3>4 DEF JobInv
  <2>4. RowInv'
    <3>1. \A q \in Predictions : stage'[q] = "pushed" => Holds(queue', q)
            \/ (q \in failedJobs' /\ q \in early')
      BY <1>1, <1>2, <2>1 DEF QueueInv, RowInv
    <3>2. \A q \in Predictions :
              status'[q] \in {"queued", "running"} =>
                  (\E v \in Workers : job'[v] = q) \/ Holds(queue', q)
                          \/ (q \in failedJobs' /\ q \in hit' \cup early')
      BY <1>1, <1>2, <2>1 DEF QueueInv, RowInv
    <3>3. /\ \A q \in Predictions : status'[q] # "absent" <=> stage'[q] = "answered"
          /\ \A v \in Workers : job'[v] # None => status'[job'[v]] # "absent"
          /\ \A v \in Workers : pc'[v] \notin {"free", "start", "ack"}
                => status'[job'[v]] = "running"
          /\ \A v \in Workers : pc'[v] = "ack" => status'[job'[v]] = "completed"
      BY <1>1, <2>1 DEF QueueInv, RowInv
    <3> HIDE DEF p, missing
    <3> QED BY <1>3, <3>1, <3>2, <3>3 DEF RowInv
  <2>5. ResultInv'
    BY <1>1, <2>1 DEF QueueInv, ResultInv, CompletedIsWhole, Written
  <2> QED BY <2>2, <2>3, <2>4, <2>5 DEF QueueInv
<1>7. CASE ~missing
  <2>1. /\ pc' = [pc EXCEPT ![w] = "start"] /\ job' = [job EXCEPT ![w] = p]
        /\ attempts' = [attempts EXCEPT ![p] = @ + 1]
        /\ UNCHANGED <<failedJobs, early>>
    BY <1>7 DEF Reserve
  <2>2. TypeOK'
    BY <1>1, <1>2, <2>1 DEF QueueInv, TypeOK, Steps
  <2>3. /\ pc'[w] = "start" /\ job'[w] = p
        /\ \A v \in Workers : v # w => pc'[v] = pc[v] /\ job'[v] = job[v]
    BY <2>1 DEF QueueInv, TypeOK
  <2>4. JobInv'
    <3>1. \A v \in Workers : ~Holds(queue', job'[v]) /\ job'[v] \notin failedJobs'
      BY <2>1, <2>3, <1>2, <1>4 DEF QueueInv, JobInv
    <3>2. \A q \in Predictions : Holds(queue', q) => q \notin failedJobs'
      BY <2>1, <1>2 DEF QueueInv, JobInv
    <3>3. \A q \in Predictions :
              stage'[q] \in {"new", "saved"} =>
                  ~Holds(queue', q) /\ q \notin failedJobs' /\ \A v \in Workers : job'[v] # q
      BY <1>1, <2>1, <2>3, <1>2, <1>4 DEF QueueInv, JobInv
    <3>4. \A v \in Workers : pc'[v] = "free" <=> job'[v] = None
      BY <2>3, <1>5 DEF QueueInv, JobInv
    <3>5. \A u, v \in Workers : job'[u] # None /\ job'[u] = job'[v] => u = v
      BY <2>3, <1>4 DEF QueueInv, JobInv
    <3> HIDE DEF p, missing
    <3> QED BY <1>2, <1>3, <3>1, <3>2, <3>3, <3>4, <3>5 DEF JobInv
  <2>5. RowInv'
    <3>1. \A q \in Predictions : stage'[q] = "pushed" => Holds(queue', q)
            \/ (q \in failedJobs' /\ q \in early')
      <4>1. stage[p] # "pushed"
        BY <1>2, <1>7 DEF QueueInv, RowInv
      <4> QED BY <1>1, <1>2, <2>1, <4>1 DEF QueueInv, RowInv
    <3>2. ASSUME NEW q \in Predictions, status'[q] \in {"queued", "running"}
          PROVE  (\E v \in Workers : job'[v] = q) \/ Holds(queue', q)
                  \/ (q \in failedJobs' /\ q \in hit' \cup early')
      <4>1. CASE q = p
        BY <4>1, <2>3
      <4>2. CASE q # p
        <5>1. (\E v \in Workers : job[v] = q) \/ Holds(queue, q)
                \/ (q \in failedJobs /\ q \in hit \cup early)
          BY <3>2, <1>1 DEF QueueInv, RowInv
        <5>2. ASSUME NEW v \in Workers, job[v] = q PROVE job'[v] = q
          <6>1. v # w
            BY <5>2, <1>4, NoneAssumption
          <6> QED BY <6>1, <5>2, <2>3
        <5> QED BY <4>2, <5>1, <5>2, <1>1, <1>2, <2>1
      <4> QED BY <4>1, <4>2
    <3>3. \A v \in Workers : job'[v] # None => status'[job'[v]] # "absent"
      BY <1>1, <1>7, <2>3 DEF QueueInv, RowInv
    <3>4. /\ \A v \in Workers : pc'[v] \notin {"free", "start", "ack"}
                => status'[job'[v]] = "running"
          /\ \A v \in Workers : pc'[v] = "ack" => status'[job'[v]] = "completed"
      BY <1>1, <2>3 DEF QueueInv, RowInv
    <3>5. \A q \in Predictions : status'[q] # "absent" <=> stage'[q] = "answered"
      BY <1>1 DEF QueueInv, RowInv
    <3> HIDE DEF p, missing
    <3> QED BY <1>3, <3>1, <3>2, <3>3, <3>4, <3>5 DEF RowInv
  <2>6. ResultInv'
    <3>1. /\ attempts'[p] = attempts[p] + 1 /\ attempts[p] \in Nat
          /\ \A q \in Predictions : q # p => attempts'[q] = attempts[q]
          /\ \A q \in Predictions : results[q].json \in Nat /\ results[q].tiles \in Nat
          /\ \A q \in Predictions : attempts[q] \in Nat /\ attempts[q] <= attempts'[q]
      BY <1>2, <2>1 DEF QueueInv, TypeOK, Results
    <3>2. \A q \in Predictions : results[q].json <= attempts[q] /\ results[q].tiles <= attempts[q]
      BY DEF QueueInv, ResultInv
    <3>3. \A q \in Predictions : results'[q].json <= attempts'[q] /\ results'[q].tiles <= attempts'[q]
      BY <1>1, <3>1, <3>2
    <3>4. ASSUME NEW v \in Workers, job'[v] # None PROVE Written(job[v], pc[v])'
      <4>1. CASE v = w
        <5>1. results[p].json + 1 <= attempts'[p] /\ results[p].tiles + 1 <= attempts'[p]
          BY <1>2, <3>1, <3>2
        <5> QED BY <4>1, <5>1, <2>3, <1>1 DEF Written
      <4>2. CASE v # w
        <5>1. job[v] # p /\ job[v] \in Predictions /\ Written(job[v], pc[v])
          BY <4>2, <3>4, <2>3, <1>4 DEF QueueInv, ResultInv, TypeOK
        <5>2. attempts'[job[v]] = attempts[job[v]]
          BY <5>1, <3>1
        <5> QED BY <5>1, <5>2, <4>2, <2>3, <1>1 DEF Written
      <4> QED BY <4>1, <4>2
    <3>5. ASSUME NEW q \in Predictions, status'[q] = "completed"
          PROVE  /\ results'[q].shap = results'[q].due
                 /\ results'[q].json \in 1 .. attempts'[q]
                 /\ q \in WantsTiles =>
                      /\ results'[q].tiles \in 1 .. attempts'[q]
                      /\ results'[q].onDisk \/ q \in hit'
      <4>1. /\ results[q].shap = results[q].due /\ results[q].json \in 1 .. attempts[q]
            /\ q \in WantsTiles => /\ results[q].tiles \in 1 .. attempts[q]
                                   /\ results[q].onDisk \/ q \in hit
        BY <3>5, <1>1 DEF QueueInv, ResultInv, CompletedIsWhole
      <4>2. attempts[q] \in Nat /\ attempts'[q] \in Nat /\ attempts[q] <= attempts'[q]
        BY <2>2, <3>1 DEF TypeOK
      <4> QED BY <4>1, <4>2, <1>1
    <3> HIDE DEF p, missing
    <3> QED BY <3>3, <3>4, <3>5 DEF ResultInv, CompletedIsWhole
  <2> QED BY <2>2, <2>4, <2>5, <2>6 DEF QueueInv
<1> QED BY <1>6, <1>7

-----------------------------------------------------------------------------
(* The requests and the operator *)

\* The job of p joins the queue, when it is nowhere else.
LEMMA QueueJob ==
    ASSUME QueueInv, NEW p \in Predictions, ~Holds(queue, p), \A w \in Workers : job[w] # p,
           queue' = Append(queue, p), stage' \in [Predictions -> Stages],
           UNCHANGED <<status, results, pc, job, early, attempts, hit, faults, kills>>,
           retries' \in Nat,
           \/ /\ stage' = [stage EXCEPT ![p] = "pushed"] /\ stage[p] = "saved"
              /\ p \notin failedJobs /\ failedJobs' = failedJobs
           \/ /\ stage' = stage /\ p \in failedJobs
              /\ failedJobs' = failedJobs \ {p}
    PROVE  QueueInv'
<1>1. /\ queue' \in Seq(Predictions) /\ Distinct(queue')
      /\ \A x : Holds(queue', x) <=> Holds(queue, x) \/ x = p
  <2>1. queue \in Seq(Predictions) /\ Distinct(queue)
    BY DEF QueueInv, TypeOK, JobInv
  <2> QED BY <2>1, AppendHolds
<1>2. /\ \A q \in Predictions : Holds(queue, q)' <=> Holds(queue', q)
      /\ Distinct(queue)' <=> Distinct(queue')
      /\ \A v \in Workers : Holds(queue, job[v])' <=> Holds(queue', job'[v])
  BY DEF Holds, Distinct
<1>3. TypeOK'
  BY <1>1 DEF QueueInv, TypeOK
<1>4. JobInv'
  <2>1. p \notin failedJobs' /\ failedJobs' \subseteq failedJobs
    OBVIOUS
  <2>2. stage'[p] \notin {"new", "saved"}
    BY DEF QueueInv, TypeOK, JobInv
  <2>3. \A q \in Predictions : q # p => stage'[q] = stage[q]
    BY DEF QueueInv, TypeOK
  <2>4. \A v \in Workers : ~Holds(queue', job'[v]) /\ job'[v] \notin failedJobs'
    BY <1>1, <2>1 DEF QueueInv, JobInv
  <2>5. \A q \in Predictions : Holds(queue', q) => q \notin failedJobs'
    BY <1>1, <2>1 DEF QueueInv, JobInv
  <2>6. \A q \in Predictions :
            stage'[q] \in {"new", "saved"} =>
                ~Holds(queue', q) /\ q \notin failedJobs' /\ \A v \in Workers : job'[v] # q
    BY <1>1, <2>1, <2>2, <2>3 DEF QueueInv, JobInv
  <2>7. /\ \A v \in Workers : pc'[v] = "free" <=> job'[v] = None
        /\ \A u, v \in Workers : job'[u] # None /\ job'[u] = job'[v] => u = v
    BY DEF QueueInv, JobInv
  <2> QED BY <1>1, <1>2, <2>4, <2>5, <2>6, <2>7 DEF JobInv
<1>5. RowInv'
  <2>1. \A q \in Predictions : status'[q] # "absent" <=> stage'[q] = "answered"
    BY DEF QueueInv, TypeOK, RowInv
  <2>2. \A q \in Predictions : stage'[q] = "pushed" => Holds(queue', q)
          \/ (q \in failedJobs' /\ q \in early')
    BY <1>1 DEF QueueInv, TypeOK, RowInv
  <2>3. \A q \in Predictions :
            status'[q] \in {"queued", "running"} =>
                (\E v \in Workers : job'[v] = q) \/ Holds(queue', q)
                        \/ (q \in failedJobs' /\ q \in hit' \cup early')
    BY <1>1 DEF QueueInv, RowInv
  <2>4. /\ \A v \in Workers : job'[v] # None => status'[job'[v]] # "absent"
        /\ \A v \in Workers : pc'[v] \notin {"free", "start", "ack"}
              => status'[job'[v]] = "running"
        /\ \A v \in Workers : pc'[v] = "ack" => status'[job'[v]] = "completed"
    BY DEF QueueInv, RowInv
  <2> QED BY <1>2, <2>1, <2>2, <2>3, <2>4 DEF RowInv
<1>6. ResultInv'
  BY DEF QueueInv, ResultInv, CompletedIsWhole, Written
<1> QED BY <1>3, <1>4, <1>5, <1>6 DEF QueueInv

\* Steps of a request that leave the queue alone.
LEMMA StageStep ==
    ASSUME QueueInv, NEW p \in Predictions, NEW to \in Stages,
           stage' = [stage EXCEPT ![p] = to],
           UNCHANGED <<results, queue, pc, job, failedJobs, early, attempts, kills, retries>>,
           hit' \in SUBSET Predictions, hit \subseteq hit', faults' \in Nat,
           \/ to = "saved" /\ stage[p] = "new" /\ status' = status
           \/ to = "rolledBack" /\ stage[p] \in {"saved", "pushed"} /\ status' = status
           \/ /\ to = "answered" /\ stage[p] = "pushed"
              /\ status' = [status EXCEPT ![p] = "queued"]
    PROVE  QueueInv'
<1>1. TypeOK'
  BY DEF QueueInv, TypeOK, Status
<1>2. /\ \A q \in Predictions : Holds(queue, q)' <=> Holds(queue, q)
      /\ Distinct(queue)' <=> Distinct(queue)
      /\ \A v \in Workers : Holds(queue, job[v])' <=> Holds(queue, job[v])
  BY DEF Holds, Distinct
<1>3. stage'[p] = to /\ \A q \in Predictions : q # p => stage'[q] = stage[q]
  BY DEF QueueInv, TypeOK
<1>4. JobInv'
  <2>1. \A q \in Predictions :
            stage'[q] \in {"new", "saved"} =>
                ~Holds(queue, q) /\ q \notin failedJobs /\ \A v \in Workers : job[v] # q
    BY <1>3 DEF QueueInv, JobInv
  <2> QED BY <1>2, <2>1 DEF QueueInv, JobInv
<1>5. \A v \in Workers : job[v] # None => job[v] # p
  <2>1. status[p] = "absent"
    BY DEF QueueInv, RowInv
  <2> QED BY <2>1 DEF QueueInv, RowInv
<1>6. \A q \in Predictions : q # p => status'[q] = status[q]
  BY DEF QueueInv, TypeOK
<1>7. RowInv'
  <2>1. \A v \in Workers : job[v] # None => status'[job[v]] = status[job[v]]
    BY <1>5, <1>6 DEF QueueInv, TypeOK
  <2>2. \A q \in Predictions : status'[q] # "absent" <=> stage'[q] = "answered"
    <3>1. status'[p] # "absent" <=> to = "answered"
      BY DEF QueueInv, TypeOK, RowInv
    <3> QED BY <3>1, <1>3, <1>6 DEF QueueInv, RowInv
  <2>3. \A q \in Predictions : stage'[q] = "pushed" => Holds(queue, q)
          \/ (q \in failedJobs /\ q \in early)
    BY <1>3 DEF QueueInv, RowInv
  <2>4. ASSUME NEW q \in Predictions, status'[q] \in {"queued", "running"}
        PROVE  (\E v \in Workers : job[v] = q) \/ Holds(queue, q)
                \/ (q \in failedJobs' /\ q \in hit' \cup early)
    <3>1. CASE q # p
      BY <3>1, <2>4, <1>6 DEF QueueInv, RowInv
    <3>2. CASE q = p
      <4>1. stage[p] = "pushed"
        BY <3>2, <2>4 DEF QueueInv, RowInv
      <4> QED BY <3>2, <4>1 DEF QueueInv, RowInv
    <3> QED BY <3>1, <3>2
  <2>5. \A v \in Workers : job[v] # None => status'[job[v]] # "absent"
    BY <2>1 DEF QueueInv, RowInv
  <2>6. /\ \A v \in Workers : pc[v] \notin {"free", "start", "ack"} => status'[job[v]] = "running"
        /\ \A v \in Workers : pc[v] = "ack" => status'[job[v]] = "completed"
    BY <2>1 DEF QueueInv, RowInv, JobInv
  <2> QED BY <1>2, <2>2, <2>3, <2>4, <2>5, <2>6 DEF RowInv
<1>8. ResultInv'
  <2>1. \A v \in Workers : job[v] # None => Written(job[v], pc[v])'
    BY DEF QueueInv, ResultInv, Written
  <2>2. CompletedIsWhole'
    <3>1. \A q \in Predictions : status'[q] = "completed" => status[q] = "completed"
      BY <1>6 DEF QueueInv, TypeOK
    <3> QED BY <3>1 DEF QueueInv, ResultInv, CompletedIsWhole
  <2> QED BY <2>1, <2>2 DEF QueueInv, ResultInv
<1> QED BY <1>1, <1>4, <1>7, <1>8 DEF QueueInv

LEMMA RequestWork ==
    ASSUME QueueInv, NEW p \in Predictions, RequestStep(p) \/ Retry(p)
    PROVE  QueueInv'
<1>1. CASE Save(p)
  <2>1. hit' \in SUBSET Predictions /\ hit \subseteq hit' /\ faults' \in Nat
    BY <1>1 DEF Save, QueueInv, TypeOK
  <2> QED BY <1>1, <2>1, StageStep DEF Save, workerVars, boundVars, Stages
<1>2. ASSUME Fault(p) PROVE hit' \in SUBSET Predictions /\ hit \subseteq hit' /\ faults' \in Nat
  BY <1>2, BoundsAssumption DEF Fault, QueueInv, TypeOK
<1>3. CASE Push(p)
  <2>1. CASE stage' = [stage EXCEPT ![p] = "pushed"] /\ queue' = Append(queue, p) /\ NoFault
    <3>1. /\ stage[p] = "saved" /\ failedJobs' = failedJobs /\ retries' = retries
          /\ UNCHANGED <<status, results, pc, job, early, attempts, hit, faults, kills>>
      BY <1>3, <2>1 DEF Push, NoFault, workerVars, boundVars
    <3>2. ~Holds(queue, p) /\ p \notin failedJobs /\ \A w \in Workers : job[w] # p
      BY <3>1 DEF QueueInv, JobInv
    <3>3. stage' \in [Predictions -> Stages] /\ retries' \in Nat
      BY <2>1, <3>1 DEF QueueInv, TypeOK, Stages
    <3> QED BY <2>1, <3>1, <3>2, <3>3, QueueJob
  <2>2. CASE stage' = [stage EXCEPT ![p] = "rolledBack"] /\ Fault(p) /\ UNCHANGED queue
    BY <1>2, <1>3, <2>2, StageStep DEF Push, workerVars, boundVars, Stages
  <2> QED BY <1>3, <2>1, <2>2 DEF Push
<1>4. CASE Commit(p)
  <2>1. CASE /\ stage' = [stage EXCEPT ![p] = "answered"]
             /\ status' = [status EXCEPT ![p] = "queued"]
             /\ NoFault
    <3>1. hit' \in SUBSET Predictions /\ hit \subseteq hit' /\ faults' \in Nat
      BY <2>1 DEF NoFault, QueueInv, TypeOK
    <3> QED BY <1>4, <2>1, <3>1, StageStep DEF Commit, workerVars, boundVars, Stages
  <2>2. CASE stage' = [stage EXCEPT ![p] = "rolledBack"] /\ Fault(p) /\ UNCHANGED status
    BY <1>2, <1>4, <2>2, StageStep DEF Commit, workerVars, boundVars, Stages
  <2> QED BY <1>4, <2>1, <2>2 DEF Commit
<1>5. CASE Retry(p)
  <2>1. /\ p \in failedJobs /\ failedJobs' = failedJobs \ {p} /\ queue' = Append(queue, p)
        /\ stage' = stage
        /\ UNCHANGED <<status, results, pc, job, early, attempts, hit, faults, kills>>
    BY <1>5 DEF Retry
  <2>2. ~Holds(queue, p) /\ \A w \in Workers : job[w] # p
    BY <2>1 DEF QueueInv, JobInv
  <2>3. stage' \in [Predictions -> Stages] /\ retries' \in Nat
    BY <1>5, BoundsAssumption DEF Retry, QueueInv, TypeOK
  <2> QED BY <2>1, <2>2, <2>3, QueueJob
<1> QED BY <1>1, <1>3, <1>4, <1>5 DEF RequestStep

LEMMA JobWork ==
    ASSUME QueueInv, NEW w \in Workers, WorkerStep(w) \/ Kill(w)
    PROVE  QueueInv'
<1>1. CASE Start(w) \/ Complete(w) \/ Fail(w)
  BY <1>1, StatusStep DEF Start, Complete, Fail
<1>2. CASE Ack(w)
  <2>1. /\ pc[w] = "ack" /\ Advance(w, pc[w], "done")
        /\ UNCHANGED <<stage, status, results, queue, early, attempts, faults, retries>>
        /\ hit' \in SUBSET Predictions /\ hit \subseteq hit' /\ kills' \in Nat
    BY <1>2 DEF Ack, Advance, boundVars, QueueInv, TypeOK
  <2> QED BY <2>1, EndStep
<1>3. CASE Kill(w)
  <2>1. /\ pc[w] # "free" /\ Advance(w, pc[w], "throw") /\ hit' = hit \cup {job[w]}
        /\ UNCHANGED <<stage, status, results, queue, early, attempts, faults, retries>>
    BY <1>3 DEF Kill
  <2>2. hit' \in SUBSET Predictions /\ hit \subseteq hit' /\ job[w] \in hit'
    BY <2>1, InHandFacts DEF QueueInv, TypeOK
  <2>3. kills' \in Nat
    BY <1>3 DEF Kill, QueueInv, TypeOK
  <2> QED BY <2>1, <2>2, <2>3, EndStep
<1> QED
  BY <1>1, <1>2, <1>3, ReserveStep, ComputeStep, DropShapStep, SaveShapStep,
     JsonStep, PutTilesStep, SaveTilesStep
  DEF WorkerStep

LEMMA InitWork == Init => QueueInv
<1> SUFFICES ASSUME Init PROVE QueueInv
  OBVIOUS
<1>1. TypeOK
  BY DEF Init, TypeOK, Stages, Status, Steps, Results, Nothing
<1>2. \A x : ~Holds(queue, x)
  BY DEF Init, Holds
<1>3. JobInv
  BY <1>2, NoneAssumption DEF Init, JobInv, Distinct
<1>4. RowInv
  BY <1>2, NoneAssumption DEF Init, RowInv
<1>5. ResultInv
  BY DEF Init, ResultInv, CompletedIsWhole, Nothing
<1> QED BY <1>1, <1>3, <1>4, <1>5 DEF QueueInv

LEMMA NextWork == QueueInv /\ [Next]_vars => QueueInv'
<1> SUFFICES ASSUME QueueInv, [Next]_vars PROVE QueueInv'
  OBVIOUS
<1>1. CASE Next
  BY <1>1, RequestWork, JobWork DEF Next
<1>2. CASE UNCHANGED vars
  <2>1. UNCHANGED <<stage, status, results, queue, pc, job, failedJobs, early, attempts,
                    hit, faults, kills, retries>>
    BY <1>2 DEF vars, workerVars, boundVars
  <2>2. /\ \A q \in Predictions : Holds(queue, q)' <=> Holds(queue, q)
        /\ Distinct(queue)' <=> Distinct(queue)
        /\ \A v \in Workers : Holds(queue, job[v])' <=> Holds(queue, job[v])
    BY <2>1 DEF Holds, Distinct
  <2>3. TypeOK'
    BY <2>1 DEF QueueInv, TypeOK
  <2>4. JobInv'
    BY <2>1, <2>2 DEF QueueInv, JobInv
  <2>5. RowInv'
    BY <2>1, <2>2 DEF QueueInv, RowInv
  <2>6. ResultInv'
    BY <2>1 DEF QueueInv, ResultInv, CompletedIsWhole, Written
  <2> QED BY <2>3, <2>4, <2>5, <2>6 DEF QueueInv
<1> QED BY <1>1, <1>2

LEMMA QueueInvariant == Spec => []QueueInv
BY InitWork, NextWork, PTL DEF Spec

-----------------------------------------------------------------------------
(* Theorems *)

\* Every variable keeps its type: stages, statuses, results, steps and jobs.
THEOREM QueueTypeCorrect == Spec => []TypeOK
<1>1. QueueInv => TypeOK
  BY DEF QueueInv
<1> QED BY <1>1, QueueInvariant, PTL

\* Whatever is retried, killed or rolled back, a prediction has at most one job: its
\* outputs are never written by two workers at a time.
THEOREM OneJobAlways == Spec => []OneJobEach
<1>1. QueueInv => OneJobEach
  <2> SUFFICES ASSUME QueueInv PROVE OneJobEach
    OBVIOUS
  <2> SUFFICES ASSUME NEW p \in Predictions
               PROVE  /\ InHand(p) => ~Waiting(p) /\ p \notin failedJobs
                      /\ Waiting(p) => p \notin failedJobs
                      /\ \A v, w \in Workers : job[v] = p /\ job[w] = p => v = w
    BY DEF OneJobEach
  <2>1. Waiting(p) <=> Holds(queue, p)
    BY DEF Waiting, Holds
  <2>2. p # None
    BY NoneAssumption
  <2> QED BY <2>1, <2>2 DEF QueueInv, JobInv, InHand
<1> QED BY <1>1, QueueInvariant, PTL

\* A completed prediction has what it was asked for, the SHAP values of one attempt and
\* no other, and no more outputs than attempts, whatever attempts were cut short before.
THEOREM CompletedAlwaysWhole == Spec => []CompletedIsWhole
<1>1. QueueInv => CompletedIsWhole
  BY DEF QueueInv, ResultInv
<1> QED BY <1>1, QueueInvariant, PTL

\* A prediction reported as pending has its job, unless a kill or the race with the
\* commit took it away.
THEOREM PendingAlwaysHasJob == Spec => []PendingHasJob
<1>1. QueueInv => PendingHasJob
  BY DEF QueueInv, RowInv, PendingHasJob, InHand, Waiting, Holds
<1> QED BY <1>1, QueueInvariant, PTL

\* The queue implements the rows that the browser polls: every step of a request, a
\* worker, a kill or a retry is a step of PredictionRows or leaves the status alone.
THEOREM QueueImplementsRows == Spec => RowsAdvance
<1>1. Init => Rows!RowsInit
  BY DEF Init, Rows!RowsInit
<1>2. QueueInv /\ [Next]_vars => [Rows!RowsNext]_status
  <2> SUFFICES ASSUME QueueInv, [Next]_vars PROVE [Rows!RowsNext]_status
    OBVIOUS
  <2>1. ASSUME NEW p \in Predictions, Commit(p) PROVE Rows!Appear(p) \/ UNCHANGED status
    BY <2>1 DEF Commit, Rows!Appear, QueueInv, RowInv
  <2>2. ASSUME NEW w \in Workers, Start(w) PROVE Rows!Work(job[w])
    <3>1. pc[w] = "start" /\ status' = [status EXCEPT ![job[w]] = "running"]
      BY <2>2 DEF Start, SaveStatus, Advance
    <3> QED BY <3>1, InHandFacts DEF Rows!Work, QueueInv, RowInv
  <2>3. ASSUME NEW w \in Workers, Complete(w) \/ Fail(w) PROVE Rows!Finish(job[w])
    <3>1. PICK value \in {"completed", "failed"} :
              /\ pc[w] \in {"complete", "fail"}
              /\ status' = [status EXCEPT ![job[w]] = value]
      BY <2>3 DEF Complete, Fail, SaveStatus, Advance
    <3>2. status[job[w]] = "running"
      BY <3>1 DEF QueueInv, RowInv
    <3> QED BY <3>1, <3>2 DEF Rows!Finish
  <2>4. ASSUME NEW p \in Predictions, Save(p) \/ Push(p) \/ Retry(p) PROVE UNCHANGED status
    BY <2>4 DEF Save, Push, Retry
  <2>5. ASSUME NEW w \in Workers,
               \/ Reserve(w) \/ Compute(w) \/ DropShap(w) \/ SaveShap(w) \/ SaveJson(w)
               \/ PutTiles(w) \/ SaveTiles(w) \/ Ack(w) \/ Kill(w)
        PROVE  UNCHANGED status
    BY <2>5 DEF Reserve, Compute, DropShap, SaveShap, SaveJson, PutTiles, SaveTiles,
                SaveResults, Ack, Kill
  <2>6. CASE UNCHANGED vars
    BY <2>6 DEF vars
  <2>7. CASE \E p \in Predictions : RequestStep(p) \/ Retry(p)
    BY <2>7, <2>1, <2>4 DEF RequestStep, Rows!RowsNext
  <2>8. CASE \E w \in Workers : WorkerStep(w) \/ Kill(w)
    <3>1. PICK w \in Workers : WorkerStep(w) \/ Kill(w)
      BY <2>8
    <3>2. CASE Start(w) \/ Complete(w) \/ Fail(w)
      <4>1. job[w] \in Predictions
        BY <3>2, InHandFacts DEF Start, Complete, Fail, SaveStatus, Advance
      <4> QED BY <3>2, <4>1, <2>2, <2>3 DEF Rows!RowsNext
    <3> QED BY <3>1, <3>2, <2>5 DEF WorkerStep
  <2> QED BY <2>6, <2>7, <2>8 DEF Next
<1> QED BY <1>1, <1>2, QueueInvariant, PTL DEF Spec, RowsAdvance, Rows!RowsSpec
=============================================================================
