--------------------------- MODULE PredictionRows ---------------------------
(***************************************************************************)
(* What the status column of a prediction promises to those who poll it:   *)
(* a row appears as queued, is running while a job works on it, and ends   *)
(* as completed or failed.  A job that was left behind may be retried,     *)
(* also when the row is completed.  PredictionQueue implements it;         *)
(* PredictionPage is the client of it.                                     *)
(***************************************************************************)
CONSTANTS Predictions

Status == {"absent", "queued", "running", "completed", "failed"}

VARIABLES status

RowsInit == status = [p \in Predictions |-> "absent"]

Appear(p) ==
    /\ status[p] = "absent"
    /\ status' = [status EXCEPT ![p] = "queued"]

\* A job begins, perhaps after one that failed or was killed.
Work(p) ==
    /\ status[p] # "absent"
    /\ status' = [status EXCEPT ![p] = "running"]

Finish(p) ==
    /\ status[p] = "running"
    /\ \E result \in {"completed", "failed"} : status' = [status EXCEPT ![p] = result]

RowsNext == \E p \in Predictions : Appear(p) \/ Work(p) \/ Finish(p)

RowsSpec == RowsInit /\ [][RowsNext]_status
=============================================================================
