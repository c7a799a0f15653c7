------------------------- MODULE MCDatasetIngestion -------------------------
(***************************************************************************)
(* Instance of DatasetIngestion for TLC: one remote dataset and one upload *)
(***************************************************************************)
EXTENDS DatasetIngestion

CONSTANTS remote, upload

\* Each retry downloads a file with fewer rows than the one before, the last with none.
MCBatches ==
    [f \in Datasets \X Attempts |->
        IF f[1] = upload THEN 1 ELSE MaxRetries + 1 - f[2]]
=============================================================================
