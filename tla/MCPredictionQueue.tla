-------------------------- MODULE MCPredictionQueue --------------------------
(***************************************************************************)
(* Instance of PredictionQueue for TLC.                                    *)
(***************************************************************************)
EXTENDS PredictionQueue
=============================================================================
