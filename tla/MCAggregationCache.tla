------------------------- MODULE MCAggregationCache -------------------------
(***************************************************************************)
(* Instances of AggregationCache for TLC.                                  *)
(***************************************************************************)
EXTENDS AggregationCache, TLC
=============================================================================
