---------------------------- MODULE MCAdminPages ----------------------------
(***************************************************************************)
(* Instance for TLC of the admin pages of the browser: how a tab follows   *)
(* its models (ModelTracking), which job its idempotency keys stand for    *)
(* (SubmissionKeys), and how the datasets page follows its datasets        *)
(* (DatasetsPage).  A behaviour is about one of them, the scene, while the *)
(* others stay as they are at first, where none of their fair actions is   *)
(* enabled.  The datasets page has two scenes with bounds of their own:    *)
(* one dataset, with lists that overlap, and two datasets.                 *)
(***************************************************************************)
EXTENDS ModelTracking, SubmissionKeys, DatasetsPage

CONSTANTS d1, d2

VARIABLE scene

MCFilters == {Active \cup Ended, {"processing"}}

MCInit ==
    /\ scene \in {"tracking", "keys", "one dataset", "two datasets"}
    /\ Init /\ KeysInit /\ DatasetsInit
    /\ scene # "tracking" => tab.keyed

MCNext ==
    /\ UNCHANGED scene
    /\ \/ scene = "tracking" /\ Next /\ UNCHANGED <<keyVars, datasetsVars>>
       \/ scene = "keys" /\ KeysNext /\ UNCHANGED <<vars, datasetsVars>>
       \/ /\ scene = "one dataset" /\ DatasetsNext /\ UNCHANGED <<vars, keyVars>>
          /\ dataset'[d2] = "none" /\ wizard'.posting # d2
       \/ /\ scene = "two datasets" /\ DatasetsNext /\ UNCHANGED <<vars, keyVars>>
          /\ Cardinality(lists') <= 1 /\ visits' + turns' <= 3

MCSpec ==
    /\ MCInit /\ [][MCNext]_<<scene, vars, keyVars, datasetsVars>>
    /\ DatasetsFairness
=============================================================================
