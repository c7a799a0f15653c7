----------------------------- MODULE MCBrowser -----------------------------
(***************************************************************************)
(* Instance for TLC of the parts of the browser that share no state: the   *)
(* prediction page, the scheduler of the map's tiles, and the session of   *)
(* two tabs.  A behaviour is about one of them, the scene, while the other *)
(* two stay as they are at first, where none of their fair actions is      *)
(* enabled; the product of the three would show nothing more.              *)
(***************************************************************************)
EXTENDS PredictionPage, TileScheduler, SessionTokens

VARIABLE scene

\* Only the map's own scenes vary how the map begins.
Init ==
    /\ scene \in {"page", "map", "session"}
    /\ PageInit /\ TileInit /\ SessionInit
    /\ scene # "map" => heat /\ ~points
    /\ scene # "session" => fresh = {1}

Next ==
    /\ UNCHANGED scene
    /\ \/ scene = "page" /\ PageNext /\ UNCHANGED <<tileVars, sessionVars>>
       \/ scene = "map" /\ TileNext /\ UNCHANGED <<pageVars, sessionVars>>
       \/ scene = "session" /\ SessionNext /\ UNCHANGED <<pageVars, tileVars>>

Spec ==
    /\ Init /\ [][Next]_<<scene, pageVars, tileVars, sessionVars>>
    /\ PageFairness /\ SessionFairness
=============================================================================
