--------------------------- MODULE TileScheduler ---------------------------
(***************************************************************************)
(* The heat map tiles of one mounted components/map/MapView.vue: a queue   *)
(* of tile requests of which at most MaxConcurrent run, and the abort      *)
(* controllers of the Leaflet layer that wants the tiles.                  *)
(*                                                                         *)
(* A tile is a canvas of the layer and the request for it.  A loop over    *)
(* tiles that aborts them is cut at its turns: doomed are the tiles it has *)
(* still to abort, and nothing else happens before it is empty, since      *)
(* JavaScript runs to completion.  The prediction store matters to the map *)
(* only by whether there are points.                                       *)
(***************************************************************************)
EXTENDS Naturals, Sequences, FiniteSets

CONSTANTS
    Tiles,
    MaxConcurrent       \* MAX_CONCURRENT_TILE_REQUESTS

ASSUME MaxConcurrentAssumption == MaxConcurrent \in Nat \ {0}

VARIABLES
    queue,        \* tileRequestQueue
    running,      \* tiles whose task has begun and not ended
    active,       \* activeTileRequests
    controllers,  \* the tiles in the layer's map of controllers
    cancelled,    \* running tiles whose signal is aborted
    doomed,       \* tiles that a loop is about to abort
    canvases,     \* the tiles in the layer
    onMap,        \* the map has the layer
    heat, points, \* showHeatmap, hasPointData()
    mounted

requestVars == <<queue, running, active>>
displayVars == <<onMap, heat, points, mounted>>
tileVars == <<requestVars, controllers, cancelled, doomed, canvases, displayVars>>

\* splice(i, 1)
RemoveAt(q, i) == SubSeq(q, 1, i - 1) \o SubSeq(q, i + 1, Len(q))

Elements(q) == {q[i] : i \in 1 .. Len(q)}

Queued == Elements(queue)

TileInit ==
    /\ queue = <<>> /\ running = {} /\ active = 0
    /\ controllers = {} /\ cancelled = {} /\ doomed = {} /\ canvases = {}
    /\ heat \in BOOLEAN /\ points \in BOOLEAN
    /\ onMap = (heat /\ ~points)
    /\ mounted = TRUE

-----------------------------------------------------------------------------
(* The queue *)

\* processTileQueue on the queue q with r running and a slots taken: free slots
\* take the oldest requests.  A queued request is never aborted, see Abort.
Process(q, r, a) ==
    LET n == IF Len(q) <= MaxConcurrent - a THEN Len(q) ELSE MaxConcurrent - a
    IN  /\ queue' = SubSeq(q, n + 1, Len(q))
        /\ running' = r \cup {q[i] : i \in 1 .. n}
        /\ active' = a + n

\* createTile and scheduleTileRequest.
CreateTile(t) ==
    /\ onMap /\ doomed = {}
    /\ t \notin canvases \cup running \cup Queued
    /\ canvases' = canvases \cup {t}
    /\ controllers' = controllers \cup {t}
    /\ Process(Append(queue, t), running, active)
    /\ UNCHANGED <<cancelled, doomed, displayVars>>

\* Mutant: only a request that succeeds gives its slot back.
TaskEndsKeepsSlot(t) ==
    /\ t \in running /\ doomed = {}
    /\ controllers' = controllers \ {t}
    /\ cancelled' = cancelled \ {t}
    /\ \/ Process(queue, running \ {t}, active - 1)
       \/ Process(queue, running \ {t}, active)
    /\ UNCHANGED <<doomed, canvases, displayVars>>

\* The request succeeds, fails, or was aborted and is rejected, after the retries of
\* apiClient; until then it keeps its slot.
TaskEnds(t) ==
    /\ t \in running /\ doomed = {}
    /\ controllers' = controllers \ {t}
    /\ cancelled' = cancelled \ {t}
    /\ Process(queue, running \ {t}, active - 1)
    /\ UNCHANGED <<doomed, canvases, displayVars>>

\* controller.abort(): a queued request leaves the queue and is rejected, a running
\* one has no listener any more and only its signal is aborted.
Abort(t) ==
    /\ t \in doomed
    /\ doomed' = doomed \ {t}
    /\ controllers' = controllers \ {t}
    /\ IF t \in Queued
       THEN /\ \E i \in 1 .. Len(queue) :
                  /\ queue[i] = t
                  /\ Process(RemoveAt(queue, i), running, active)
            /\ UNCHANGED cancelled
       ELSE /\ cancelled' = cancelled \cup ({t} \cap running)
            /\ UNCHANGED requestVars
    /\ UNCHANGED <<canvases, displayVars>>

-----------------------------------------------------------------------------
(* The layer *)

\* The layer loses its tiles: tileunload for each of them, or cancelPending.
DropTiles ==
    /\ canvases' = {}
    /\ doomed' = controllers
    /\ UNCHANGED <<requestVars, controllers, cancelled>>

\* Mutant: nobody listens to tileunload.
UnloadQuietly(t) ==
    /\ t \in canvases /\ doomed = {}
    /\ canvases' = canvases \ {t}
    /\ UNCHANGED <<requestVars, controllers, cancelled, doomed, displayVars>>

\* A tile leaves the view: handleTileUnload.
Unload(t) ==
    /\ t \in canvases /\ doomed = {}
    /\ canvases' = canvases \ {t}
    /\ doomed' = {t} \cap controllers
    /\ UNCHANGED <<requestVars, controllers, cancelled, displayVars>>

\* tileOptions changed, or new points are none again: a layer on the map is redrawn.
Redraw ==
    /\ onMap /\ doomed = {}
    /\ DropTiles
    /\ UNCHANGED displayVars

\* showHeatmap or the points change, and updateHeatmap runs: hidden, shown or redrawn.
UpdateHeatmap ==
    /\ mounted /\ doomed = {}
    /\ heat' \in BOOLEAN /\ points' \in BOOLEAN
    /\ heat' # heat \/ points' # points
    /\ onMap' = (heat' /\ ~points')
    /\ DropTiles
    /\ UNCHANGED mounted

\* onBeforeUnmount: the map is removed and the layer disposed.
Unmount ==
    /\ mounted /\ doomed = {}
    /\ mounted' = FALSE /\ onMap' = FALSE
    /\ DropTiles
    /\ UNCHANGED <<heat, points>>

-----------------------------------------------------------------------------
TileNext ==
    \/ \E t \in Tiles : CreateTile(t) \/ TaskEnds(t) \/ Abort(t) \/ Unload(t)
    \/ Redraw \/ UpdateHeatmap \/ Unmount

TileSpec == TileInit /\ [][TileNext]_tileVars

-----------------------------------------------------------------------------
(* Properties *)

TileTypeOK ==
    /\ queue \in Seq(Tiles)
    /\ running \in SUBSET Tiles /\ controllers \in SUBSET Tiles
    /\ cancelled \in SUBSET Tiles /\ doomed \in SUBSET Tiles /\ canvases \in SUBSET Tiles
    /\ active \in Nat
    /\ onMap \in BOOLEAN /\ heat \in BOOLEAN /\ points \in BOOLEAN /\ mounted \in BOOLEAN

\* The counter tells how many requests run, never more than allowed, and no slot is
\* idle while a request waits: no path through the aborts, the retries and the two
\* ends of a promise loses a slot or gives it back twice.
SlotsAreUsed ==
    /\ active = Cardinality(running)
    /\ active <= MaxConcurrent
    /\ queue # <<>> => active = MaxConcurrent

\* A request that waits, or runs without being aborted, is for a tile of the layer:
\* nothing is fetched for tiles out of view, for a hidden layer or for old options,
\* and what is still wanted can be aborted.
OnlyWantedRuns ==
    doomed = {} =>
        /\ Queued \cup (running \ cancelled) = controllers
        /\ controllers \subseteq canvases
        /\ ~onMap => canvases = {}
=============================================================================
