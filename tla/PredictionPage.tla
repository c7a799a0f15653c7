--------------------------- MODULE PredictionPage ---------------------------
(***************************************************************************)
(* The prediction page of one browser in front of the rows that the server *)
(* keeps (PredictionRows): the POST of PredictionClient makes a row appear *)
(* or not, and its GETs are answered from the row of some moment between   *)
(* their question and their answer.                                        *)
(***************************************************************************)
EXTENDS Naturals, PredictionRows

CONSTANTS
    None,
    MaxLost,      \* bound: requests of the browser that fail
    MaxPicks      \* bound: selections from the history

ASSUME PageBoundsAssumption == MaxLost \in Nat /\ MaxPicks \in Nat

VARIABLES
    flow, late, aborted, controller, picking, shown, last, loading, stranded,
    stored,       \* per prediction: what store() did, "no", "yes" or "refused"
    read,         \* per prediction: the status read for the GET of its poll
    seen,         \* per prediction: the status read for the GET of its selection
    lost, picks

INSTANCE PredictionClient

clientVars == <<flow, late, aborted, controller, picking, shown, last, loading, stranded>>
netVars == <<stored, read, seen, lost, picks>>
pageVars == <<status, clientVars, netVars>>

NotRead == "none"

PageInit ==
    /\ RowsInit /\ ClientInit
    /\ stored = [p \in Predictions |-> "no"]
    /\ read = [p \in Predictions |-> NotRead]
    /\ seen = [p \in Predictions |-> NotRead]
    /\ lost = 0 /\ picks = 0

Lost == lost < MaxLost /\ lost' = lost + 1

-----------------------------------------------------------------------------
(* POST /predictions *)

\* The row is there, or store() was rolled back; also if the browser gave up.
Store(p) ==
    /\ flow[p] = "post" /\ stored[p] = "no"
    /\ \/ Appear(p) /\ stored' = [stored EXCEPT ![p] = "yes"]
       \/ UNCHANGED status /\ stored' = [stored EXCEPT ![p] = "refused"]
    /\ UNCHANGED <<clientVars, read, seen, lost, picks>>

PostQueued(p) ==
    /\ stored[p] = "yes"
    /\ PostAnswered(p, "queued")
    /\ UNCHANGED <<status, netVars>>

Refused(p) ==
    /\ stored[p] = "refused"
    /\ PostFails(p)
    /\ UNCHANGED <<status, netVars>>

\* No answer, whether store() ran or not.
PostLost(p) ==
    /\ PostFails(p)
    /\ Lost
    /\ UNCHANGED <<status, stored, read, seen, picks>>

Invalid(p) ==
    /\ stored[p] = "no"
    /\ PostInvalid(p)
    /\ UNCHANGED <<status, netVars>>

-----------------------------------------------------------------------------
(* GET /predictions/{id} *)

ReadRow(p) ==
    /\ flow[p] = "get" /\ read[p] = NotRead
    /\ read' = [read EXCEPT ![p] = status[p]]
    /\ UNCHANGED <<status, clientVars, stored, seen, lost, picks>>

\* A completed row has its outputs.
PollArrives(p) ==
    /\ read[p] # NotRead
    /\ PollAnswered(p, read[p], read[p] = "completed")
    /\ read' = [read EXCEPT ![p] = NotRead]
    /\ UNCHANGED <<status, stored, seen, lost, picks>>

PollLost(p) ==
    /\ PollFails(p)
    /\ Lost
    /\ read' = [read EXCEPT ![p] = NotRead]
    /\ UNCHANGED <<status, stored, seen, picks>>

PollGivenUp(p) ==
    /\ PollCanceled(p)
    /\ read' = [read EXCEPT ![p] = NotRead]
    /\ UNCHANGED <<status, stored, seen, lost, picks>>

\* The history lists rows that exist.
Pick(p) ==
    /\ status[p] # "absent"
    /\ picks < MaxPicks /\ picks' = picks + 1
    /\ Select(p)
    /\ UNCHANGED <<status, stored, read, seen, lost>>

ReadPick(p) ==
    /\ p \in picking /\ seen[p] = NotRead
    /\ seen' = [seen EXCEPT ![p] = status[p]]
    /\ UNCHANGED <<status, clientVars, stored, read, lost, picks>>

PickArrives(p) ==
    /\ seen[p] # NotRead
    /\ Selected(p, seen[p])
    /\ seen' = [seen EXCEPT ![p] = NotRead]
    /\ UNCHANGED <<status, stored, read, lost, picks>>

PickLost(p) ==
    /\ SelectFails(p)
    /\ Lost
    /\ seen' = [seen EXCEPT ![p] = NotRead]
    /\ UNCHANGED <<status, stored, read, picks>>

-----------------------------------------------------------------------------
Alone(A) == A /\ UNCHANGED <<status, netVars>>

Browser(p) ==
    \/ Alone(Submit(p)) \/ Alone(ModelsArrive(p)) \/ Alone(Expire(p)) \/ Alone(PollAgain(p))
    \/ PostQueued(p) \/ Refused(p) \/ PostLost(p) \/ Invalid(p)
    \/ PollArrives(p) \/ PollLost(p) \/ PollGivenUp(p)
    \/ Pick(p) \/ PickArrives(p) \/ PickLost(p)

Server(p) ==
    \/ Store(p) \/ ReadRow(p) \/ ReadPick(p)
    \/ (Work(p) \/ Finish(p)) /\ UNCHANGED <<clientVars, netVars>>

PageNext == \E p \in Predictions : Browser(p) \/ Server(p)

\* Requests are answered, and time passes; nobody has to submit or select, and no
\* job has to end.
PageFairness ==
    \A p \in Predictions :
        /\ WF_pageVars(Alone(Expire(p)))
        /\ WF_pageVars(\/ Store(p) \/ PostQueued(p) \/ Refused(p)
                       \/ ReadRow(p) \/ PollArrives(p) \/ PollGivenUp(p) \/ Alone(PollAgain(p)))

-----------------------------------------------------------------------------
(* Properties *)

\* loading disables the form; it is only set while some submission or selection
\* waits for something, or after a submission that found no model.
LoadingIsWork ==
    loading => \/ \E p \in Predictions : flow[p] \in {"models", "post"} \cup Polling
               \/ picking # {} \/ stranded # {}

\* A submission that was cancelled shows no answer of the server any more, however
\* its polls, its pauses and the answers to them interleave with the selection that
\* cancelled it; only its time limit, looked at first, shows the last one again.
AbortedIsQuiet ==
    [][\A p \in aborted \ late :
           shown' # shown /\ shown'.of = p /\ p \notin picking => shown'.status = "simulated"]_pageVars

\* A submission that sent its POST ends, cancelled or not, also when its job was
\* killed or the row stays pending for another reason: again and again none is waiting
\* for an answer or polling.
SubmissionsEnd == []<>(\A p \in Predictions : flow[p] \notin {"post"} \cup Polling)
=============================================================================
