-------------------------- MODULE PredictionClient --------------------------
(***************************************************************************)
(* The store of the prediction page, stores/prediction.js: submissions     *)
(* (submitPrediction with pollPredictionStatus) and selections from the    *)
(* history (selectHistoryPrediction), as many at the same time as the page *)
(* lets a user start.  An async function is cut at its awaits; what runs   *)
(* between two of them is one step.                                        *)
(*                                                                         *)
(* A submission is named by the prediction it asks for.  The answers of    *)
(* the server are parameters of the steps; PredictionPage supplies them.   *)
(* A prediction that the store makes up has the status "simulated".  What  *)
(* lastFilters and the history list hold is left out.                      *)
(***************************************************************************)
CONSTANTS
    Predictions,
    None

\* Where submitPrediction awaits: the "models", the answer of its "post", that of its
\* "get", or the "pause" between two polls; or it is "idle" or "over".
Polling == {"get", "pause"}

VARIABLES
    flow,        \* per submission
    late,        \* submissions polling for longer than POLL_TIMEOUT_MS
    aborted,     \* submissions whose signal is aborted
    controller,  \* the submission pollAbortController belongs to
    picking,     \* selections that wait for their GET
    shown,       \* currentPrediction
    last,        \* per submission: the status of lastPrediction
    loading,
    stranded     \* history: submissions that returned without clearing loading

Show(p, s) == [of |-> p, status |-> s]

ClientInit ==
    /\ flow = [p \in Predictions |-> "idle"]
    /\ late = {} /\ aborted = {} /\ picking = {} /\ stranded = {}
    /\ controller = None
    /\ shown = Show(None, "none")
    /\ last = [p \in Predictions |-> "none"]
    /\ loading = FALSE

CancelPolling ==
    /\ aborted' = IF controller = None THEN aborted ELSE aborted \cup {controller}
    /\ controller' = None

-----------------------------------------------------------------------------
(* submitPrediction *)

\* Without a model the function returns a simulation before its try block, and
\* loading stays set.
ReturnEarly(p) ==
    /\ flow' = [flow EXCEPT ![p] = "over"]
    /\ shown' = Show(p, "simulated")
    /\ stranded' = stranded \cup {p}

GoOn(p, stage) ==
    /\ flow' = [flow EXCEPT ![p] = stage]
    /\ UNCHANGED <<shown, stranded>>

\* The form is disabled while loading.  The active model is known, or fetchModels
\* is awaited, or someone else's fetchModels is under way and no model is found.
Submit(p) ==
    /\ flow[p] = "idle" /\ ~loading
    /\ CancelPolling
    /\ loading' = TRUE
    /\ GoOn(p, "post") \/ GoOn(p, "models") \/ ReturnEarly(p)
    /\ UNCHANGED <<late, picking, last>>

ModelsArrive(p) ==
    /\ flow[p] = "models"
    /\ GoOn(p, "post") \/ ReturnEarly(p)
    /\ UNCHANGED <<late, aborted, controller, picking, last, loading>>

\* Mutant: the flag is left to the next one.
EndLoading(p) ==
    /\ flow' = [flow EXCEPT ![p] = "over"]
    /\ controller' = None
    /\ UNCHANGED <<late, aborted, picking, last, loading, stranded>>

\* The outer finally clears whichever controller is there.
End(p) ==
    /\ flow' = [flow EXCEPT ![p] = "over"]
    /\ controller' = None
    /\ loading' = FALSE
    /\ UNCHANGED <<late, aborted, picking, last, stranded>>

\* The outer catch: a simulation takes the place of whatever is shown.
Simulate(p) == End(p) /\ shown' = Show(p, "simulated")

PostAnswered(p, status) ==
    /\ flow[p] = "post"
    /\ flow' = [flow EXCEPT ![p] = "get"]
    /\ controller' = p
    /\ shown' = Show(p, status)
    /\ last' = [last EXCEPT ![p] = status]
    /\ UNCHANGED <<late, aborted, picking, loading, stranded>>

PostFails(p) == flow[p] = "post" /\ Simulate(p)

\* 422: the error goes to the form.
PostInvalid(p) == flow[p] = "post" /\ End(p) /\ UNCHANGED shown

\* Two minutes are over; the loop looks at its next turn.
Expire(p) ==
    /\ flow[p] \in Polling /\ p \notin late
    /\ late' = late \cup {p}
    /\ UNCHANGED <<flow, aborted, controller, picking, shown, last, loading, stranded>>

Polled(p, status, ready) ==
    /\ shown' = Show(p, status)
    /\ IF ready \/ status = "failed" THEN End(p)
       ELSE /\ flow' = [flow EXCEPT ![p] = "pause"]
            /\ last' = [last EXCEPT ![p] = status]
            /\ UNCHANGED <<late, aborted, controller, picking, loading, stranded>>

\* Mutant: the request is sent without the signal.
PollAnsweredAlways(p, status, ready) == flow[p] = "get" /\ Polled(p, status, ready)

\* The GET is answered, unless its signal was aborted.
PollAnswered(p, status, ready) ==
    flow[p] = "get" /\ p \notin aborted /\ Polled(p, status, ready)

\* The GET fails for good.
PollFails(p) == flow[p] = "get" /\ p \notin aborted /\ Simulate(p)

\* It was aborted, and is rejected after the retries of apiClient, with an error
\* that is not called AbortError.
PollCanceled(p) == flow[p] = "get" /\ p \in aborted /\ Simulate(p)

\* Mutant: the clock is not looked at.
PollAgainAlways(p) ==
    /\ flow[p] = "pause"
    /\ IF p \in aborted THEN End(p) /\ UNCHANGED shown
       ELSE /\ flow' = [flow EXCEPT ![p] = "get"]
            /\ UNCHANGED <<late, aborted, controller, picking, shown, last, loading, stranded>>

\* The loop looks at the clock first: the last answer is shown again, aborted or
\* not.  Nothing polls any more, although the message promises an update.
PollAgain(p) ==
    /\ flow[p] = "pause"
    /\ IF p \in late THEN End(p) /\ shown' = Show(p, last[p])
       ELSE IF p \in aborted THEN End(p) /\ UNCHANGED shown
       ELSE /\ flow' = [flow EXCEPT ![p] = "get"]
            /\ UNCHANGED <<late, aborted, controller, picking, shown, last, loading, stranded>>

-----------------------------------------------------------------------------
(* selectHistoryPrediction *)

\* The button of the row selected last is disabled while loading.  An earlier one that
\* still waits could be clicked again; a second GET for the same row is left out.
Select(p) ==
    /\ p \notin picking
    /\ CancelPolling
    /\ loading' = TRUE
    /\ picking' = picking \cup {p}
    /\ UNCHANGED <<flow, late, shown, last, stranded>>

PickEnds(p) ==
    /\ p \in picking
    /\ picking' = picking \ {p}
    /\ loading' = FALSE
    /\ UNCHANGED <<flow, late, aborted, controller, last, stranded>>

Selected(p, status) == PickEnds(p) /\ shown' = Show(p, status)

SelectFails(p) == PickEnds(p) /\ UNCHANGED shown
=============================================================================
