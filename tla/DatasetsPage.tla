---------------------------- MODULE DatasetsPage ----------------------------
(***************************************************************************)
(* The datasets page, views/admin/AdminDatasetsView.vue: a table of        *)
(* datasets that is fetched every 30 seconds, and the ingest wizard with   *)
(* its store, stores/dataset.js.  Both follow datasets on the channels of  *)
(* the one BroadcastManager of the tab, which keeps one set of callbacks   *)
(* per channel: who subscribes last is heard, and who unsubscribes first   *)
(* ends it for all.                                                        *)
(*                                                                         *)
(* A visit is one mounted instance of the view; its answers still arrive   *)
(* when the user has left it.  DatasetIngestion has the server's part; a   *)
(* dataset here is a remote one, for which the wizard waits; what it shows *)
(* meanwhile is there, too.  Whether an event is sent over the socket or   *)
(* lost is left open (BroadcastClient has the connection).                 *)
(* Pages and sort orders of the table, which is one filter, and the table  *)
(* of crime ingestion runs beside it, fetched alike, are left out.         *)
(***************************************************************************)
EXTENDS Naturals, FiniteSets

CONSTANTS
    Imports,     \* datasets
    Filters,     \* sets of statuses that the table can be asked to show
    Nobody,
    Wizard,
    MaxVisits,   \* bound: visits of the page
    MaxLists,    \* bound: list requests in flight
    MaxNotices,  \* bound: queued broadcasts; the job waits for one to be sent or lost
    MaxChoices     \* bound: submissions, filters chosen, failures and retried jobs

ASSUME PageAssumption ==
    /\ Filters # {}
    /\ Nobody \notin Imports \cup (1 .. MaxVisits) /\ Wizard \notin {Nobody} \cup (1 .. MaxVisits)
    /\ MaxVisits \in Nat /\ MaxLists \in Nat /\ MaxNotices \in Nat /\ MaxChoices \in Nat

VARIABLES
    dataset,     \* per dataset: its status on the server, "none" before it exists
    notices,     \* queued broadcasts
    callbacks,   \* per channel: whose callbacks the BroadcastManager has
    wizard,      \* the dataset of realtimeSubscription, that of the POST under way and
                 \* the visit it was submitted in
    visit,       \* the visit on the screen, or 0
    visits,      \* how many there were
    table,       \* per visit: the rows, datasetSubscriptions and datasetStatusFilter
    lists,       \* list requests in flight
    turns

remoteVars == <<dataset, notices>>
viewVars == <<callbacks, wizard, visit, visits, table, lists>>
datasetsVars == <<remoteVars, viewVars, turns>>

Visits == 1 .. MaxVisits
Active == {"pending", "processing"}
Ended == {"ready", "failed"}

NoRows == [d \in Imports |-> "none"]

\* DatasetController::index: what a list request with a filter is answered.
Listed(filter) == [d \in Imports |-> IF dataset[d] \in filter THEN dataset[d] ELSE "none"]

DatasetsInit ==
    /\ dataset = NoRows /\ notices = {}
    /\ callbacks = [d \in Imports |-> Nobody]
    /\ wizard = [of |-> Nobody, posting |-> Nobody, visit |-> 0]
    /\ visit = 0 /\ visits = 0
    /\ table = [v \in Visits |-> [rows |-> NoRows, held |-> {}, filter |-> CHOOSE f \in Filters : TRUE]]
    /\ lists = {} /\ turns = 0

Spend == turns < MaxChoices /\ turns' = turns + 1

-----------------------------------------------------------------------------
(* The server *)

\* A broadcast is queued with each status.
Becomes(d, status) ==
    /\ dataset' = [dataset EXCEPT ![d] = status]
    /\ notices' = notices \cup {[dataset |-> d, status |-> status]}

\* The job goes on, or is retried.
Advance(d) ==
    /\ \/ dataset[d] = "pending" /\ Becomes(d, "processing") /\ UNCHANGED turns
       \/ dataset[d] = "processing" /\ (\E status \in Ended : Becomes(d, status)) /\ UNCHANGED turns
       \/ dataset[d] = "failed" /\ Becomes(d, "processing") /\ Spend
    /\ UNCHANGED viewVars

\* The wizard's POST is served, or another admin imports the dataset.
Create(d) ==
    /\ dataset[d] = "none"
    /\ Becomes(d, "pending")
    /\ UNCHANGED <<viewVars, turns>>

-----------------------------------------------------------------------------
(* Channels *)

\* subscribe(): an existing entry gets the new callbacks.
Subscribed(cb, ds, who) == [d \in Imports |-> IF d \in ds THEN who ELSE cb[d]]

\* unsubscribe(): the entry is deleted, whosever it is.
Unsubscribed(cb, ds) == [d \in Imports |-> IF d \in ds THEN Nobody ELSE cb[d]]

-----------------------------------------------------------------------------
(* The table *)

\* fetchDatasets in visit v, up to its await.  The server reads at once and the answer
\* takes its time; one read later is that of a request the interval sends later.
FetchDatasets(v, filter) == lists' = lists \cup {[visit |-> v, rows |-> Listed(filter)]}

\* onMounted
EnterPage ==
    LET v == visits + 1 IN
    /\ visit = 0 /\ visits < MaxVisits
    /\ visit' = v /\ visits' = v
    /\ FetchDatasets(v, table[v].filter)
    /\ UNCHANGED <<remoteVars, callbacks, wizard, table, turns>>

\* onBeforeUnmount: cleanupDatasetSubscriptions, and the interval is cleared.
LeavePage ==
    /\ visit # 0
    /\ visit' = 0
    /\ callbacks' = Unsubscribed(callbacks, table[visit].held)
    /\ table' = [table EXCEPT ![visit].held = {}]
    /\ UNCHANGED <<remoteVars, wizard, visits, lists, turns>>

\* Mutant: the interval only fetches while no channel is followed.
PollUnfollowed ==
    /\ visit # 0 /\ table[visit].held = {}
    /\ FetchDatasets(visit, table[visit].filter)
    /\ UNCHANGED <<remoteVars, callbacks, wizard, visit, visits, table, turns>>

\* The interval; the Refresh button does the same.
PollTable ==
    /\ visit # 0
    /\ FetchDatasets(visit, table[visit].filter)
    /\ UNCHANGED <<remoteVars, callbacks, wizard, visit, visits, table, turns>>

ChooseFilter(filter) ==
    /\ visit # 0 /\ filter # table[visit].filter
    /\ Spend
    /\ table' = [table EXCEPT ![visit].filter = filter]
    /\ FetchDatasets(visit, filter)
    /\ UNCHANGED <<remoteVars, callbacks, wizard, visit, visits>>

\* The rows are shown, whatever was asked since, and syncDatasetSubscriptions follows
\* the active ones; also in a view that the user has left.
RowsArrive(l) ==
    LET v == l.visit
        active == {d \in Imports : l.rows[d] \in Active}
        held == table[v].held
    IN  /\ l \in lists
        /\ lists' = lists \ {l}
        /\ table' = [table EXCEPT ![v].rows = l.rows, ![v].held = active]
        /\ callbacks' = Subscribed(Unsubscribed(callbacks, held \ active), active \ held, v)
        /\ UNCHANGED <<remoteVars, wizard, visit, visits, turns>>

\* The rows stay as they are.
RowsFail(l) ==
    /\ l \in lists
    /\ Spend
    /\ lists' = lists \ {l}
    /\ UNCHANGED <<remoteVars, callbacks, wizard, visit, visits, table>>

\* Mutant: the ended dataset is only forgotten.
HandleDatasetRealtimeForgets(v, d, status) ==
    /\ IF table[v].rows[d] = "none" THEN UNCHANGED table
       ELSE table' = [table EXCEPT ![v].rows[d] = status,
                                   ![v].held = IF status \in Ended THEN @ \ {d} ELSE @]
    /\ UNCHANGED <<callbacks, wizard>>

\* handleDatasetRealtime: a dataset that is not in the rows is ignored.
HandleDatasetRealtime(v, d, status) ==
    LET over == status \in Ended /\ table[v].rows[d] # "none"
    IN  /\ table' = IF table[v].rows[d] = "none" THEN table
                    ELSE [table EXCEPT ![v].rows[d] = status,
                                       ![v].held = IF over THEN @ \ {d} ELSE @]
        /\ callbacks' = IF over /\ d \in table[v].held THEN Unsubscribed(callbacks, {d}) ELSE callbacks
        /\ UNCHANGED wizard

-----------------------------------------------------------------------------
(* The wizard *)

\* submitIngestion, up to its await, after stopRealtimeTracking.
SubmitIngestion(d) ==
    /\ visit # 0 /\ wizard.posting = Nobody
    /\ dataset[d] = "none"
    /\ Spend
    /\ wizard' = [of |-> Nobody, posting |-> d, visit |-> visit]
    /\ callbacks' = Unsubscribed(callbacks, {wizard.of})
    /\ UNCHANGED <<remoteVars, visit, visits, table, lists>>

\* The answer: startRealtimeTracking, which stops another one first, and the view, if
\* it is still there, fetches its table.
IngestionAnswered ==
    LET d == wizard.posting IN
    /\ d # Nobody /\ dataset[d] # "none"
    /\ wizard' = [wizard EXCEPT !.of = d, !.posting = Nobody, !.visit = 0]
    /\ callbacks' = Subscribed(Unsubscribed(callbacks, {wizard.of}), {d}, Wizard)
    /\ IF visit = wizard.visit THEN FetchDatasets(visit, table[visit].filter) ELSE UNCHANGED lists
    /\ UNCHANGED <<remoteVars, visit, visits, table, turns>>

\* No answer or an error, whether the server stored the dataset or not.
IngestionFails ==
    /\ wizard.posting # Nobody
    /\ Spend
    /\ wizard' = [wizard EXCEPT !.posting = Nobody, !.visit = 0]
    /\ UNCHANGED <<remoteVars, callbacks, visit, visits, table, lists>>

\* reset(), also while a POST is under way.
CloseWizard ==
    /\ visit # 0
    /\ wizard' = [wizard EXCEPT !.of = Nobody]
    /\ callbacks' = Unsubscribed(callbacks, {wizard.of})
    /\ UNCHANGED <<remoteVars, visit, visits, table, lists, turns>>

\* handleRealtimeStatus of the store: an ended dataset is not followed any more.
WizardHears(status) ==
    /\ IF status \in Ended
       THEN /\ wizard' = [wizard EXCEPT !.of = Nobody]
            /\ callbacks' = Unsubscribed(callbacks, {wizard.of})
       ELSE UNCHANGED <<wizard, callbacks>>
    /\ UNCHANGED table

-----------------------------------------------------------------------------
(* Events *)

\* A queued broadcast is sent, in any order: the callbacks of the channel hear it.
Notify(n) ==
    LET who == callbacks[n.dataset] IN
    /\ n \in notices
    /\ notices' = notices \ {n}
    /\ CASE who = Nobody -> UNCHANGED <<callbacks, wizard, table>>
         [] who = Wizard -> WizardHears(n.status)
         [] OTHER -> HandleDatasetRealtime(who, n.dataset, n.status)
    /\ UNCHANGED <<dataset, visit, visits, lists, turns>>

\* The socket is not there at the moment.
NoticeLost(n) ==
    /\ n \in notices
    /\ notices' = notices \ {n}
    /\ UNCHANGED <<dataset, viewVars, turns>>

-----------------------------------------------------------------------------
DatasetsNext ==
    /\ \/ \E d \in Imports : Advance(d) \/ Create(d) \/ SubmitIngestion(d)
       \/ EnterPage \/ LeavePage \/ PollTable \/ (\E f \in Filters : ChooseFilter(f))
       \/ \E l \in lists : RowsArrive(l) \/ RowsFail(l)
       \/ IngestionAnswered \/ IngestionFails \/ CloseWizard
       \/ \E n \in notices : Notify(n) \/ NoticeLost(n)
    /\ Cardinality(lists') <= MaxLists /\ Cardinality(notices') <= MaxNotices

DatasetsSpec == DatasetsInit /\ [][DatasetsNext]_datasetsVars

\* The interval fires, and requests are answered.
DatasetsFairness ==
    /\ WF_datasetsVars(PollTable)
    /\ WF_datasetsVars(\E l \in lists : RowsArrive(l))

-----------------------------------------------------------------------------
(* Properties *)

\* The callbacks on a channel are those of a component that follows the channel: none
\* of the ways to end it, by an event, an answer, a new submission, closing the wizard
\* or leaving the page, each with its own book-keeping, leaves callbacks behind that
\* nobody would ever take away, although the other component may have ended or taken
\* the channel in between.
NoStrayCallbacks ==
    \A d \in Imports :
        \/ callbacks[d] = Nobody
        \/ callbacks[d] = Wizard /\ wizard.of = d
        \/ \E v \in Visits : callbacks[d] = v /\ d \in table[v].held

\* Whatever events are lost, go to the wizard or arrive late, and however old the
\* answers are that overwrite them, the table of the page on the screen comes to show
\* what the server has under the chosen filter, again and again.
TableCatchesUp == []<>(visit # 0 => table[visit].rows = Listed(table[visit].filter))
=============================================================================
