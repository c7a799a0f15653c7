--------------------------- MODULE ModelTracking ---------------------------
(***************************************************************************)
(* How one browser tab follows the jobs of its models: the status tracking *)
(* of stores/model.js on top of the websocket client of                    *)
(* services/broadcast.js, with the server and the network around them.     *)
(*                                                                         *)
(* tab is everything the JavaScript of the tab touches: the fields of      *)
(* BroadcastClient and those of the store                                  *)
(*   snap, errs   statusSnapshots: the state, and the ones flagged error   *)
(*   poll         the models with an interval in statusPolling             *)
(*   loading      statusLoading                                            *)
(*   fetches      GET /models/{id}/status in flight, a bag; post: it is    *)
(*                the last step of a train or evaluate request             *)
(*   post         per model: the train or evaluate request (actionState)   *)
(*   listed       the models of the table                                  *)
(*   listening    the connection listener is registered                    *)
(*   online       navigator.onLine                                         *)
(*   keyed        a broadcast key is configured                            *)
(* statusSubscriptions[m] is the client's entry object for the channel     *)
(* models.m.status, so that the two always agree and one field stands for  *)
(* both.  The server keeps the last status and the queued jobs per model   *)
(* (ModelLifecycle has their detail); its broadcasts are queued jobs of    *)
(* their own and go out in any order.                                      *)
(***************************************************************************)
EXTENDS Naturals, Sequences, FiniteSets, Bags, FiniteSetsExt

CONSTANTS
    Models,
    MaxSockets,    \* bound: sockets alive at the same time
    Kinds,         \* the jobs a user asks for: "training", "evaluating"
    MaxAuths,      \* bound: authorisations in flight
    MaxFetches,    \* bound: status requests in flight
    MaxPosts,      \* bound: train and evaluate requests
    MaxTurns       \* bound: turns of events, i.e. list requests, departures from
                   \* the page, failed requests, lost connections, offline spells

ASSUME ModelsAssumption == IsFiniteSet(Models)

ASSUME BoundsAssumption ==
    /\ Kinds \subseteq {"training", "evaluating"}
    /\ MaxSockets \in Nat /\ MaxAuths \in Nat /\ MaxFetches \in Nat /\ MaxPosts \in Nat /\ MaxTurns \in Nat

VARIABLES
    tab,      \* the browser tab
    server,   \* per model: the stored status and the number of unfinished jobs
    news,     \* broadcasts queued by the server, a bag
    spent     \* how much of each bound is used

vars == <<tab, server, news, spent>>

-----------------------------------------------------------------------------
(* Polling *)

Sockets == 1 .. MaxSockets
Overflow == MaxSockets + 1

\* isActiveState, whatever the error flag says.
IsActive(state) == state \in {"training", "evaluating"}

Busy(t) == {m \in Models : IsActive(t.snap[m])}

EnsurePolling(t, m) == [t EXCEPT !.poll = @ \cup {m}]

StopPolling(t, m) == [t EXCEPT !.poll = @ \ {m}]

HandleOffline(t) == [t EXCEPT !.poll = @ \cup Busy(t)]

\* registerBroadcastConnectionListener's handler, but for 'connected'.
ConnectionChanged(t, state) ==
    IF t.listening /\ state \in {"disconnected", "reconnecting", "error"}
    THEN HandleOffline(t)
    ELSE t

\* The callbacks of a channel.
OnSubscribed(t, m) == StopPolling(t, m)

\* own: the entry of the callback is still the entry of the channel.
OnError(t, m, own) ==
    EnsurePolling(IF own THEN [t EXCEPT !.entry[m].status = "error"] ELSE t, m)

INSTANCE BroadcastClient WITH Channels <- Models, Listener <- ConnectionChanged

-----------------------------------------------------------------------------
(* Tracking *)

\* A new listener is told the state of the moment.
Register(t) ==
    IF t.listening THEN t
    ELSE ConnectionChanged([t EXCEPT !.listening = TRUE], t.emitted)

\* Mutant: no websocket, no tracking.
EnsureTrackingOnline(t0, m) ==
    LET t == Register(t0) IN
    IF ~t.online \/ ~t.keyed THEN t
    ELSE IF m \notin Entries(t) THEN Subscribe(t, m)
    ELSE IF t.entry[m].status # "subscribed" THEN EnsurePolling(t, m)
    ELSE t

EnsureTracking(t0, m) ==
    LET t == Register(t0) IN
    IF ~t.online \/ ~t.keyed THEN EnsurePolling(t, m)
    ELSE IF m \notin Entries(t) THEN Subscribe(t, m)
    ELSE IF t.entry[m].status # "subscribed" THEN EnsurePolling(t, m)
    ELSE t

\* Mutant: the channel is kept for the next job.
StopTrackingKeeps(t, m) == StopPolling(t, m)

StopTracking(t, m) == StopPolling(Unsubscribe(t, m), m)

HandleOnline(t) ==
    LET Resume(m, u) ==
            LET v == EnsureTracking(u, m)
            IN  IF v.entry[m].status = "subscribed" THEN StopPolling(v, m)
                ELSE EnsurePolling(v, m)
    IN  FoldSet(Resume, t, Busy(t))

OnConnected(t) == IF t.listening THEN HandleOnline(t) ELSE t

HandleRealtimeStatus(t, m, state) ==
    LET shown == [t EXCEPT !.snap[m] = state, !.errs = @ \ {m}]
    IN  IF IsActive(state) THEN shown ELSE StopTracking(shown, m)

OnEvent(t, m, state) ==
    IF m \in Entries(t) THEN HandleRealtimeStatus(t, m, state) ELSE t

\* fetchModelStatus, up to its await.
FetchStatus(t, m, post) ==
    IF m \in t.loading
    THEN IF post THEN [t EXCEPT !.post[m] = "none"] ELSE t
    ELSE [t EXCEPT !.loading = @ \cup {m},
                   !.fetches = @ (+) SetToBag({[model |-> m, answer |-> "asked", post |-> post]})]

\* finally, in fetchModelStatus and in the action that awaited it.
FetchEnded(t, f) ==
    [t EXCEPT !.loading = @ \ {f.model},
              !.fetches = @ (-) SetToBag({f}),
              !.post[f.model] = IF f.post THEN "none" ELSE @]

ShowStatus(t, f) ==
    LET m == f.model
        shown == [FetchEnded(t, f) EXCEPT !.snap[m] = f.answer, !.errs = @ \ {m}]
    IN  IF IsActive(f.answer) THEN EnsureTracking(shown, m) ELSE StopTracking(shown, m)

ShowStatusError(t, f) ==
    LET m == f.model
    IN  [StopTracking(FetchEnded(t, f), m)
            EXCEPT !.snap[m] = IF @ = "none" THEN "unknown" ELSE @, !.errs = @ \cup {m}]

UnsubscribeAll(t, A) == FoldSet(LAMBDA m, u : Unsubscribe(u, m), t, A)

\* Leaving the channels may start intervals again: the snapshots are still there.
ClearStatusTracking(t) ==
    LET left == UnsubscribeAll([t EXCEPT !.poll = {}], Entries(t))
    IN  [left EXCEPT !.loading = {}, !.snap = [m \in Models |-> "none"], !.errs = {}]

\* syncStatusTracking: what is not in the list any more is forgotten.
SyncStatusTracking(t, listed) ==
    LET left == UnsubscribeAll([t EXCEPT !.poll = @ \cap listed], Entries(t) \ listed)
    IN  [left EXCEPT !.loading = @ \cap listed, !.errs = @ \cap listed,
                     !.snap = [m \in Models |-> IF m \in listed THEN @[m] ELSE "none"]]

-----------------------------------------------------------------------------
(* The user *)

\* isModelBusy disables the buttons.
IsModelBusy(t, m) == (m \in Busy(t) /\ m \notin t.errs) \/ t.post[m] # "none"

\* trainModel and evaluateModel, up to the POST.
Request(m, kind) ==
    /\ m \in tab.listed /\ ~IsModelBusy(tab, m)
    /\ spent.posts < MaxPosts
    /\ tab' = EnsureTracking([tab EXCEPT !.post[m] = kind, !.snap[m] = kind, !.errs = @ \ {m}], m)
    /\ spent' = [spent EXCEPT !.posts = @ + 1]
    /\ UNCHANGED <<server, news>>

Turn == spent.turns < MaxTurns /\ spent' = [spent EXCEPT !.turns = @ + 1]

\* ModelsTable is unmounted.
Leave ==
    /\ Turn
    /\ tab' = ClearStatusTracking(tab)
    /\ UNCHANGED <<server, news>>

-----------------------------------------------------------------------------
(* Requests to the API *)

\* The server runs the request: a job is queued and the model marked busy.  Or it
\* answers with the job of an earlier request: the key of an unchanged form stays the
\* same for five minutes, also when that job has ended.
Accept(m) ==
    /\ tab.post[m] \in Kinds
    /\ tab' = [tab EXCEPT !.post[m] = "accepted"]
    /\ \/ /\ server' = [server EXCEPT ![m].status = tab.post[m], ![m].jobs = Append(@, tab.post[m])]
          /\ news' = news (+) SetToBag({[model |-> m, state |-> tab.post[m]]})
       \/ UNCHANGED <<server, news>>
    /\ UNCHANGED spent

\* The answer arrives and the store fetches the status.
Accepted(m) ==
    /\ tab.post[m] = "accepted"
    /\ tab' = FetchStatus([tab EXCEPT !.post[m] = "fetching"], m, TRUE)
    /\ UNCHANGED <<server, news, spent>>

\* The POST fails, before or after the server ran it: the snapshot stays.
PostFails(m) ==
    /\ tab.post[m] \in Kinds \cup {"accepted"}
    /\ Turn
    /\ tab' = [tab EXCEPT !.post[m] = "none"]
    /\ UNCHANGED <<server, news>>

\* The server reads the status, and the answer arrives later.
StatusRead(f) ==
    /\ f.answer = "asked"
    /\ tab' = [tab EXCEPT !.fetches = (@ (-) SetToBag({f}))
                    (+) SetToBag({[f EXCEPT !.answer = server[f.model].status]})]
    /\ UNCHANGED <<server, news, spent>>

StatusArrives(f) ==
    /\ f.answer # "asked"
    /\ tab' = ShowStatus(tab, f)
    /\ UNCHANGED <<server, news, spent>>

StatusFails(f) ==
    /\ Turn
    /\ tab' = ShowStatusError(tab, f)
    /\ UNCHANGED <<server, news>>

\* fetchModels once it has its answer, at any time: a filter, Refresh, the page
\* opened again.  The list may leave models out.
FetchModels(t, listed) ==
    FoldSet(LAMBDA m, u : FetchStatus(u, m, FALSE),
            SyncStatusTracking([t EXCEPT !.listed = listed], listed), listed)

ListArrives(listed) ==
    /\ Turn
    /\ tab' = FetchModels(tab, listed)
    /\ UNCHANGED <<server, news>>

\* applyFallback: the two sample models are shown instead.
ListFails ==
    /\ Turn
    /\ tab' = ClearStatusTracking([tab EXCEPT !.listed = {}])
    /\ UNCHANGED <<server, news>>

PollTick(m) ==
    /\ m \in tab.poll
    /\ tab' = FetchStatus(tab, m, FALSE)
    /\ UNCHANGED <<server, news, spent>>

-----------------------------------------------------------------------------
(* The server *)

JobEnds(m) ==
    /\ server[m].jobs # <<>>
    /\ server' = [server EXCEPT ![m] = [status |-> "idle", jobs |-> Tail(@.jobs)]]
    /\ news' = news (+) SetToBag({[model |-> m, state |-> "idle"]})
    /\ UNCHANGED <<tab, spent>>

\* A broadcast reaches the tab if a socket is subscribed at that moment, after
\* the frames sent before it.  (The delay on the socket adds nothing to the one
\* in the queue; a second socket's copy is applied with the first.)
Broadcast(n) ==
    LET heard == {s \in Sockets : tab.sock[s].state = "open" /\ n.model \in tab.sock[s].subs}
    IN  /\ \A s \in heard : tab.sock[s].inbox = <<>>
        /\ news' = news (-) SetToBag({n})
        /\ tab' = IF heard = {} THEN tab ELSE OnEvent(tab, n.model, n.state)
        /\ UNCHANGED <<server, spent>>

-----------------------------------------------------------------------------
(* The connection and the timers *)

\* readyState is OPEN and the server's greeting is on its way.
Opens(s) ==
    /\ tab.sock[s].state = "connecting"
    /\ tab' = [tab EXCEPT !.sock[s].state = "open",
                          !.sock[s].inbox = <<Message("established", "none")>>]
    /\ UNCHANGED <<server, news, spent>>

\* No connection: an error event and a close event.
ConnectFails(s) ==
    /\ tab.sock[s].state = "connecting"
    /\ Turn
    /\ tab' = HandleClose(Emit(Gone(tab, s), "error"))
    /\ UNCHANGED <<server, news>>

\* The connection is lost with what was on its way; the tab learns later.
Cut(s) ==
    /\ tab.sock[s].state = "open"
    /\ Turn
    /\ tab' = [tab EXCEPT !.sock[s] = [ClosedSocket EXCEPT !.state = "cut"]]
    /\ UNCHANGED <<server, news>>

CloseEvent(s) ==
    /\ tab.sock[s].state \in {"cut", "closing"}
    /\ tab' = HandleClose(Gone(tab, s))
    /\ UNCHANGED <<server, news, spent>>

\* handleMessage; it does not ask which socket the message came from.
HandleMessage(t, s, msg) ==
    CASE msg.kind = "established" -> RestartAll(OnConnected(Established(t, s)))
      [] msg.kind = "succeeded" -> Succeeded(t, msg.channel)
      [] msg.kind = "rejected" -> Rejected(t, msg.channel)
      [] msg.kind = "error" -> NotifyAllError(t)

Receive(s) ==
    /\ tab.sock[s].inbox # <<>>
    /\ tab' = HandleMessage([tab EXCEPT !.sock[s].inbox = Tail(@)], s, Head(tab.sock[s].inbox))
    /\ UNCHANGED <<server, news, spent>>

AuthSucceeds(a) ==
    /\ \E reply \in {"rejected", "error"} : tab' = Authorised(tab, a, reply)
    /\ UNCHANGED <<server, news, spent>>

AuthFails(a) ==
    /\ Turn
    /\ tab' = Unauthorised(tab, a)
    /\ UNCHANGED <<server, news>>

ReconnectTimerFires ==
    /\ tab.timer
    /\ tab' = ReconnectTimer(tab)
    /\ UNCHANGED <<server, news, spent>>

RetryTimerFires(m) ==
    /\ tab.entry[m].retry
    /\ tab' = RetryTimer(tab, m)
    /\ UNCHANGED <<server, news, spent>>

\* The events 'offline' and 'online' of the window.
GoOffline ==
    /\ tab.online
    /\ Turn
    /\ tab' = IF tab.listening THEN HandleOffline([tab EXCEPT !.online = FALSE])
              ELSE [tab EXCEPT !.online = FALSE]
    /\ UNCHANGED <<server, news>>

GoOnline ==
    /\ ~tab.online
    /\ tab' = OnConnected([tab EXCEPT !.online = TRUE])
    /\ UNCHANGED <<server, news, spent>>

-----------------------------------------------------------------------------
Init ==
    /\ \E k \in BOOLEAN : tab = FetchModels(
        [ws |-> NoSocket, sid |-> NoSocket, timer |-> FALSE, emitted |-> "disconnected",
          entry |-> [m \in Models |-> NoEntry], auths |-> EmptyBag,
          sock |-> [s \in Sockets |-> ClosedSocket],
          snap |-> [m \in Models |-> "none"], errs |-> {}, poll |-> {}, loading |-> {},
          fetches |-> EmptyBag, post |-> [m \in Models |-> "none"],
          listed |-> {}, listening |-> FALSE, online |-> TRUE, keyed |-> k], Models)
    /\ server = [m \in Models |-> [status |-> "idle", jobs |-> <<>>]]
    /\ news = EmptyBag
    /\ spent = [posts |-> 0, turns |-> 0]

User == (\E m \in Models, kind \in Kinds : Request(m, kind)) \/ Leave

Api ==
    \/ \E m \in Models : Accept(m) \/ Accepted(m) \/ PostFails(m) \/ PollTick(m)
    \/ \E f \in BagToSet(tab.fetches) : StatusRead(f) \/ StatusArrives(f) \/ StatusFails(f)
    \/ \E listed \in SUBSET Models : ListArrives(listed)
    \/ ListFails

Server == (\E m \in Models : JobEnds(m)) \/ (\E n \in BagToSet(news) : Broadcast(n))

Connection ==
    \/ \E s \in Sockets : Opens(s) \/ ConnectFails(s) \/ Cut(s) \/ CloseEvent(s) \/ Receive(s)
    \/ \E a \in BagToSet(tab.auths) : AuthSucceeds(a) \/ AuthFails(a)
    \/ ReconnectTimerFires
    \/ \E m \in Models : RetryTimerFires(m)
    \/ GoOffline \/ GoOnline

\* The bounds on what is in flight at the same time.
Within(t) ==
    /\ t.ws # Overflow
    /\ BagCardinality(t.auths) <= MaxAuths /\ BagCardinality(t.fetches) <= MaxFetches

Next == (User \/ Api \/ Server \/ Connection) /\ Within(tab')

Spec == Init /\ [][Next]_vars

-----------------------------------------------------------------------------
(* Properties *)

\* The client's and the server's view of a subscription agree: a channel the
\* client takes for subscribed is subscribed on a live socket, unless the
\* connection is gone and its close event is still to come, or the channel was
\* left and taken again while the server's first confirmation was on its way.
SubscribedIsHeard ==
    \A m \in Models : tab.entry[m].status = "subscribed" =>
        \E s \in Sockets :
            \/ tab.sock[s].state = "cut"
            \/ tab.sock[s].state = "open" /\ m \in tab.sock[s].subs \cup tab.sock[s].crossed

\* Something is under way that moves the subscription of m on.
Progressing(m) ==
    \/ tab.entry[m].status = "subscribed"
    \/ tab.entry[m].retry \/ tab.timer
    \/ \E a \in BagToSet(tab.auths) : a.channel = m
    \/ /\ tab.ws # NoSocket
       /\ \/ tab.sock[tab.ws].state \in {"connecting", "cut"}
          \/ tab.sock[tab.ws].inbox # <<>>

\* No subscription is stuck: a pending channel has a timer, a request, an attempt
\* to connect or a frame on its way that makes it ask again, and one in error has
\* that or is polled, also after stale close events, late answers, lost connections.
SubscriptionsProgress ==
    \A m \in Entries(tab) :
        Progressing(m) \/ (tab.entry[m].status = "error" /\ m \in tab.poll)

\* A model shown as busy is never left to itself: it is polled or holds a channel.
\* Every early return, error callback and reset of the two files has to hand over
\* from one to the other.
Watched == Busy(tab) \ tab.errs \subseteq tab.poll \cup Entries(tab)

\* Only a model shown as busy holds a channel: the end of a job, an error, a
\* list without the model and leaving the page all give it back.
TrackedIsBusy == Entries(tab) \subseteq Busy(tab)
=============================================================================
