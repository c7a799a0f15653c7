-------------------------- MODULE BroadcastClient --------------------------
(***************************************************************************)
(* The websocket client of the browser, services/broadcast.js: one manager *)
(* for the whole tab, with a subscription entry per channel.               *)
(*                                                                         *)
(* JavaScript runs to completion, so every method is an operator from the  *)
(* record of the tab to the record it leaves behind; an event, a timer or  *)
(* a settled promise is one step of the module that uses this one.  The    *)
(* record t has the fields                                                 *)
(*   ws       the socket in this.websocket, or NoSocket                    *)
(*   sid      the socket whose id is in this.socketId, or NoSocket         *)
(*   timer    the reconnect timer is set                                   *)
(*   emitted  lastEmittedState                                             *)
(*   entry    per channel: status ("none": no entry), auth (an             *)
(*            authPromise is set) and retry (the retry timer is set)       *)
(*   auths    the authorisation requests in flight, a bag: a promise that  *)
(*            handleClose forgot still settles                             *)
(*   sock     per socket: readyState, the channels the server has          *)
(*            subscribed on it, the messages on their way to the tab, and  *)
(*            (history, for the properties) the channels crossed: left     *)
(*            while the server's confirmation was on its way               *)
(* A socket is "cut" while the server is gone and the tab has not noticed. *)
(* The server (Reverb, external) answers a frame at once; the delay is in  *)
(* the inbox and in the authorisation.  The name of a closed socket is     *)
(* used again for a later connection; when none is left the connection     *)
(* gets the name Overflow, and the module that uses this one stops there.  *)
(***************************************************************************)
EXTENDS Naturals, Sequences, FiniteSets, Bags, FiniteSetsExt

CONSTANTS
    Channels,        \* the channel names
    Sockets,         \* names for the sockets alive at the same time
    Overflow,        \* no such name: one socket more than the bound
    Listener(_, _),  \* the connection listeners, told that t is in a state
    OnSubscribed(_, _),   \* the callbacks of a channel
    OnError(_, _, _)

NoSocket == 0

\* The status of an entry: "none", "pending", "subscribed" or "error".
NoEntry == [status |-> "none", auth |-> FALSE, retry |-> FALSE]
NewEntry == [NoEntry EXCEPT !.status = "pending"]

\* The state of a socket: "closed", "connecting", "open", "cut" or "closing".
ClosedSocket == [state |-> "closed", subs |-> {}, inbox |-> <<>>, crossed |-> {}]

Message(kind, c) == [kind |-> kind, channel |-> c]

Entries(t) == {c \in Channels : t.entry[c].status # "none"}

\* readyState OPEN and CONNECTING.
IsOpen(t, s) == s \in Sockets /\ t.sock[s].state \in {"open", "cut"}
IsConnecting(t, s) == s \in Sockets /\ t.sock[s].state = "connecting"

FreeSockets(t) == {s \in Sockets : t.sock[s].state = "closed"}

-----------------------------------------------------------------------------
(* The connection *)

\* updateConnectionState: listeners hear a state once, unless forced.
Emit(t, state) ==
    IF t.emitted = state THEN t ELSE Listener([t EXCEPT !.emitted = state], state)

\* Nobody listens for 'connecting'.
Connect(t) ==
    IF FreeSockets(t) = {} THEN [t EXCEPT !.ws = Overflow]
    ELSE LET s == CHOOSE s \in FreeSockets(t) : TRUE
         IN  [t EXCEPT !.ws = s, !.emitted = "connecting",
                       !.sock[s] = [ClosedSocket EXCEPT !.state = "connecting"]]

EnsureConnection(t) ==
    IF Entries(t) = {} \/ IsOpen(t, t.ws) \/ IsConnecting(t, t.ws)
    THEN t
    ELSE Connect(t)

\* close(): no message is delivered any more; the close event comes later.
Close(t, s) ==
    IF IsOpen(t, s) \/ IsConnecting(t, s)
    THEN [t EXCEPT !.sock[s] = [ClosedSocket EXCEPT !.state = "closing"]]
    ELSE t

Disconnect(t) ==
    Emit([Close(t, t.ws) EXCEPT !.timer = FALSE, !.ws = NoSocket, !.sid = NoSocket],
         "disconnected")

ScheduleReconnect(t) ==
    IF t.timer THEN t ELSE [Emit(t, "reconnecting") EXCEPT !.timer = TRUE]

\* The bag with each a in A replaced by f[a], where none of these is in A.
Renamed(bag, A, f) ==
    [a \in DOMAIN bag \ A |-> bag[a]]
        (+) [b \in {f[a] : a \in A} |-> bag[CHOOSE a \in A : f[a] = b]]

\* The socket is gone, and no id signed for it is worth anything.
Gone(t, s) ==
    LET signed == {a \in BagToSet(t.auths) : a.sid = s}
    IN  [t EXCEPT !.sock[s] = ClosedSocket,
                  !.auths = Renamed(@, signed, [a \in signed |-> [a EXCEPT !.sid = NoSocket]])]

\* Mutant: only an explicit disconnect resets the entries.
HandleCloseKeepsEntries(t) ==
    LET reset == [t EXCEPT !.ws = NoSocket, !.sid = NoSocket]
    IN  Emit(IF Entries(t) = {} THEN reset ELSE ScheduleReconnect(reset), "disconnected")

\* Mutant: nothing is scheduled.
HandleCloseForGood(t) ==
    Emit([t EXCEPT !.ws = NoSocket, !.sid = NoSocket,
                   !.entry = [c \in Channels |->
                       IF c \in Entries(t) THEN NewEntry ELSE NoEntry]], "disconnected")

\* The close event of any socket, the current one or not.
HandleClose(t) ==
    LET reset == [t EXCEPT !.ws = NoSocket, !.sid = NoSocket,
                           !.entry = [c \in Channels |->
                               IF c \in Entries(t) THEN NewEntry ELSE NoEntry]]
    IN  Emit(IF Entries(t) = {} THEN reset ELSE ScheduleReconnect(reset), "disconnected")

ReconnectTimer(t) == EnsureConnection([t EXCEPT !.timer = FALSE])

-----------------------------------------------------------------------------
(* Subscriptions *)

\* A promise remembers the socket id it was asked for and whether its entry
\* is still the one of the channel.
RequestSubscribe(t, c) ==
    IF t.entry[c].status \in {"none", "subscribed"} THEN t
    ELSE IF ~IsOpen(t, t.ws) \/ t.sid = NoSocket THEN EnsureConnection(t)
    ELSE IF t.entry[c].auth THEN t
    ELSE [t EXCEPT !.entry[c].auth = TRUE,
                   !.auths = @ (+) SetToBag({[channel |-> c, sid |-> t.sid, own |-> TRUE]})]

\* For a channel without an entry; the store never subscribes twice.
Subscribe(t, c) ==
    RequestSubscribe(EnsureConnection([t EXCEPT !.entry[c] = NewEntry]), c)

\* The frame that leaves a channel meets a confirmation that is on its way.
Left(socket, c) ==
    [socket EXCEPT !.subs = @ \ {c},
                   !.crossed = IF \E i \in DOMAIN socket.inbox :
                                      socket.inbox[i] = Message("succeeded", c)
                               THEN @ \cup {c} ELSE @]

Unsubscribe(t, c) ==
    LET asked == {a \in BagToSet(t.auths) : a.channel = c /\ a.own}
        left == [t EXCEPT !.entry[c] = NoEntry,
                          !.auths = Renamed(@, asked, [a \in asked |-> [a EXCEPT !.own = FALSE]])]
        told == IF IsOpen(left, left.ws) THEN [left EXCEPT !.sock[left.ws] = Left(@, c)] ELSE left
    IN  IF c \notin Entries(t) THEN t
        ELSE IF Entries(left) = {} THEN Disconnect(told)
        ELSE told

ScheduleResubscribe(t, c) ==
    IF c \in Entries(t) THEN [t EXCEPT !.entry[c].retry = TRUE] ELSE t

RetryTimer(t, c) == RequestSubscribe([t EXCEPT !.entry[c].retry = FALSE], c)

\* The promise a settles; its entry forgets it.
Settle(t, a) ==
    LET settled == [t EXCEPT !.auths = @ (-) SetToBag({a})]
    IN  IF a.own THEN [settled EXCEPT !.entry[a.channel].auth = FALSE] ELSE settled

\* The server takes a subscription signed for this socket and rejects any
\* other, with one of its two replies.
ServerSubscribe(t, s, a, reply) ==
    IF t.sock[s].state = "cut" THEN t
    ELSE IF a.sid = s
    THEN [t EXCEPT !.sock[s].subs = @ \cup {a.channel}, !.sock[s].crossed = @ \ {a.channel},
                   !.sock[s].inbox = Append(@, Message("succeeded", a.channel))]
    ELSE [t EXCEPT !.sock[s].inbox = Append(@, Message(reply, a.channel))]

\* then: the frame goes to the socket of now, whatever socket it was signed for.
Authorised(t, a, reply) ==
    IF IsOpen(t, t.ws)
    THEN ServerSubscribe(Settle(t, a), t.ws, a, reply)
    ELSE ScheduleResubscribe(Settle(t, a), a.channel)

\* catch: the callbacks are those of the promise's own entry.
Unauthorised(t, a) ==
    ScheduleResubscribe(OnError(Settle(t, a), a.channel, a.own), a.channel)

-----------------------------------------------------------------------------
(* Messages *)

\* connection_established: the socket has its id, the listeners are told 'connected',
Established(t, s) == [t EXCEPT !.sid = s, !.emitted = "connected"]

\* and then every entry is pending again and asks anew.
RestartAll(t) ==
    LET Restart(c, u) ==
            RequestSubscribe([u EXCEPT !.entry[c].status = "pending",
                                       !.entry[c].auth = FALSE], c)
    IN  FoldSet(Restart, t, Entries(t))

Succeeded(t, c) ==
    IF c \in Entries(t)
    THEN OnSubscribed([t EXCEPT !.entry[c].status = "subscribed",
                                !.entry[c].auth = FALSE], c)
    ELSE t

Rejected(t, c) ==
    IF c \in Entries(t)
    THEN ScheduleResubscribe(
             OnError([t EXCEPT !.entry[c].status = "pending",
                               !.entry[c].auth = FALSE], c, TRUE), c)
    ELSE t

NotifyAllError(t) ==
    Emit(FoldSet(LAMBDA c, u : OnError(u, c, TRUE), t, Entries(t)), "error")
=============================================================================
