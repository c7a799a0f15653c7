------------------------- MODULE ModelTrackingProofs -------------------------
(***************************************************************************)
(* Proofs about a tab's tracking of its models (ModelTracking) and the     *)
(* websocket client under it (BroadcastClient), for any finite set of      *)
(* models, any number of sockets and all other bounds.                     *)
(*                                                                         *)
(* The operators of the two modules take a tab record and return one, so   *)
(* the invariant is split into predicates of a record.  Core says what     *)
(* holds even inside a handler; Almost adds that the connection is         *)
(* consistent and that the channels of a set X move; Good adds the timer   *)
(* that must be set while there is no socket.  A handler may break Moving  *)
(* for the channel it is about: its lemma takes Good(t, X \ {c}) and gives *)
(* Good(u, X).  Sound adds what the store owes to the models it shows.     *)
(*                                                                         *)
(* The handlers that walk over all entries are folds.  What a fold does is *)
(* proved by induction over the subsets of a finite set, stated with sets  *)
(* and functions where the library's theorems have operators.              *)
(***************************************************************************)
EXTENDS ModelTracking, FiniteSetTheorems, WellFoundedInduction, SequenceTheorems, TLAPS

\* The states of a snapshot.
Shown == {"none", "unknown", "idle", "training", "evaluating"}

\* The states that listeners are told.
Emitted == {"disconnected", "connecting", "connected", "reconnecting", "error"}

EntryType == [status : {"none", "pending", "subscribed", "error"}, auth : BOOLEAN, retry : BOOLEAN]
AuthType == [channel : Models, sid : Nat, own : BOOLEAN]
MessageType == [kind : {"established", "succeeded", "rejected", "error"}, channel : Models \cup {"none"}]
SocketType == [state : {"closed", "connecting", "open", "cut", "closing"},
               subs : SUBSET Models, inbox : Seq(MessageType), crossed : SUBSET Models]
FetchType == [model : Models, answer : {"asked"} \cup Shown, post : BOOLEAN]

\* The bags of elements of S.
BagsOf(S) == UNION {[D -> Nat \ {0}] : D \in SUBSET S}

Tabs ==
    [ws : Nat, sid : Nat, timer : BOOLEAN, emitted : Emitted,
     entry : [Models -> EntryType], auths : BagsOf(AuthType), sock : [Sockets -> SocketType],
     snap : [Models -> Shown], errs : SUBSET Models, poll : SUBSET Models,
     loading : SUBSET Models, fetches : BagsOf(FetchType),
     post : [Models -> {"none", "accepted", "fetching"} \cup Kinds],
     listed : SUBSET Models, listening : BOOLEAN, online : BOOLEAN, keyed : BOOLEAN]

-----------------------------------------------------------------------------
(* The parts of the invariant, for any tab record *)

Greeting == Message("established", "none")

Frames(socket) == {socket.inbox[i] : i \in DOMAIN socket.inbox}

\* The channels that the server has confirmed on a socket.
Confirmed(socket) == socket.subs \cup socket.crossed

SocketSound(socket) ==
    /\ socket.state # "open" => socket.subs = {} /\ socket.crossed = {} /\ socket.inbox = <<>>
    /\ \A c \in Models : Message("succeeded", c) \in Frames(socket) => c \in Confirmed(socket)

AllSound(t) == \A s \in Sockets : SocketSound(t.sock[s])

HeardOn(t, m) == \E s \in Sockets : t.sock[s].state = "cut" \/ m \in Confirmed(t.sock[s])

AllHeard(t) == \A m \in Models : t.entry[m].status = "subscribed" => HeardOn(t, m)

\* The promise of an entry is in flight, and belongs to an entry.
Owned(t) == \A a \in DOMAIN t.auths : a.own => a.channel \in Entries(t)
Promised(t) == \A m \in Models : t.entry[m].auth => \E a \in DOMAIN t.auths : a.own /\ a.channel = m

Core(t) == t \in Tabs /\ AllSound(t) /\ AllHeard(t) /\ Owned(t) /\ Promised(t)

\* this.websocket is open on both sides.
Linked(t) == t.ws \in Sockets /\ t.sock[t.ws].state = "open"

Joined(t) ==
    /\ t.ws \in {NoSocket, Overflow} \cup Sockets
    /\ t.ws \in Sockets => t.sock[t.ws].state \in {"connecting", "open", "cut"}

\* A socket without an id still has its greeting in front of it.
Greeted(t) == Linked(t) /\ t.sid = NoSocket => Greeting \in Frames(t.sock[t.ws])

\* What moves the subscription of m on, while the connection stands.
Answering(t, m) ==
    \E g \in Frames(t.sock[t.ws]) : g.kind \in {"established", "error"} \/ g.channel = m

Moving(t, m) ==
    Linked(t) =>
        \/ t.entry[m].status = "subscribed"
        \/ t.entry[m].retry
        \/ \E a \in DOMAIN t.auths : a.channel = m
        \/ Answering(t, m)
        \/ t.entry[m].status = "error" /\ m \in t.poll

Retrying(t) == t.ws = NoSocket /\ Entries(t) # {} => t.timer

\* Almost is what the operators keep between their steps; X: the channels that are
\* known to move.
Almost(t, X) == Core(t) /\ Joined(t) /\ Greeted(t) /\ \A m \in Entries(t) \cap X : Moving(t, m)

Good(t, X) == Almost(t, X) /\ Retrying(t)

\* What follows a model.
Watching(t) == t.poll \cup Entries(t)

SameView(t, u) == u.snap = t.snap /\ u.errs = t.errs

Keeps(t, u) ==
    /\ SameView(t, u)
    /\ Entries(u) = Entries(t)
    /\ Watching(t) \subseteq Watching(u)

\* Everything the invariant reads but the entries and the polling.
SameNet(t, u) ==
    u.ws = t.ws /\ u.sid = t.sid /\ u.timer = t.timer /\ u.auths = t.auths /\ u.sock = t.sock

LEMMA BagFacts ==
    ASSUME NEW S, NEW b \in BagsOf(S)
    PROVE  /\ DOMAIN b \subseteq S
           /\ \A x \in DOMAIN b : b[x] \in Nat \ {0}
           /\ b = [x \in DOMAIN b |-> b[x]]
BY DEF BagsOf

LEMMA IsBagOf ==
    ASSUME NEW S, NEW b, b = [x \in DOMAIN b |-> b[x]],
           DOMAIN b \subseteq S, \A x \in DOMAIN b : b[x] \in Nat \ {0}
    PROVE  b \in BagsOf(S)
<1>1. b \in [DOMAIN b -> Nat \ {0}]
  OBVIOUS
<1> QED BY <1>1 DEF BagsOf

LEMMA BagSum ==
    ASSUME NEW S, NEW b \in BagsOf(S), NEW c \in BagsOf(S)
    PROVE  b (+) c \in BagsOf(S)
<1> DEFINE u == b (+) c
<1>1. /\ DOMAIN u = DOMAIN b \cup DOMAIN c
      /\ u = [x \in DOMAIN u |-> u[x]]
      /\ \A x \in DOMAIN u : u[x] = (IF x \in DOMAIN b THEN b[x] ELSE 0) + (IF x \in DOMAIN c THEN c[x] ELSE 0)
  BY DEF (+)
<1>2. \A x \in DOMAIN u : u[x] \in Nat \ {0}
  BY <1>1, BagFacts
<1>3. DOMAIN u \subseteq S
  BY <1>1, BagFacts
<1> HIDE DEF u
<1>4. u \in BagsOf(S)
  BY <1>1, <1>2, <1>3, IsBagOf
<1> QED BY <1>1, <1>4 DEF u

LEMMA SumElements ==
    ASSUME NEW b, NEW c PROVE DOMAIN (b (+) c) = DOMAIN b \cup DOMAIN c
BY DEF (+)

LEMMA RenamedElements ==
    ASSUME NEW b, NEW A, NEW f
    PROVE  \A x : x \in DOMAIN Renamed(b, A, f) <=> x \in DOMAIN b \ A \/ \E a \in A : x = f[a]
<1> DEFINE kept == [a \in DOMAIN b \ A |-> b[a]]
           moved == [c \in {f[a] : a \in A} |-> b[CHOOSE a \in A : f[a] = c]]
<1>1. DOMAIN kept = DOMAIN b \ A /\ DOMAIN moved = {f[a] : a \in A}
  OBVIOUS
<1>2. Renamed(b, A, f) = kept (+) moved
  BY DEF Renamed
<1> HIDE DEF kept, moved
<1>3. DOMAIN Renamed(b, A, f) = DOMAIN kept \cup DOMAIN moved
  BY <1>2, SumElements
<1> QED BY <1>1, <1>3

LEMMA OneBag ==
    ASSUME NEW S, NEW A \in SUBSET S
    PROVE  SetToBag(A) \in BagsOf(S) /\ DOMAIN SetToBag(A) = A
<1>1. DOMAIN SetToBag(A) = A /\ \A x \in A : SetToBag(A)[x] = 1
  BY DEF SetToBag
<1>2. SetToBag(A) = [x \in A |-> SetToBag(A)[x]]
  BY DEF SetToBag
<1> QED BY <1>1, <1>2, IsBagOf

LEMMA BagTake ==
    ASSUME NEW S, NEW b \in BagsOf(S), NEW x
    PROVE  /\ b (-) SetToBag({x}) \in BagsOf(S)
           /\ DOMAIN (b (-) SetToBag({x})) \subseteq DOMAIN b
           /\ DOMAIN b \ {x} \subseteq DOMAIN (b (-) SetToBag({x}))
<1> DEFINE c == SetToBag({x})
<1> DEFINE left(e) == IF e \in DOMAIN c THEN b[e] - c[e] ELSE b[e]
<1> DEFINE D == {e \in DOMAIN b : left(e) > 0}
<1>1. b (-) c = [e \in D |-> left(e)]
  BY DEF (-)
<1>2. DOMAIN c = {x} /\ c[x] = 1
  BY DEF SetToBag
<1>3. \A e \in DOMAIN b : left(e) \in Int /\ (e # x => left(e) > 0)
  BY <1>2, BagFacts
<1> DEFINE u == b (-) c
<1>4. DOMAIN u = D /\ u = [e \in DOMAIN u |-> u[e]] /\ \A e \in D : u[e] = left(e)
  BY <1>1
<1>5. D \subseteq S /\ D \subseteq DOMAIN b /\ DOMAIN b \ {x} \subseteq D
  BY <1>3, BagFacts
<1> HIDE DEF u, c
<1>6. \A e \in DOMAIN u : u[e] \in Nat \ {0}
  BY <1>3, <1>4
<1>7. u \in BagsOf(S)
  BY <1>4, <1>5, <1>6, IsBagOf
<1> QED BY <1>4, <1>5, <1>7 DEF u, c

LEMMA BagRenamed ==
    ASSUME NEW S, NEW b \in BagsOf(S), NEW A \in SUBSET DOMAIN b, NEW f \in [A -> S]
    PROVE  Renamed(b, A, f) \in BagsOf(S)
<1> DEFINE kept == [a \in DOMAIN b \ A |-> b[a]]
           moved == [c \in {f[a] : a \in A} |-> b[CHOOSE a \in A : f[a] = c]]
<1>1. kept \in BagsOf(S)
  BY BagFacts, IsBagOf
<1>2. \A c \in {f[a] : a \in A} : moved[c] \in Nat \ {0}
  BY BagFacts
<1>3. moved = [c \in DOMAIN moved |-> moved[c]] /\ DOMAIN moved = {f[a] : a \in A} /\ DOMAIN moved \subseteq S
  OBVIOUS
<1>4. moved \in BagsOf(S)
  <2> HIDE DEF moved
  <2> QED BY <1>2, <1>3, IsBagOf
<1> HIDE DEF kept, moved
<1>5. kept (+) moved \in BagsOf(S)
  BY <1>1, <1>4, BagSum
<1> QED BY <1>5 DEF Renamed, kept, moved

\* The element that FoldSet takes next, as MapThenFoldSet chooses it.
Pick(s) == CHOOSE x \in s : TRUE

LEMMA PickIn == ASSUME NEW s, s # {} PROVE Pick(s) \in s
BY DEF Pick

\* Induction over the subsets of a finite set, with a set in the place of a predicate.
LEMMA SubsetInduction ==
    ASSUME NEW S, IsFiniteSet(S), NEW B, {} \in B,
           \A s \in SUBSET S : s # {} /\ s \ {Pick(s)} \in B => s \in B
    PROVE  S \in B
<1> DEFINE Missing == (SUBSET S) \ B
<1> SUFFICES ASSUME Missing # {} PROVE FALSE
  OBVIOUS
<1>1. IsWellFoundedOn(StrictSubsetOrdering(S), SUBSET S)
  BY FS_StrictSubsetOrderingWellFounded, FS_FiniteSubsetsOfFinite
<1>2. PICK s \in Missing : \A r \in Missing : <<r, s>> \notin StrictSubsetOrdering(S)
  <2> HIDE DEF Missing
  <2>1. Missing \subseteq SUBSET S
    BY DEF Missing
  <2> QED BY <1>1, <2>1, WFMin
<1>3. s # {} /\ Pick(s) \in s
  BY PickIn
<1>4. <<s \ {Pick(s)}, s>> \in StrictSubsetOrdering(S)
  BY <1>2, <1>3 DEF StrictSubsetOrdering
<1>5. s \ {Pick(s)} \in B
  BY <1>2, <1>4
<1> QED BY <1>2, <1>3, <1>5

\* it folds g over the subsets of S, from base.
Folds(it, S, base, g) ==
    it = [s \in SUBSET S |-> IF s = {} THEN base ELSE g[<<Pick(s), it[s \ {Pick(s)}]>>]]

\* The function that a fold iterates exists: its value at a set is the only one
\* that every set of pairs closed under the recursion holds for it.
LEMMA FoldExists ==
    ASSUME NEW S, IsFiniteSet(S), NEW T, NEW base \in T, NEW g \in [S \X T -> T]
    PROVE  \E it \in [SUBSET S -> T] : Folds(it, S, base, g)
<1> DEFINE Closed(R) ==
      /\ <<{}, base>> \in R
      /\ \A s \in SUBSET S, v \in T :
             s # {} /\ <<s \ {Pick(s)}, v>> \in R => <<s, g[<<Pick(s), v>>]>> \in R
<1> DEFINE All == (SUBSET S) \X T
<1> DEFINE G == {p \in All : \A R \in SUBSET All : Closed(R) => p \in R}
<1>1. \A s \in SUBSET S : s # {} => Pick(s) \in S /\ s \ {Pick(s)} \in SUBSET S
  BY PickIn
<1>2. \A s \in SUBSET S, v \in T : s # {} => g[<<Pick(s), v>>] \in T
  BY <1>1
<1>3. <<{}, base>> \in G
  OBVIOUS
<1>4. \A s \in SUBSET S, v \in T :
          s # {} /\ <<s \ {Pick(s)}, v>> \in G => <<s, g[<<Pick(s), v>>]>> \in G
  <2> SUFFICES ASSUME NEW s \in SUBSET S, NEW v \in T, s # {}, <<s \ {Pick(s)}, v>> \in G
               PROVE  <<s, g[<<Pick(s), v>>]>> \in G
    OBVIOUS
  <2>1. <<s, g[<<Pick(s), v>>]>> \in All
    BY <1>2
  <2>2. \A R \in SUBSET All : Closed(R) => <<s, g[<<Pick(s), v>>]>> \in R
    OBVIOUS
  <2> QED BY <2>1, <2>2
<1>5. Closed(G) /\ G \subseteq All
  BY <1>3, <1>4
<1>6. \A v \in T : <<{}, v>> \in G => v = base
  <2> SUFFICES ASSUME NEW v \in T, v # base PROVE <<{}, v>> \notin G
    OBVIOUS
  <2> DEFINE H == G \ {<<{}, v>>}
  <2>1. Closed(H) /\ H \in SUBSET All
    BY <1>3, <1>4, <1>5
  <2> QED BY <2>1
<1>7. ASSUME NEW s \in SUBSET S, s # {}, NEW w \in T, <<s, w>> \in G
      PROVE  \E v \in T : <<s \ {Pick(s)}, v>> \in G /\ w = g[<<Pick(s), v>>]
  <2> SUFFICES ASSUME \A v \in T : <<s \ {Pick(s)}, v>> \in G => w # g[<<Pick(s), v>>] PROVE FALSE
    OBVIOUS
  <2> DEFINE H == G \ {<<s, w>>}
  <2>1. <<{}, base>> \in H
    BY <1>3, <1>7
  <2>2. ASSUME NEW r \in SUBSET S, NEW v \in T, r # {}, <<r \ {Pick(r)}, v>> \in H
        PROVE  <<r, g[<<Pick(r), v>>]>> \in H
    BY <1>4, <2>2
  <2>3. Closed(H) /\ H \in SUBSET All
    BY <2>1, <2>2, <1>5
  <2> QED BY <2>3, <1>7
<1> DEFINE One(s) == \E v \in T : \A w \in T : <<s, w>> \in G <=> w = v
<1> DEFINE B == {s \in SUBSET S : One(s)}
<1>8. {} \in B
  BY <1>3, <1>6
<1>9. ASSUME NEW s \in SUBSET S, s # {}, s \ {Pick(s)} \in B PROVE s \in B
  <2>1. PICK v \in T : \A w \in T : <<s \ {Pick(s)}, w>> \in G <=> w = v
    BY <1>9
  <2> HIDE DEF G
  <2>2. g[<<Pick(s), v>>] \in T /\ <<s, g[<<Pick(s), v>>]>> \in G
    BY <1>2, <1>4, <1>9, <2>1
  <2>3. ASSUME NEW w \in T, <<s, w>> \in G PROVE w = g[<<Pick(s), v>>]
    <3>1. PICK x \in T : <<s \ {Pick(s)}, x>> \in G /\ w = g[<<Pick(s), x>>]
      BY <1>7, <1>9, <2>3
    <3> QED BY <2>1, <3>1
  <2> QED BY <2>2, <2>3
<1>10. ASSUME NEW s \in SUBSET S PROVE s \in B
  <2>1. IsFiniteSet(s)
    BY FS_Subset
  <2> HIDE DEF B
  <2>2. \A r \in SUBSET s : r # {} /\ r \ {Pick(r)} \in B => r \in B
    BY <1>9
  <2> QED BY <2>1, <2>2, <1>8, SubsetInduction
<1> DEFINE it == [s \in SUBSET S |-> CHOOSE v \in T : <<s, v>> \in G]
<1> HIDE DEF G
<1>11. \A s \in SUBSET S : it[s] \in T /\ \A w \in T : <<s, w>> \in G <=> w = it[s]
  <2> TAKE s \in SUBSET S
  <2>1. PICK v \in T : \A w \in T : <<s, w>> \in G <=> w = v
    BY <1>10
  <2> QED BY <2>1
<1>12. it \in [SUBSET S -> T]
  BY <1>11
<1>13. it[{}] = base
  BY <1>3, <1>11
<1> HIDE DEF it
<1>14. \A s \in SUBSET S : s # {} => it[s] = g[<<Pick(s), it[s \ {Pick(s)}]>>]
  <2> TAKE s \in SUBSET S
  <2> HAVE s # {}
  <2>1. <<s \ {Pick(s)}, it[s \ {Pick(s)}]>> \in G /\ it[s \ {Pick(s)}] \in T
    BY <1>1, <1>11
  <2> QED BY <2>1, <1>2, <1>4, <1>11
<1> DEFINE rec == [s \in SUBSET S |-> IF s = {} THEN base ELSE g[<<Pick(s), it[s \ {Pick(s)}]>>]]
<1>15. it = rec
  BY <1>12, <1>13, <1>14
<1> QED BY <1>12, <1>15 DEF Folds
-----------------------------------------------------------------------------
(* Frames: which fields an operator changes *)

LEMMA SocketNumbers == NoSocket \notin Sockets /\ Overflow \notin Sockets /\ Overflow # NoSocket /\ Sockets \subseteq Nat /\ Overflow \in Nat
BY BoundsAssumption DEF NoSocket, Sockets, Overflow

LEMMA EmitFrame ==
    ASSUME NEW t \in Tabs, NEW state \in Emitted
    PROVE  /\ Emit(t, state) \in Tabs
           /\ SameNet(t, Emit(t, state)) /\ Emit(t, state).entry = t.entry
           /\ SameView(t, Emit(t, state))
           /\ t.poll \subseteq Emit(t, state).poll
<1> DEFINE v == [t EXCEPT !.emitted = state]
           p == v.poll \cup Busy(v)
           w == [v EXCEPT !.poll = p]
           u == Emit(t, state)
<1>1. v \in Tabs /\ SameNet(t, v) /\ v.entry = t.entry /\ SameView(t, v) /\ v.poll = t.poll
  BY DEF Tabs, SameNet, SameView
<1>2. u = t \/ u = v \/ u = w
  BY DEF Emit, ConnectionChanged, HandleOffline
<1> HIDE DEF v
<1>3. p \in SUBSET Models /\ v.poll \subseteq p
  BY <1>1 DEF Busy, Tabs
<1> HIDE DEF p
<1>4. w \in Tabs
  BY <1>1, <1>3 DEF Tabs
<1>5. SameNet(v, w) /\ w.entry = v.entry /\ SameView(v, w) /\ w.poll = p
  BY <1>1 DEF SameNet, SameView, Tabs
<1> HIDE DEF w, u
<1>6. CASE u = t
  BY <1>6 DEF SameNet, SameView, u
<1>7. CASE u = v
  BY <1>1, <1>7 DEF u
<1>8. CASE u = w
  BY <1>1, <1>3, <1>4, <1>5, <1>8 DEF SameNet, SameView, u
<1> QED BY <1>2, <1>6, <1>7, <1>8

\* The invariant asks of the polling only that it goes on.
LEMMA PollGrows ==
    ASSUME NEW t, NEW u \in Tabs, NEW X,
           SameNet(t, u), u.entry = t.entry, SameView(t, u), t.poll \subseteq u.poll
    PROVE  /\ Entries(u) = Entries(t)
           /\ Keeps(t, u)
           /\ Core(t) => Core(u)
           /\ Almost(t, X) => Almost(u, X)
           /\ Good(t, X) => Good(u, X)
<1>1. Entries(u) = Entries(t) /\ Keeps(t, u)
  BY DEF Entries, Keeps, Watching
<1>2. Core(t) => Core(u)
  BY <1>1 DEF Core, AllSound, AllHeard, HeardOn, Owned, Promised, SameNet
<1>3. ASSUME Almost(t, X) PROVE Almost(u, X)
  <2>1. Linked(u) = Linked(t) /\ \A m : Answering(u, m) = Answering(t, m)
    BY DEF Linked, Answering, SameNet
  <2>2. \A m \in Entries(u) \cap X : Moving(u, m)
    BY <1>1, <1>3, <2>1 DEF Almost, Moving, SameNet
  <2>3. Joined(u) /\ Greeted(u)
    BY <1>3, <2>1 DEF Almost, Joined, Greeted, SameNet
  <2> QED BY <1>2, <1>3, <2>2, <2>3 DEF Almost
<1>4. Good(t, X) => Good(u, X)
  BY <1>1, <1>3 DEF Good, Retrying, SameNet
<1> QED BY <1>1, <1>2, <1>3, <1>4

\* One entry changes.
EntryMoved(t, u, c) ==
    /\ u \in Tabs /\ SameNet(t, u) /\ SameView(t, u) /\ u.poll = t.poll
    /\ \A m \in Models \ {c} : u.entry[m] = t.entry[m]

LEMMA SetEntry ==
    ASSUME NEW t \in Tabs, NEW c \in Models, NEW e \in EntryType
    PROVE  /\ EntryMoved(t, [t EXCEPT !.entry[c] = e], c)
           /\ [t EXCEPT !.entry[c] = e].entry[c] = e
<1> DEFINE f == [t.entry EXCEPT ![c] = e]
<1>1. f \in [Models -> EntryType] /\ f[c] = e /\ \A m \in Models \ {c} : f[m] = t.entry[m]
  BY DEF Tabs
<1>2. [t EXCEPT !.entry[c] = e] = [t EXCEPT !.entry = f]
  OBVIOUS
<1> HIDE DEF f
<1>3. [t EXCEPT !.entry = f] \in Tabs /\ [t EXCEPT !.entry = f].entry = f
  BY <1>1 DEF Tabs
<1>4. EntryMoved(t, [t EXCEPT !.entry = f], c)
  BY <1>1, <1>3 DEF EntryMoved, SameNet, SameView, Tabs
<1> QED BY <1>1, <1>2, <1>3, <1>4

LEMMA SetStatus ==
    ASSUME NEW t \in Tabs, NEW c \in Models, NEW v \in {"none", "pending", "subscribed", "error"}
    PROVE  LET u == [t EXCEPT !.entry[c].status = v]
           IN  EntryMoved(t, u, c) /\ u.entry[c] = [t.entry[c] EXCEPT !.status = v]
<1> DEFINE e == [t.entry[c] EXCEPT !.status = v]
<1>1. e \in EntryType
  BY DEF Tabs, EntryType
<1>2. [t EXCEPT !.entry[c].status = v] = [t EXCEPT !.entry[c] = e]
  OBVIOUS
<1> HIDE DEF e
<1>3. EntryMoved(t, [t EXCEPT !.entry[c] = e], c) /\ [t EXCEPT !.entry[c] = e].entry[c] = e
  BY <1>1, SetEntry
<1> QED BY <1>2, <1>3 DEF e

LEMMA SetAuth ==
    ASSUME NEW t \in Tabs, NEW c \in Models, NEW v \in BOOLEAN
    PROVE  LET u == [t EXCEPT !.entry[c].auth = v]
           IN  EntryMoved(t, u, c) /\ u.entry[c] = [t.entry[c] EXCEPT !.auth = v]
<1> DEFINE e == [t.entry[c] EXCEPT !.auth = v]
<1>1. e \in EntryType
  BY DEF Tabs, EntryType
<1>2. [t EXCEPT !.entry[c].auth = v] = [t EXCEPT !.entry[c] = e]
  OBVIOUS
<1> HIDE DEF e
<1>3. EntryMoved(t, [t EXCEPT !.entry[c] = e], c) /\ [t EXCEPT !.entry[c] = e].entry[c] = e
  BY <1>1, SetEntry
<1> QED BY <1>2, <1>3 DEF e

LEMMA SetRetry ==
    ASSUME NEW t \in Tabs, NEW c \in Models, NEW v \in BOOLEAN
    PROVE  LET u == [t EXCEPT !.entry[c].retry = v]
           IN  EntryMoved(t, u, c) /\ u.entry[c] = [t.entry[c] EXCEPT !.retry = v]
<1> DEFINE e == [t.entry[c] EXCEPT !.retry = v]
<1>1. e \in EntryType
  BY DEF Tabs, EntryType
<1>2. [t EXCEPT !.entry[c].retry = v] = [t EXCEPT !.entry[c] = e]
  OBVIOUS
<1> HIDE DEF e
<1>3. EntryMoved(t, [t EXCEPT !.entry[c] = e], c) /\ [t EXCEPT !.entry[c] = e].entry[c] = e
  BY <1>1, SetEntry
<1> QED BY <1>2, <1>3 DEF e

LEMMA SetStatusAndAuth ==
    ASSUME NEW t \in Tabs, NEW c \in Models, NEW v \in {"none", "pending", "subscribed", "error"}
    PROVE  LET u == [t EXCEPT !.entry[c].status = v, !.entry[c].auth = FALSE]
           IN  /\ EntryMoved(t, u, c)
               /\ u.entry[c].status = v /\ u.entry[c].auth = FALSE
               /\ u.entry[c].retry = t.entry[c].retry
<1> DEFINE e == [[t.entry[c] EXCEPT !.status = v] EXCEPT !.auth = FALSE]
<1>1. t.entry[c] \in EntryType
  BY DEF Tabs
<1>2. e \in EntryType /\ e.status = v /\ e.auth = FALSE /\ e.retry = t.entry[c].retry
  BY <1>1 DEF EntryType
<1>3. [t EXCEPT !.entry[c].status = v, !.entry[c].auth = FALSE] = [t EXCEPT !.entry[c] = e]
  BY DEF Tabs
<1> HIDE DEF e
<1>4. EntryMoved(t, [t EXCEPT !.entry[c] = e], c) /\ [t EXCEPT !.entry[c] = e].entry[c] = e
  BY <1>2, SetEntry
<1> QED BY <1>2, <1>3, <1>4

\* An entry that stays one may lose its promise, its timer and its status.
LEMMA EntryMoves ==
    ASSUME NEW t, NEW u, NEW c \in Models, NEW X,
           EntryMoved(t, u, c),
           t.entry[c].status # "none", u.entry[c].status # "none",
           u.entry[c].auth => t.entry[c].auth,
           u.entry[c].status = "subscribed" => HeardOn(t, c)
    PROVE  /\ Keeps(t, u)
           /\ Almost(t, X \ {c}) => Almost(u, X \ {c}) /\ (Moving(u, c) => Almost(u, X))
           /\ Good(t, X \ {c}) => Good(u, X \ {c}) /\ (Moving(u, c) => Good(u, X))
<1>1. Entries(u) = Entries(t) /\ Keeps(t, u)
  BY DEF EntryMoved, Entries, Keeps, Watching
<1>2. ASSUME Core(t) PROVE Core(u)
  <2>1. AllSound(u) /\ \A m : HeardOn(u, m) = HeardOn(t, m)
    BY <1>2 DEF EntryMoved, SameNet, Core, AllSound, HeardOn
  <2>2. AllHeard(u)
    BY <1>2, <2>1 DEF EntryMoved, Core, AllHeard
  <2>3. Owned(u)
    BY <1>1, <1>2 DEF EntryMoved, SameNet, Core, Owned
  <2>4. Promised(u)
    BY <1>2 DEF EntryMoved, SameNet, Core, Promised
  <2> QED BY <2>1, <2>2, <2>3, <2>4 DEF Core, EntryMoved
<1>3. ASSUME Almost(t, X \ {c}) PROVE Almost(u, X \ {c})
  <2>1. Linked(u) = Linked(t) /\ \A m : Answering(u, m) = Answering(t, m)
    BY DEF Linked, Answering, SameNet, EntryMoved
  <2>2. \A m \in Entries(u) \cap (X \ {c}) : Moving(u, m)
    <3>1. \A m \in Entries(u) \cap (X \ {c}) : m \in Models \ {c} /\ Moving(t, m)
      BY <1>1, <1>3 DEF Almost, Entries
    <3> QED BY <3>1, <2>1 DEF Moving, EntryMoved, SameNet
  <2>3. Joined(u) /\ Greeted(u)
    BY <1>3, <2>1 DEF Almost, Joined, Greeted, SameNet, EntryMoved
  <2> QED BY <1>2, <1>3, <2>2, <2>3 DEF Almost
<1>4. ASSUME Almost(u, X \ {c}), Moving(u, c) PROVE Almost(u, X)
  BY <1>4 DEF Almost
<1>5. Retrying(t) => Retrying(u)
  BY <1>1 DEF Retrying, EntryMoved, SameNet
<1> QED BY <1>1, <1>3, <1>4, <1>5 DEF Good

\* A socket that is not open has nothing on it.
LEMMA FreshSocket ==
    ASSUME NEW v \in {"closed", "connecting", "open", "cut", "closing"}
    PROVE  LET k == [ClosedSocket EXCEPT !.state = v]
           IN  /\ k \in SocketType
               /\ k.state = v /\ k.subs = {} /\ k.inbox = <<>> /\ k.crossed = {}
<1>1. ClosedSocket \in SocketType
  <2>1. <<>> \in Seq(MessageType)
    OBVIOUS
  <2> DEFINE q == <<>>
  <2> HIDE DEF q
  <2> SUFFICES [state |-> "closed", subs |-> {}, inbox |-> q, crossed |-> {}] \in SocketType
    BY DEF ClosedSocket, q
  <2>2. q \in Seq(MessageType)
    BY <2>1 DEF q
  <2> QED BY <2>2 DEF SocketType
<1>2. ClosedSocket.subs = {} /\ ClosedSocket.inbox = <<>> /\ ClosedSocket.crossed = {}
  BY DEF ClosedSocket
<1> HIDE DEF ClosedSocket
<1>3. [ClosedSocket EXCEPT !.state = v] \in SocketType
  BY <1>1 DEF SocketType
<1> DEFINE k == [ClosedSocket EXCEPT !.state = v]
<1>4. k.state = v /\ k.subs = ClosedSocket.subs /\ k.inbox = ClosedSocket.inbox /\ k.crossed = ClosedSocket.crossed
  BY <1>1 DEF SocketType
<1> QED BY <1>2, <1>3, <1>4

LEMMA EmitGood ==
    ASSUME NEW t, NEW X, Good(t, X), NEW state \in Emitted
    PROVE  Good(Emit(t, state), X) /\ Keeps(t, Emit(t, state))
<1> DEFINE u == Emit(t, state)
<1>1. t \in Tabs
  BY DEF Good, Almost, Core
<1>2. u \in Tabs /\ SameNet(t, u) /\ u.entry = t.entry /\ SameView(t, u) /\ t.poll \subseteq u.poll
  BY <1>1, EmitFrame
<1> HIDE DEF u
<1>3. Good(u, X) /\ Keeps(t, u)
  BY <1>2, PollGrows
<1> QED BY <1>3 DEF u

-----------------------------------------------------------------------------
(* The connection *)

\* A connecting socket has nothing to say yet.
LEMMA ConnectGood ==
    ASSUME NEW t, Core(t), NEW X
    PROVE  Good(Connect(t), X) /\ Keeps(t, Connect(t))
<1>1. t \in Tabs
  BY DEF Core
<1>2. CASE FreeSockets(t) = {}
  <2> DEFINE u == [t EXCEPT !.ws = Overflow]
  <2>1. Connect(t) = u
    BY <1>2 DEF Connect
  <2>2. /\ u \in Tabs /\ u.ws = Overflow /\ u.sock = t.sock /\ u.entry = t.entry /\ u.auths = t.auths
        /\ u.poll = t.poll /\ SameView(t, u)
    BY SocketNumbers DEF Core, Tabs, SameView
  <2> HIDE DEF u
  <2>3. Entries(u) = Entries(t) /\ Keeps(t, u)
    BY <2>2 DEF Entries, Keeps, Watching
  <2>4. Core(u)
    BY <2>2, <2>3 DEF Core, AllSound, AllHeard, HeardOn, Owned, Promised
  <2>5. ~Linked(u) /\ Joined(u) /\ Retrying(u)
    BY <2>2, SocketNumbers DEF Linked, Joined, Retrying
  <2> QED BY <2>1, <2>3, <2>4, <2>5 DEF Good, Almost, Greeted, Moving
<1>3. CASE FreeSockets(t) # {}
  <2> DEFINE s == CHOOSE s \in FreeSockets(t) : TRUE
             k == [ClosedSocket EXCEPT !.state = "connecting"]
             f == [t.sock EXCEPT ![s] = k]
             u == [t EXCEPT !.ws = s, !.emitted = "connecting", !.sock = f]
  <2>1. s \in Sockets /\ t.sock[s].state = "closed"
    BY <1>3 DEF FreeSockets
  <2>2. k.state = "connecting" /\ k.subs = {} /\ k.crossed = {} /\ k.inbox = <<>>
    BY FreshSocket
  <2>3. k \in SocketType
    BY FreshSocket
  <2>4. f \in [Sockets -> SocketType] /\ f[s] = k /\ \A r \in Sockets \ {s} : f[r] = t.sock[r]
    BY <1>1, <2>1, <2>3 DEF Tabs
  <2>5. Connect(t) = u
    BY <1>3 DEF Connect
  <2> HIDE DEF f, s, k
  <2>6. /\ u \in Tabs /\ u.ws = s /\ u.sock = f /\ u.entry = t.entry /\ u.auths = t.auths
        /\ u.poll = t.poll /\ SameView(t, u)
    <3>1. s \in Nat
      BY <2>1, SocketNumbers
    <3>2. u \in Tabs /\ u.ws = s /\ u.sock = f
      BY <1>1, <2>4, <3>1 DEF Tabs, Emitted
    <3>3. u.entry = t.entry /\ u.auths = t.auths /\ u.poll = t.poll /\ SameView(t, u)
      BY <1>1 DEF Tabs, SameView
    <3> QED BY <3>2, <3>3
  <2> HIDE DEF u
  <2>7. Entries(u) = Entries(t) /\ Keeps(t, u)
    BY <2>6 DEF Entries, Keeps, Watching
  <2>8. AllSound(u)
    <3>1. SocketSound(k)
      BY <2>2 DEF SocketSound, Frames
    <3> QED BY <2>4, <2>6, <3>1 DEF Core, AllSound
  <2>9. AllHeard(u)
    <3>1. \A m : HeardOn(t, m) => HeardOn(u, m)
      BY <2>1, <2>4, <2>6 DEF Core, AllSound, SocketSound, HeardOn, Confirmed
    <3> QED BY <2>6, <3>1 DEF Core, AllHeard
  <2>10. Core(u)
    BY <2>6, <2>7, <2>8, <2>9 DEF Core, Owned, Promised
  <2>11. ~Linked(u) /\ Joined(u) /\ Retrying(u)
    BY <2>1, <2>2, <2>4, <2>6, SocketNumbers DEF Linked, Joined, Retrying
  <2> QED BY <2>5, <2>7, <2>10, <2>11 DEF Good, Almost, Greeted, Moving
<1> QED BY <1>2, <1>3

LEMMA KeepsSelf == ASSUME NEW t PROVE Keeps(t, t)
BY DEF Keeps, SameView, Watching

\* Nothing to connect, or a connection, or a new one.
LEMMA EnsureConnectionGood ==
    ASSUME NEW t, NEW X, Almost(t, X)
    PROVE  Good(EnsureConnection(t), X) /\ Keeps(t, EnsureConnection(t))
<1>1. CASE Entries(t) = {} \/ IsOpen(t, t.ws) \/ IsConnecting(t, t.ws)
  <2>1. EnsureConnection(t) = t
    BY <1>1 DEF EnsureConnection
  <2>2. Retrying(t)
    BY <1>1, SocketNumbers DEF Retrying, IsOpen, IsConnecting
  <2> QED BY <2>1, <2>2, KeepsSelf DEF Good
<1>2. CASE ~(Entries(t) = {} \/ IsOpen(t, t.ws) \/ IsConnecting(t, t.ws))
  <2>1. EnsureConnection(t) = Connect(t)
    BY <1>2 DEF EnsureConnection
  <2> QED BY <2>1, ConnectGood DEF Almost
<1> QED BY <1>1, <1>2

\* A socket is replaced by one that is no longer open.
LEMMA CloseFrame ==
    ASSUME NEW t \in Tabs, AllSound(t), NEW s \in Nat
    PROVE  LET u == Close(t, s)
           IN  /\ u \in Tabs /\ AllSound(u) /\ SameView(t, u)
               /\ u.entry = t.entry /\ u.auths = t.auths /\ u.poll = t.poll
<1> DEFINE k == [ClosedSocket EXCEPT !.state = "closing"]
           f == [t.sock EXCEPT ![s] = k]
           v == [t EXCEPT !.sock = f]
<1>1. CASE IsOpen(t, s) \/ IsConnecting(t, s)
  <2>1. k \in SocketType /\ k.state = "closing" /\ k.subs = {} /\ k.crossed = {} /\ k.inbox = <<>>
    BY FreshSocket
  <2>2. s \in Sockets /\ SocketSound(k)
    <3>1. s \in Sockets
      BY <1>1 DEF IsOpen, IsConnecting
    <3>2. Frames(k) = {}
      BY <2>1 DEF Frames
    <3> QED BY <2>1, <3>1, <3>2 DEF SocketSound
  <2>3. f \in [Sockets -> SocketType] /\ \A r \in Sockets : SocketSound(f[r])
    BY <2>1, <2>2 DEF Tabs, AllSound
  <2>4. Close(t, s) = v
    BY <1>1 DEF Close
  <2> HIDE DEF f, k
  <2>5. v \in Tabs /\ v.sock = f /\ SameView(t, v) /\ v.entry = t.entry /\ v.auths = t.auths /\ v.poll = t.poll
    BY <2>3 DEF Tabs, SameView
  <2>6. AllSound(v)
    BY <2>3, <2>5 DEF AllSound
  <2> QED BY <2>4, <2>5, <2>6
<1>2. CASE ~(IsOpen(t, s) \/ IsConnecting(t, s))
  BY <1>2 DEF Close, SameView
<1> QED BY <1>1, <1>2

\* The connection goes with the last entry.
LEMMA DisconnectGood ==
    ASSUME NEW t, Core(t), Entries(t) = {}, NEW X
    PROVE  Good(Disconnect(t), X) /\ Keeps(t, Disconnect(t))
<1> DEFINE c == Close(t, t.ws)
           v == [c EXCEPT !.timer = FALSE, !.ws = NoSocket, !.sid = NoSocket]
<1>1. /\ c \in Tabs /\ AllSound(c) /\ SameView(t, c)
      /\ c.entry = t.entry /\ c.auths = t.auths /\ c.poll = t.poll
  <2>1. t \in Tabs /\ AllSound(t) /\ t.ws \in Nat
    BY DEF Core, Tabs
  <2> QED BY <2>1, CloseFrame
<1> HIDE DEF c
<1>2. /\ v \in Tabs /\ v.ws = NoSocket /\ v.sock = c.sock /\ v.entry = c.entry /\ v.auths = c.auths
      /\ v.poll = c.poll /\ SameView(c, v)
  BY <1>1 DEF Tabs, SameView, NoSocket
<1>3. Disconnect(t) = Emit(v, "disconnected")
  BY DEF Disconnect, c
<1> HIDE DEF v
<1>4. Entries(v) = {} /\ Keeps(t, v)
  BY <1>1, <1>2 DEF Entries, Keeps, Watching, SameView
<1>5. Core(v)
  <2>1. \A m \in Models : v.entry[m].status = "none"
    BY <1>4 DEF Entries
  <2>2. AllSound(v) /\ AllHeard(v)
    BY <1>1, <1>2, <2>1 DEF AllSound, AllHeard
  <2>3. Owned(v) /\ Promised(v)
    BY <1>1, <1>2, <1>4 DEF Core, Owned, Promised
  <2> QED BY <1>2, <2>2, <2>3 DEF Core
<1>6. Good(v, X)
  BY <1>2, <1>4, <1>5, SocketNumbers DEF Good, Almost, Joined, Greeted, Linked, Retrying
<1>7. Good(Emit(v, "disconnected"), X) /\ Keeps(v, Emit(v, "disconnected"))
  BY <1>6, EmitGood DEF Emitted
<1> QED BY <1>3, <1>4, <1>7 DEF Keeps, SameView

LEMMA ReconnectTimerGood ==
    ASSUME NEW t, NEW X, Good(t, X)
    PROVE  Good(ReconnectTimer(t), X) /\ Keeps(t, ReconnectTimer(t))
<1> DEFINE u == [t EXCEPT !.timer = FALSE]
<1>1. /\ u \in Tabs /\ u.ws = t.ws /\ u.sid = t.sid /\ u.sock = t.sock /\ u.entry = t.entry
      /\ u.auths = t.auths /\ u.poll = t.poll /\ SameView(t, u)
  BY DEF Good, Almost, Core, Tabs, SameView
<1>2. ReconnectTimer(t) = EnsureConnection(u)
  BY DEF ReconnectTimer
<1> HIDE DEF u
<1>3. Entries(u) = Entries(t) /\ Keeps(t, u)
  BY <1>1 DEF Entries, Keeps, Watching
<1>4. Core(u)
  BY <1>1, <1>3 DEF Good, Almost, Core, AllSound, AllHeard, HeardOn, Owned, Promised
<1>5. Linked(u) = Linked(t) /\ \A m : Answering(u, m) = Answering(t, m)
  BY <1>1 DEF Linked, Answering
<1>6. \A m \in Entries(u) \cap X : Moving(u, m)
  BY <1>1, <1>3, <1>5 DEF Good, Almost, Moving
<1>7. Almost(u, X)
  BY <1>1, <1>4, <1>5, <1>6 DEF Good, Almost, Joined, Greeted
<1>8. Good(EnsureConnection(u), X) /\ Keeps(u, EnsureConnection(u))
  BY <1>7, EnsureConnectionGood
<1> QED BY <1>2, <1>3, <1>8 DEF Keeps, SameView

\* After the end of a socket nothing is said of who is heard, until the entries are reset.
LEMMA GoneFrame ==
    ASSUME NEW t, Core(t), NEW s \in Sockets
    PROVE  LET u == Gone(t, s)
           IN  /\ u \in Tabs /\ AllSound(u) /\ Owned(u)
               /\ SameView(t, u) /\ u.entry = t.entry /\ u.poll = t.poll
<1> DEFINE A == {a \in BagToSet(t.auths) : a.sid = s}
           g == [a \in A |-> [a EXCEPT !.sid = NoSocket]]
           auths == Renamed(t.auths, A, g)
           f == [t.sock EXCEPT ![s] = ClosedSocket]
           u == [t EXCEPT !.sock = f, !.auths = auths]
<1>1. Gone(t, s) = u
  BY DEF Gone
<1>2. t \in Tabs /\ t.auths \in BagsOf(AuthType) /\ DOMAIN t.auths \subseteq AuthType
  BY BagFacts DEF Core, Tabs
<1>3. A \in SUBSET DOMAIN t.auths /\ g \in [A -> AuthType] /\ \A a \in A : g[a].channel = a.channel /\ g[a].own = a.own
  BY <1>2 DEF AuthType, BagToSet, NoSocket
<1>4. auths \in BagsOf(AuthType) /\ \A x \in DOMAIN auths : x \in DOMAIN t.auths \/ \E a \in A : x = g[a]
  <2> HIDE DEF A, g
  <2>1. auths \in BagsOf(AuthType)
    BY <1>2, <1>3, BagRenamed
  <2>2. \A x \in DOMAIN auths : x \in DOMAIN t.auths \/ \E a \in A : x = g[a]
    BY RenamedElements
  <2> QED BY <2>1, <2>2
<1>5. ClosedSocket \in SocketType /\ SocketSound(ClosedSocket)
  <2>1. LET k == [ClosedSocket EXCEPT !.state = "closed"] IN k \in SocketType
    BY FreshSocket
  <2>2. ClosedSocket = [ClosedSocket EXCEPT !.state = "closed"]
    BY DEF ClosedSocket
  <2>3. SocketSound(ClosedSocket)
    BY DEF SocketSound, ClosedSocket, Frames
  <2> QED BY <2>1, <2>2, <2>3
<1>6. f \in [Sockets -> SocketType] /\ \A r \in Sockets : SocketSound(f[r])
  BY <1>2, <1>5 DEF Core, AllSound, Tabs
<1> HIDE DEF A, g, f, auths
<1>7. u \in Tabs /\ u.sock = f /\ u.auths = auths /\ SameView(t, u) /\ u.entry = t.entry /\ u.poll = t.poll
  BY <1>2, <1>4, <1>6 DEF Tabs, SameView
<1> HIDE DEF u
<1>8. AllSound(u)
  BY <1>6, <1>7 DEF AllSound
<1>9. Owned(u)
  <2>1. Entries(u) = Entries(t) /\ Owned(t)
    BY <1>7 DEF Entries, Core
  <2> QED BY <2>1, <1>3, <1>4, <1>7 DEF Owned
<1> QED BY <1>1, <1>7, <1>8, <1>9

LEMMA HandleCloseGood ==
    ASSUME NEW t \in Tabs, AllSound(t), Owned(t), NEW X
    PROVE  Good(HandleClose(t), X) /\ Keeps(t, HandleClose(t))
<1> DEFINE e == [c \in Models |-> IF c \in Entries(t) THEN NewEntry ELSE NoEntry]
           reset == [t EXCEPT !.ws = NoSocket, !.sid = NoSocket, !.entry = e]
           v == IF Entries(t) = {} THEN reset ELSE ScheduleReconnect(reset)
<1>1. /\ NewEntry \in EntryType /\ NewEntry.status = "pending" /\ NewEntry.auth = FALSE
      /\ NoEntry \in EntryType /\ NoEntry.status = "none" /\ NoEntry.auth = FALSE
  BY DEF NewEntry, NoEntry, EntryType
<1>2. e \in [Models -> EntryType] /\ \A m \in Models : e[m].auth = FALSE /\ e[m].status \in {"none", "pending"}
  BY <1>1
<1>3. \A m \in Models : e[m].status = "none" <=> m \notin Entries(t)
  BY <1>1
<1> HIDE DEF e
<1>4. /\ reset \in Tabs /\ reset.ws = NoSocket /\ reset.sock = t.sock /\ reset.entry = e
      /\ reset.auths = t.auths /\ reset.poll = t.poll /\ SameView(t, reset)
  BY <1>2 DEF Tabs, SameView, NoSocket
<1> HIDE DEF reset
<1>5. Entries(reset) = Entries(t) /\ Keeps(t, reset)
  BY <1>3, <1>4 DEF Entries, Keeps, Watching
<1>6. Core(reset)
  <2>1. AllSound(reset) /\ AllHeard(reset) /\ Owned(reset) /\ Promised(reset)
    BY <1>2, <1>4, <1>5 DEF AllSound, AllHeard, Owned, Promised
  <2> QED BY <1>4, <2>1 DEF Core
<1>7. Good(v, X) /\ Keeps(reset, v)
  <2>1. CASE Entries(t) = {}
    <3>1. v = reset
      BY <2>1
    <3>2. ~Linked(reset) /\ Joined(reset) /\ Retrying(reset)
      BY <2>1, <1>4, <1>5, SocketNumbers DEF Linked, Joined, Retrying
    <3> QED BY <3>1, <3>2, <1>6, KeepsSelf DEF Good, Almost, Greeted, Moving
  <2>2. CASE Entries(t) # {} /\ reset.timer
    <3>1. v = reset
      BY <2>2 DEF ScheduleReconnect
    <3>2. ~Linked(reset) /\ Joined(reset) /\ Retrying(reset)
      BY <2>2, <1>4, SocketNumbers DEF Linked, Joined, Retrying
    <3> QED BY <3>1, <3>2, <1>6, KeepsSelf DEF Good, Almost, Greeted, Moving
  <2>3. CASE Entries(t) # {} /\ ~reset.timer
    <3> DEFINE a == Emit(reset, "reconnecting")
               b == [a EXCEPT !.timer = TRUE]
    <3>1. v = b
      BY <2>3 DEF ScheduleReconnect
    <3>2. a \in Tabs /\ SameNet(reset, a) /\ a.entry = reset.entry /\ SameView(reset, a) /\ reset.poll \subseteq a.poll
      BY <1>4, EmitFrame DEF Emitted
    <3>3. Core(a) /\ Keeps(reset, a)
      BY <3>2, <1>6, PollGrows
    <3> HIDE DEF a
    <3>4. /\ b \in Tabs /\ b.timer = TRUE /\ b.ws = a.ws /\ b.sock = a.sock /\ b.entry = a.entry
          /\ b.auths = a.auths /\ b.poll = a.poll /\ SameView(a, b)
      BY <3>2 DEF Tabs, SameView
    <3> HIDE DEF b
    <3>5. Entries(b) = Entries(a) /\ Keeps(reset, b)
      BY <3>3, <3>4 DEF Entries, Keeps, Watching, SameView
    <3>6. Core(b)
      BY <3>3, <3>4, <3>5 DEF Core, AllSound, AllHeard, HeardOn, Owned, Promised
    <3>7. ~Linked(b) /\ Joined(b) /\ Retrying(b)
      BY <3>2, <3>4, <1>4, SocketNumbers DEF Linked, Joined, Retrying, SameNet
    <3> QED BY <3>1, <3>5, <3>6, <3>7 DEF Good, Almost, Greeted, Moving
  <2> QED BY <2>1, <2>2, <2>3
<1>8. HandleClose(t) = Emit(v, "disconnected")
  BY DEF HandleClose, reset, e
<1> HIDE DEF v
<1>9. Good(Emit(v, "disconnected"), X) /\ Keeps(v, Emit(v, "disconnected"))
  BY <1>7, EmitGood DEF Emitted
<1> QED BY <1>5, <1>7, <1>8, <1>9 DEF Keeps, SameView

-----------------------------------------------------------------------------
(* Subscriptions *)

\* What an authorisation in flight does for its channel.
LEMMA RequestSubscribeGood ==
    ASSUME NEW t, NEW X, NEW c \in Models, Good(t, X \ {c})
    PROVE  Good(RequestSubscribe(t, c), X) /\ Keeps(t, RequestSubscribe(t, c))
<1>1. ASSUME c \in Entries(t) => Moving(t, c) PROVE Good(t, X) /\ Keeps(t, t)
  BY <1>1, KeepsSelf DEF Good, Almost
<1>2. CASE t.entry[c].status \in {"none", "subscribed"}
  <2>1. RequestSubscribe(t, c) = t
    BY <1>2 DEF RequestSubscribe
  <2>2. c \in Entries(t) => Moving(t, c)
    BY <1>2 DEF Entries, Moving
  <2> QED BY <2>1, <2>2, <1>1
<1>3. CASE t.entry[c].status \notin {"none", "subscribed"} /\ (~IsOpen(t, t.ws) \/ t.sid = NoSocket)
  <2>1. RequestSubscribe(t, c) = EnsureConnection(t)
    BY <1>3 DEF RequestSubscribe
  <2>2. CASE IsOpen(t, t.ws) \/ IsConnecting(t, t.ws)
    <3>1. EnsureConnection(t) = t
      BY <2>2 DEF EnsureConnection
    <3>2. ~Linked(t) \/ t.sid = NoSocket
      BY <1>3 DEF Linked, IsOpen
    <3>3. Moving(t, c)
      BY <3>2 DEF Moving, Good, Almost, Greeted, Answering, Greeting, Message
    <3> QED BY <2>1, <3>1, <3>3, <1>1
  <2>3. CASE ~(IsOpen(t, t.ws) \/ IsConnecting(t, t.ws))
    <3>1. c \in Entries(t)
      BY <1>3 DEF Entries
    <3>2. EnsureConnection(t) = Connect(t)
      BY <2>3, <3>1 DEF EnsureConnection
    <3> QED BY <2>1, <3>2, ConnectGood DEF Good, Almost
  <2> QED BY <2>2, <2>3
<1>4. CASE t.entry[c].status \notin {"none", "subscribed"} /\ IsOpen(t, t.ws) /\ t.sid # NoSocket /\ t.entry[c].auth
  <2>1. RequestSubscribe(t, c) = t
    BY <1>4 DEF RequestSubscribe
  <2>2. Moving(t, c)
    BY <1>4 DEF Moving, Good, Almost, Core, Promised
  <2> QED BY <2>1, <2>2, <1>1
<1>5. CASE t.entry[c].status \notin {"none", "subscribed"} /\ IsOpen(t, t.ws) /\ t.sid # NoSocket /\ ~t.entry[c].auth
  <2> DEFINE a == [channel |-> c, sid |-> t.sid, own |-> TRUE]
             v == [t EXCEPT !.entry[c].auth = TRUE]
             auths == v.auths (+) SetToBag({a})
             u == [v EXCEPT !.auths = auths]
  <2>1. t \in Tabs
    BY DEF Good, Almost, Core
  <2>2. EntryMoved(t, v, c) /\ v.entry[c] = [t.entry[c] EXCEPT !.auth = TRUE]
    BY <2>1, SetAuth
  <2>3. RequestSubscribe(t, c) = u
    BY <1>5, <2>1 DEF RequestSubscribe, Tabs
  <2>4. a \in AuthType /\ a.channel = c /\ a.own
    BY <2>1 DEF AuthType, Tabs
  <2>5. v.entry[c].status = t.entry[c].status
    BY <2>1, <2>2 DEF Tabs, EntryType
  <2> HIDE DEF a, v
  <2>6. auths \in BagsOf(AuthType) /\ DOMAIN auths = DOMAIN t.auths \cup {a}
    <3>1. SetToBag({a}) \in BagsOf(AuthType) /\ DOMAIN SetToBag({a}) = {a}
      BY <2>4, OneBag
    <3>2. v.auths = t.auths /\ t.auths \in BagsOf(AuthType)
      BY <2>1, <2>2 DEF EntryMoved, SameNet, Tabs
    <3>3. auths \in BagsOf(AuthType)
      BY <3>1, <3>2, BagSum
    <3>4. DOMAIN auths = DOMAIN v.auths \cup DOMAIN SetToBag({a})
      BY SumElements
    <3> QED BY <3>1, <3>2, <3>3, <3>4
  <2> HIDE DEF auths
  <2>7. /\ u \in Tabs /\ u.ws = t.ws /\ u.sid = t.sid /\ u.timer = t.timer /\ u.sock = t.sock
        /\ u.auths = auths /\ u.entry = v.entry /\ u.poll = t.poll /\ SameView(t, u)
    BY <2>2, <2>6 DEF EntryMoved, SameNet, SameView, Tabs
  <2> HIDE DEF u
  <2>8. \A m \in Models : u.entry[m].status = t.entry[m].status
    BY <2>2, <2>5, <2>7 DEF EntryMoved
  <2>9. Entries(u) = Entries(t) /\ c \in Entries(t) /\ Keeps(t, u)
    BY <1>5, <2>7, <2>8 DEF Entries, Keeps, Watching
  <2>10. AllSound(u) /\ AllHeard(u)
    BY <2>7, <2>8 DEF Good, Almost, Core, AllSound, AllHeard, HeardOn
  <2>11. Owned(u)
    BY <2>4, <2>6, <2>7, <2>9 DEF Good, Almost, Core, Owned
  <2>12. Promised(u)
    <3>1. \A m \in Models \ {c} : u.entry[m] = t.entry[m]
      BY <2>2, <2>7 DEF EntryMoved
    <3> QED BY <3>1, <2>4, <2>6, <2>7 DEF Good, Almost, Core, Promised
  <2>13. Linked(u) = Linked(t) /\ \A m : Answering(u, m) = Answering(t, m)
    BY <2>7 DEF Linked, Answering
  <2>14. \A m \in Entries(u) \cap X : Moving(u, m)
    <3> TAKE m \in Entries(u) \cap X
    <3>1. CASE m = c
      BY <3>1, <2>4, <2>6, <2>7 DEF Moving
    <3>2. CASE m # c
      <4>1. m \in Models \ {c} /\ Moving(t, m)
        BY <3>2, <2>9 DEF Good, Almost, Entries
      <4>2. u.entry[m] = t.entry[m]
        BY <4>1, <2>2, <2>7 DEF EntryMoved
      <4> QED BY <4>1, <4>2, <2>6, <2>7, <2>13 DEF Moving
    <3> QED BY <3>1, <3>2
  <2>15. Joined(u) /\ Greeted(u) /\ Retrying(u)
    BY <2>7, <2>9, <2>13 DEF Good, Almost, Joined, Greeted, Retrying
  <2> QED BY <2>3, <2>7, <2>9, <2>10, <2>11, <2>12, <2>14, <2>15 DEF Good, Almost, Core
<1> QED BY <1>2, <1>3, <1>4, <1>5

LEMMA SubscribeGood ==
    ASSUME NEW t, NEW X, NEW c \in Models \ Entries(t), Good(t, X)
    PROVE  LET u == Subscribe(t, c)
           IN  /\ Good(u, X) /\ SameView(t, u) /\ Entries(u) = Entries(t) \cup {c}
               /\ Watching(t) \cup {c} \subseteq Watching(u)
<1> DEFINE v == [t EXCEPT !.entry[c] = NewEntry]
           w == EnsureConnection(v)
           u == RequestSubscribe(w, c)
<1>1. NewEntry \in EntryType /\ NewEntry.status = "pending" /\ NewEntry.auth = FALSE
  BY DEF NewEntry, NoEntry, EntryType
<1>2. EntryMoved(t, v, c) /\ v.entry[c] = NewEntry
  BY <1>1, SetEntry DEF Good, Almost, Core
<1>3. Subscribe(t, c) = u
  BY DEF Subscribe
<1> HIDE DEF v
<1>4. Entries(v) = Entries(t) \cup {c} /\ Watching(t) \cup {c} \subseteq Watching(v) /\ SameView(t, v)
  BY <1>1, <1>2 DEF EntryMoved, Entries, Watching
<1>5. Core(v)
  <2>1. AllSound(v) /\ AllHeard(v)
    BY <1>1, <1>2 DEF Good, Almost, Core, EntryMoved, SameNet, AllSound, AllHeard, HeardOn
  <2>2. Owned(v)
    BY <1>2, <1>4 DEF Good, Almost, Core, EntryMoved, SameNet, Owned
  <2>3. Promised(v)
    BY <1>1, <1>2 DEF Good, Almost, Core, EntryMoved, SameNet, Promised
  <2> QED BY <1>2, <2>1, <2>2, <2>3 DEF Core, EntryMoved
<1>6. Almost(v, X \ {c})
  <2>1. Linked(v) = Linked(t) /\ \A m : Answering(v, m) = Answering(t, m)
    BY <1>2 DEF Linked, Answering, SameNet, EntryMoved
  <2>2. \A m \in Entries(v) \cap (X \ {c}) : Moving(v, m)
    <3>1. \A m \in Entries(v) \cap (X \ {c}) : m \in Models \ {c} /\ Moving(t, m)
      BY <1>4 DEF Good, Almost, Entries
    <3> QED BY <1>2, <3>1, <2>1 DEF Moving, EntryMoved, SameNet
  <2>3. Joined(v) /\ Greeted(v)
    BY <1>2, <2>1 DEF Good, Almost, Joined, Greeted, SameNet, EntryMoved
  <2> QED BY <1>5, <2>2, <2>3 DEF Almost
<1>7. Good(w, X \ {c}) /\ Keeps(v, w)
  BY <1>6, EnsureConnectionGood
<1> HIDE DEF w
<1>8. Good(u, X) /\ Keeps(w, u)
  BY <1>7, RequestSubscribeGood
<1> QED BY <1>3, <1>4, <1>7, <1>8 DEF Keeps, SameView

LEMMA ScheduleResubscribeGood ==
    ASSUME NEW t, NEW X, NEW c \in Models, Good(t, X \ {c})
    PROVE  Good(ScheduleResubscribe(t, c), X) /\ Keeps(t, ScheduleResubscribe(t, c))
<1> DEFINE u == [t EXCEPT !.entry[c].retry = TRUE]
<1>1. CASE c \in Entries(t)
  <2>1. ScheduleResubscribe(t, c) = u
    BY <1>1 DEF ScheduleResubscribe
  <2>2. t \in Tabs
    BY DEF Good, Almost, Core
  <2>3. EntryMoved(t, u, c) /\ u.entry[c] = [t.entry[c] EXCEPT !.retry = TRUE]
    BY <2>2, SetRetry
  <2> HIDE DEF u
  <2>4. /\ u.entry[c].retry = TRUE /\ u.entry[c].status = t.entry[c].status
        /\ u.entry[c].auth = t.entry[c].auth
    BY <2>2, <2>3 DEF Tabs, EntryType
  <2>5. t.entry[c].status # "none" /\ (u.entry[c].status = "subscribed" => HeardOn(t, c))
    BY <1>1, <2>4 DEF Entries, Good, Almost, Core, AllHeard
  <2>6. Moving(u, c)
    BY <2>4 DEF Moving
  <2>7. Keeps(t, u) /\ Good(u, X)
    BY <2>3, <2>4, <2>5, <2>6, EntryMoves
  <2> QED BY <2>1, <2>7
<1>2. CASE c \notin Entries(t)
  BY <1>2, KeepsSelf DEF ScheduleResubscribe, Good, Almost
<1> QED BY <1>1, <1>2

LEMMA RetryTimerGood ==
    ASSUME NEW t, NEW X, NEW c \in Models, Good(t, X), c \in Entries(t)
    PROVE  Good(RetryTimer(t, c), X) /\ Keeps(t, RetryTimer(t, c))
<1> DEFINE v == [t EXCEPT !.entry[c].retry = FALSE]
<1>1. t \in Tabs
  BY DEF Good, Almost, Core
<1>2. EntryMoved(t, v, c) /\ v.entry[c] = [t.entry[c] EXCEPT !.retry = FALSE]
  BY <1>1, SetRetry
<1>3. RetryTimer(t, c) = RequestSubscribe(v, c)
  BY DEF RetryTimer
<1> HIDE DEF v
<1>4. v.entry[c].status = t.entry[c].status /\ v.entry[c].auth = t.entry[c].auth
  BY <1>1, <1>2 DEF Tabs, EntryType
<1>5. t.entry[c].status # "none" /\ (v.entry[c].status = "subscribed" => HeardOn(t, c))
  BY <1>4 DEF Entries, Good, Almost, Core, AllHeard
<1>6. Good(t, X \ {c})
  BY DEF Good, Almost
<1>7. Keeps(t, v) /\ Good(v, X \ {c})
  BY <1>2, <1>4, <1>5, <1>6, EntryMoves
<1>8. Good(RequestSubscribe(v, c), X) /\ Keeps(v, RequestSubscribe(v, c))
  BY <1>7, RequestSubscribeGood
<1> QED BY <1>3, <1>7, <1>8 DEF Keeps, SameView

\* A promise that settles leaves the others in flight.
LEMMA SettleGood ==
    ASSUME NEW t, NEW X, Good(t, X), NEW a \in DOMAIN t.auths
    PROVE  /\ a.channel \in Models
           /\ a.own => a.channel \in Entries(t)
           /\ Good(Settle(t, a), X \ {a.channel}) /\ Keeps(t, Settle(t, a))
<1> DEFINE b == t.auths (-) SetToBag({a})
           v == [t EXCEPT !.auths = b]
           c == a.channel
           u == Settle(t, a)
<1>1. t \in Tabs /\ t.auths \in BagsOf(AuthType)
  BY DEF Good, Almost, Core, Tabs
<1>2. a \in AuthType /\ c \in Models
  <2>1. DOMAIN t.auths \subseteq AuthType
    BY <1>1, BagFacts
  <2> QED BY <2>1 DEF AuthType
<1>3. b \in BagsOf(AuthType) /\ DOMAIN b \subseteq DOMAIN t.auths /\ DOMAIN t.auths \ {a} \subseteq DOMAIN b
  <2>1. b \in BagsOf(AuthType)
    BY <1>1, BagTake
  <2>2. DOMAIN b \subseteq DOMAIN t.auths
    BY <1>1, BagTake
  <2>3. DOMAIN t.auths \ {a} \subseteq DOMAIN b
    BY <1>1, BagTake
  <2> QED BY <2>1, <2>2, <2>3
<1>4. u = IF a.own THEN [v EXCEPT !.entry[c].auth = FALSE] ELSE v
  BY DEF Settle
<1> HIDE DEF b
<1>5. /\ v \in Tabs /\ v.ws = t.ws /\ v.sid = t.sid /\ v.timer = t.timer /\ v.sock = t.sock
      /\ v.auths = b /\ v.entry = t.entry /\ v.poll = t.poll /\ SameView(t, v)
  BY <1>1, <1>3 DEF Tabs, SameView
<1> HIDE DEF v
<1>6. a.own => c \in Entries(t)
  BY DEF Good, Almost, Core, Owned
<1>7. /\ u \in Tabs /\ u.ws = t.ws /\ u.sid = t.sid /\ u.timer = t.timer /\ u.sock = t.sock
      /\ u.auths = b /\ u.poll = t.poll /\ SameView(t, u)
      /\ \A m \in Models \ {c} : u.entry[m] = t.entry[m]
      /\ u.entry[c].status = t.entry[c].status
      /\ u.entry[c].auth => t.entry[c].auth /\ ~a.own
  <2>1. CASE a.own
    <3>1. EntryMoved(v, u, c) /\ u.entry[c] = [v.entry[c] EXCEPT !.auth = FALSE]
      <4> DEFINE w == [v EXCEPT !.entry[c].auth = FALSE]
      <4>1. EntryMoved(v, w, c) /\ w.entry[c] = [v.entry[c] EXCEPT !.auth = FALSE]
        BY <1>2, <1>5, SetAuth
      <4>2. u = w
        BY <1>4, <2>1
      <4> HIDE DEF u, w
      <4> QED BY <4>1, <4>2
    <3>2. u.entry[c].status = v.entry[c].status /\ u.entry[c].auth = FALSE
      BY <1>2, <1>5, <3>1 DEF Tabs, EntryType
    <3> QED BY <1>5, <3>1, <3>2 DEF EntryMoved, SameNet, SameView
  <2>2. CASE ~a.own
    BY <1>4, <1>5, <2>2
  <2> QED BY <2>1, <2>2
<1> HIDE DEF u
<1>8. \A m \in Models : u.entry[m].status = t.entry[m].status
  BY <1>7
<1>9. Entries(u) = Entries(t) /\ Keeps(t, u)
  BY <1>7, <1>8 DEF Entries, Keeps, Watching
<1>10. Core(u)
  <2>1. AllSound(u) /\ AllHeard(u)
    BY <1>7, <1>8 DEF Good, Almost, Core, AllSound, AllHeard, HeardOn
  <2>2. Owned(u)
    BY <1>3, <1>7, <1>9 DEF Good, Almost, Core, Owned
  <2>3. Promised(u)
    <3> SUFFICES ASSUME NEW m \in Models, u.entry[m].auth
                 PROVE  \E d \in DOMAIN u.auths : d.own /\ d.channel = m
      BY DEF Promised
    <3>1. t.entry[m].auth
      BY <1>7
    <3>2. PICK d \in DOMAIN t.auths : d.own /\ d.channel = m
      BY <3>1 DEF Good, Almost, Core, Promised
    <3>3. d # a
      BY <1>7, <3>2
    <3> QED BY <1>3, <1>7, <3>2, <3>3
  <2> QED BY <1>7, <2>1, <2>2, <2>3 DEF Core
<1>11. Linked(u) = Linked(t) /\ \A m : Answering(u, m) = Answering(t, m)
  BY <1>7 DEF Linked, Answering
<1>12. \A m \in Entries(u) \cap (X \ {c}) : Moving(u, m)
  <2> TAKE m \in Entries(u) \cap (X \ {c})
  <2>1. m \in Models \ {c} /\ Moving(t, m) /\ u.entry[m] = t.entry[m]
    BY <1>7, <1>9 DEF Good, Almost, Entries
  <2>2. \A d \in DOMAIN t.auths : d.channel = m => d \in DOMAIN u.auths
    BY <1>3, <1>7, <2>1
  <2> QED BY <1>7, <1>11, <2>1, <2>2 DEF Moving
<1>13. Joined(u) /\ Greeted(u) /\ Retrying(u)
  BY <1>7, <1>9, <1>11 DEF Good, Almost, Joined, Greeted, Retrying
<1> QED BY <1>2, <1>6, <1>9, <1>10, <1>12, <1>13 DEF Good, Almost, u

\* A frame for m is something to wait for.
LEMMA AppendFrames ==
    ASSUME NEW k \in SocketType, NEW g \in MessageType
    PROVE  Append(k.inbox, g) \in Seq(MessageType)
           /\ \A j \in SocketType : j.inbox = Append(k.inbox, g) => Frames(j) = Frames(k) \cup {g}
<1>1. k.inbox \in Seq(MessageType)
  BY DEF SocketType
<1> DEFINE q == k.inbox
           r == Append(q, g)
<1>2. r \in Seq(MessageType) /\ Len(r) = Len(q) + 1 /\ \A i \in 1 .. Len(q) : r[i] = q[i]
  BY <1>1, AppendProperties
<1>3. r[Len(r)] = g
  BY <1>1, AppendProperties
<1>4. DOMAIN r = 1 .. Len(r) /\ DOMAIN q = 1 .. Len(q) /\ Len(q) \in Nat
  BY <1>1, <1>2, LenProperties
<1> HIDE DEF q, r
<1>5. {r[i] : i \in DOMAIN r} = {q[i] : i \in DOMAIN q} \cup {g}
  BY <1>2, <1>3, <1>4
<1> QED BY <1>2, <1>5 DEF Frames, q, r

\* One socket changes.
SocketMoved(t, u, s) ==
    /\ u \in Tabs /\ SameView(t, u) /\ u.poll = t.poll
    /\ u.ws = t.ws /\ u.sid = t.sid /\ u.timer = t.timer /\ u.auths = t.auths /\ u.entry = t.entry
    /\ \A r \in Sockets \ {s} : u.sock[r] = t.sock[r]

LEMMA SetSocket ==
    ASSUME NEW t \in Tabs, NEW s \in Sockets, NEW k \in SocketType
    PROVE  /\ SocketMoved(t, [t EXCEPT !.sock[s] = k], s)
           /\ [t EXCEPT !.sock[s] = k].sock[s] = k
<1> DEFINE f == [t.sock EXCEPT ![s] = k]
<1>1. f \in [Sockets -> SocketType] /\ f[s] = k /\ \A r \in Sockets \ {s} : f[r] = t.sock[r]
  BY DEF Tabs
<1>2. [t EXCEPT !.sock[s] = k] = [t EXCEPT !.sock = f]
  OBVIOUS
<1> HIDE DEF f
<1>3. [t EXCEPT !.sock = f] \in Tabs /\ [t EXCEPT !.sock = f].sock = f
  BY <1>1 DEF Tabs
<1>4. SocketMoved(t, [t EXCEPT !.sock = f], s)
  BY <1>1, <1>3 DEF SocketMoved, SameView, Tabs
<1> QED BY <1>1, <1>2, <1>3, <1>4

LEMMA SocketMoves ==
    ASSUME NEW t, NEW u, NEW s \in Sockets, Core(t), SocketMoved(t, u, s), SocketSound(u.sock[s]),
           t.sock[s].state = "cut" => u.sock[s].state = "cut",
           u.sock[s].state = "cut" \/ Confirmed(t.sock[s]) \subseteq Confirmed(u.sock[s])
    PROVE  Core(u) /\ Keeps(t, u)
<1>1. Entries(u) = Entries(t) /\ Keeps(t, u)
  BY DEF SocketMoved, Entries, Keeps, Watching
<1>2. AllSound(u)
  BY DEF Core, AllSound, SocketMoved
<1>3. \A m : HeardOn(t, m) => HeardOn(u, m)
  BY DEF HeardOn, SocketMoved
<1>4. AllHeard(u)
  BY <1>3 DEF Core, AllHeard, SocketMoved
<1>5. Owned(u) /\ Promised(u)
  BY <1>1 DEF Core, Owned, Promised, SocketMoved
<1> QED BY <1>1, <1>2, <1>4, <1>5 DEF Core, SocketMoved

\* The answer of the server is a frame of the channel, whichever it is.
LEMMA ServerSubscribeGood ==
    ASSUME NEW t, NEW X, NEW a \in AuthType, IsOpen(t, t.ws), Good(t, X \ {a.channel}),
           NEW reply \in {"rejected", "error"}
    PROVE  LET u == ServerSubscribe(t, t.ws, a, reply) IN Good(u, X) /\ Keeps(t, u)
<1> DEFINE s == t.ws
           c == a.channel
           u == ServerSubscribe(t, s, a, reply)
<1>1. /\ t \in Tabs /\ s \in Sockets /\ t.sock[s] \in SocketType /\ SocketSound(t.sock[s]) /\ c \in Models
      /\ t.sock[s].state \in {"open", "cut"}
  BY DEF Good, Almost, Core, AllSound, IsOpen, Tabs, AuthType
<1>2. CASE t.sock[s].state = "cut"
  <2>1. u = t
    BY <1>2 DEF ServerSubscribe
  <2>2. ~Linked(t)
    BY <1>2 DEF Linked
  <2> QED BY <2>1, <2>2, KeepsSelf DEF Good, Almost, Moving
<1>3. CASE t.sock[s].state = "open"
  <2>1. PICK k \in SocketType, g \in MessageType :
            /\ u = [t EXCEPT !.sock[s] = k]
            /\ k.state = "open" /\ Frames(k) = Frames(t.sock[s]) \cup {g} /\ g.channel = c
            /\ SocketSound(k) /\ Confirmed(t.sock[s]) \subseteq Confirmed(k)
    <3> DEFINE j == t.sock[s]
    <3>1. CASE a.sid = s
      <4> DEFINE g == Message("succeeded", c)
                 q == Append(j.inbox, g)
                 k == [j EXCEPT !.subs = @ \cup {c}, !.crossed = @ \ {c}, !.inbox = q]
      <4>1. g \in MessageType /\ g.channel = c
        BY <1>1 DEF Message, MessageType
      <4>2. u = [t EXCEPT !.sock[s] = k]
        <5> DEFINE w == [t EXCEPT !.sock[s].subs = @ \cup {c}, !.sock[s].crossed = @ \ {c},
                                  !.sock[s].inbox = q]
        <5>1. u = w
          BY <1>3, <3>1 DEF ServerSubscribe
        <5> DEFINE e == [[[j EXCEPT !.subs = j.subs \cup {c}] EXCEPT !.crossed = j.crossed \ {c}] EXCEPT !.inbox = q]
        <5> HIDE DEF q
        <5>2. w = [t EXCEPT !.sock[s] = e]
          BY <1>1, ZenonT(60) DEF Tabs
        <5>3. e = k
          BY <1>1 DEF SocketType
        <5> HIDE DEF w, e, k
        <5> QED BY <5>1, <5>2, <5>3
      <4> HIDE DEF g
      <4>3. q \in Seq(MessageType) /\ \A i \in SocketType : i.inbox = q => Frames(i) = Frames(j) \cup {g}
        BY <1>1, <4>1, AppendFrames
      <4> HIDE DEF q
      <4>4. /\ k \in SocketType /\ k.state = j.state /\ k.inbox = q
            /\ k.subs = j.subs \cup {c} /\ k.crossed = j.crossed \ {c}
        BY <1>1, <4>3 DEF SocketType
      <4> HIDE DEF k, j
      <4>5. Frames(k) = Frames(j) \cup {g} /\ Confirmed(k) = Confirmed(j) \cup {c}
        BY <4>3, <4>4 DEF Confirmed
      <4>6. \A d \in Models : Message("succeeded", d) = g => d = c
        BY <4>1 DEF Message
      <4>7. SocketSound(k)
        BY <1>1, <1>3, <4>4, <4>5, <4>6 DEF SocketSound, j
      <4> QED BY <1>3, <4>1, <4>2, <4>4, <4>5, <4>7 DEF j
    <3>2. CASE a.sid # s
      <4> DEFINE g == Message(reply, c)
                 q == Append(j.inbox, g)
                 k == [j EXCEPT !.inbox = q]
      <4>1. g \in MessageType /\ g.channel = c /\ g.kind # "succeeded"
        BY <1>1 DEF Message, MessageType
      <4>2. u = [t EXCEPT !.sock[s] = k]
        BY <1>1, <1>3, <3>2 DEF ServerSubscribe, Tabs
      <4> HIDE DEF g
      <4>3. q \in Seq(MessageType) /\ \A i \in SocketType : i.inbox = q => Frames(i) = Frames(j) \cup {g}
        BY <1>1, <4>1, AppendFrames
      <4> HIDE DEF q
      <4>4. /\ k \in SocketType /\ k.state = j.state /\ k.inbox = q
            /\ k.subs = j.subs /\ k.crossed = j.crossed
        BY <1>1, <4>3 DEF SocketType
      <4> HIDE DEF k, j
      <4>5. Frames(k) = Frames(j) \cup {g} /\ Confirmed(k) = Confirmed(j)
        BY <4>3, <4>4 DEF Confirmed
      <4>6. \A d \in Models : Message("succeeded", d) # g
        BY <4>1 DEF Message
      <4>7. SocketSound(k)
        BY <1>1, <1>3, <4>4, <4>5, <4>6 DEF SocketSound, j
      <4> QED BY <1>3, <4>1, <4>2, <4>4, <4>5, <4>7 DEF j
    <3> QED BY <3>1, <3>2
  <2>2. SocketMoved(t, u, s) /\ u.sock[s] = k
    BY <1>1, <2>1, SetSocket
  <2> HIDE DEF u
  <2>3. Core(u) /\ Keeps(t, u)
    <3>1. Core(t)
      BY DEF Good, Almost
    <3> QED BY <1>1, <1>3, <2>1, <2>2, <3>1, SocketMoves
  <2>4. Linked(u) /\ Linked(t) /\ u.ws = s /\ Frames(u.sock[u.ws]) = Frames(t.sock[t.ws]) \cup {g}
    BY <1>1, <1>3, <2>1, <2>2 DEF Linked, SocketMoved
  <2>5. \A m : Answering(t, m) => Answering(u, m)
    BY <2>4 DEF Answering
  <2>6. Answering(u, c)
    BY <2>1, <2>4 DEF Answering
  <2>7. \A m \in Entries(u) \cap X : Moving(u, m)
    <3> TAKE m \in Entries(u) \cap X
    <3>1. CASE m = c
      BY <2>6, <3>1 DEF Moving
    <3>2. CASE m # c
      <4>1. Moving(t, m)
        BY <2>3, <3>2 DEF Good, Almost, Keeps
      <4> QED BY <2>2, <2>4, <2>5, <4>1 DEF Moving, SocketMoved
    <3> QED BY <3>1, <3>2
  <2>8. Joined(u)
    BY <1>1, <2>1, <2>2 DEF Joined, SocketMoved
  <2>9. Greeted(u)
    BY <2>2, <2>4 DEF Good, Almost, Greeted, SocketMoved
  <2>10. Retrying(u)
    BY <2>2, <2>3 DEF Good, Retrying, SocketMoved, Keeps
  <2> QED BY <2>3, <2>7, <2>8, <2>9, <2>10 DEF Good, Almost, u
<1> QED BY <1>1, <1>2, <1>3

LEMMA AuthorisedGood ==
    ASSUME NEW t, NEW X, Good(t, X), NEW a \in DOMAIN t.auths, NEW reply \in {"rejected", "error"}
    PROVE  Good(Authorised(t, a, reply), X) /\ Keeps(t, Authorised(t, a, reply))
<1> DEFINE v == Settle(t, a)
<1>1. a.channel \in Models /\ Good(v, X \ {a.channel}) /\ Keeps(t, v)
  BY SettleGood
<1>2. a \in AuthType
  <2>1. t.auths \in BagsOf(AuthType)
    BY DEF Good, Almost, Core, Tabs
  <2> QED BY <2>1, BagFacts
<1>3. v.ws = t.ws /\ v.sock = t.sock
  <2> DEFINE w == [t EXCEPT !.auths = @ (-) SetToBag({a})]
  <2>1. t \in Tabs
    BY DEF Good, Almost, Core
  <2>2. w.ws = t.ws /\ w.sock = t.sock
    BY <2>1 DEF Tabs
  <2>3. v = IF a.own THEN [w EXCEPT !.entry[a.channel].auth = FALSE] ELSE w
    BY DEF Settle
  <2>4. [w EXCEPT !.entry[a.channel].auth = FALSE].ws = w.ws /\ [w EXCEPT !.entry[a.channel].auth = FALSE].sock = w.sock
    BY <2>1 DEF Tabs
  <2> QED BY <2>2, <2>3, <2>4
<1> HIDE DEF v
<1>4. CASE IsOpen(t, t.ws)
  <2>1. Authorised(t, a, reply) = ServerSubscribe(v, v.ws, a, reply) /\ IsOpen(v, v.ws)
    BY <1>3, <1>4 DEF Authorised, IsOpen, v
  <2>2. LET u == ServerSubscribe(v, v.ws, a, reply) IN Good(u, X) /\ Keeps(v, u)
    BY <1>1, <1>2, <2>1, ServerSubscribeGood
  <2> QED BY <1>1, <2>1, <2>2 DEF Keeps, SameView
<1>5. CASE ~IsOpen(t, t.ws)
  <2>1. Authorised(t, a, reply) = ScheduleResubscribe(v, a.channel)
    BY <1>5 DEF Authorised, v
  <2>2. Good(ScheduleResubscribe(v, a.channel), X) /\ Keeps(v, ScheduleResubscribe(v, a.channel))
    BY <1>1, ScheduleResubscribeGood
  <2> QED BY <1>1, <2>1, <2>2 DEF Keeps, SameView
<1> QED BY <1>4, <1>5

LEMMA EnsurePollingGood ==
    ASSUME NEW t, NEW X, NEW m \in Models, Good(t, X)
    PROVE  LET u == EnsurePolling(t, m)
           IN  Good(u, X) /\ Keeps(t, u) /\ Watching(t) \cup {m} \subseteq Watching(u) /\ u.entry = t.entry
<1> DEFINE u == EnsurePolling(t, m)
<1>1. /\ u \in Tabs /\ SameNet(t, u) /\ u.entry = t.entry /\ SameView(t, u)
      /\ u.poll = t.poll \cup {m}
  BY DEF Good, Almost, Core, EnsurePolling, Tabs, SameNet, SameView
<1> HIDE DEF u
<1>2. Good(u, X) /\ Keeps(t, u)
  BY <1>1, PollGrows
<1>3. Watching(t) \cup {m} \subseteq Watching(u)
  BY <1>1, <1>2 DEF Watching, Keeps
<1> QED BY <1>1, <1>2, <1>3 DEF u

\* An entry in error is polled; the callback of an old entry only starts the polling.
LEMMA OnErrorGood ==
    ASSUME NEW t, NEW X, NEW c \in Models, NEW own \in BOOLEAN, own => c \in Entries(t),
           Good(t, X \ {c})
    PROVE  LET u == OnError(t, c, own)
           IN  /\ Good(u, X \ {c}) /\ Keeps(t, u)
               /\ own => Good(u, X)
<1>1. CASE own
  <2> DEFINE v == [t EXCEPT !.entry[c].status = "error"]
             u == EnsurePolling(v, c)
  <2>1. t \in Tabs
    BY DEF Good, Almost, Core
  <2>2. EntryMoved(t, v, c) /\ v.entry[c] = [t.entry[c] EXCEPT !.status = "error"]
    BY <2>1, SetStatus
  <2>3. OnError(t, c, own) = u
    BY <1>1 DEF OnError
  <2> HIDE DEF v
  <2>4. v.entry[c].status = "error" /\ v.entry[c].auth = t.entry[c].auth
    BY <2>1, <2>2 DEF Tabs, EntryType
  <2>5. t.entry[c].status # "none"
    BY <1>1 DEF Entries
  <2>6. Keeps(t, v) /\ Good(v, X \ {c})
    BY <2>2, <2>4, <2>5, EntryMoves
  <2>7. Good(u, X \ {c}) /\ Keeps(v, u) /\ u.entry = v.entry
    BY <2>6, EnsurePollingGood
  <2>8. c \in u.poll
    BY <2>2 DEF EnsurePolling, EntryMoved, Tabs
  <2> HIDE DEF u
  <2>9. Moving(u, c)
    BY <2>4, <2>7, <2>8 DEF Moving
  <2>10. Good(u, X)
    BY <2>7, <2>9 DEF Good, Almost
  <2> QED BY <2>3, <2>6, <2>7, <2>10 DEF Keeps, SameView
<1>2. CASE ~own
  <2>1. OnError(t, c, own) = EnsurePolling(t, c)
    BY <1>2 DEF OnError
  <2> QED BY <1>2, <2>1, EnsurePollingGood
<1> QED BY <1>1, <1>2

LEMMA UnauthorisedGood ==
    ASSUME NEW t, NEW X, Good(t, X), NEW a \in DOMAIN t.auths
    PROVE  Good(Unauthorised(t, a), X) /\ Keeps(t, Unauthorised(t, a))
<1> DEFINE c == a.channel
           v == Settle(t, a)
           w == OnError(v, c, a.own)
           u == ScheduleResubscribe(w, c)
<1>1. c \in Models /\ (a.own => c \in Entries(t)) /\ Good(v, X \ {c}) /\ Keeps(t, v)
  BY SettleGood
<1>2. a.own \in BOOLEAN
  <2>1. t.auths \in BagsOf(AuthType)
    BY DEF Good, Almost, Core, Tabs
  <2>2. a \in AuthType
    BY <2>1, BagFacts
  <2> QED BY <2>2 DEF AuthType
<1>3. Unauthorised(t, a) = u
  BY DEF Unauthorised
<1> HIDE DEF v
<1>4. Good(w, X \ {c}) /\ Keeps(v, w)
  <2>1. a.own => c \in Entries(v)
    BY <1>1 DEF Keeps
  <2> QED BY <1>1, <1>2, <2>1, OnErrorGood
<1> HIDE DEF w
<1>5. Good(u, X) /\ Keeps(w, u)
  BY <1>1, <1>4, ScheduleResubscribeGood
<1> QED BY <1>1, <1>3, <1>4, <1>5 DEF Keeps, SameView

\* Leaving a channel takes nothing from the other channels, and the connection
\* only with the last one.
LEMMA UnsubscribeGood ==
    ASSUME NEW t, NEW X, NEW c \in Models, Good(t, X)
    PROVE  LET u == Unsubscribe(t, c)
           IN  /\ Good(u, X) /\ SameView(t, u) /\ Entries(u) = Entries(t) \ {c}
               /\ Watching(t) \ {c} \subseteq Watching(u)
<1>1. CASE c \notin Entries(t)
  BY <1>1 DEF Unsubscribe, SameView
<1>2. CASE c \in Entries(t)
  <2> DEFINE A == {a \in BagToSet(t.auths) : a.channel = c /\ a.own}
             g == [a \in A |-> [a EXCEPT !.own = FALSE]]
             auths == Renamed(t.auths, A, g)
             e == [t.entry EXCEPT ![c] = NoEntry]
             left == [t EXCEPT !.entry = e, !.auths = auths]
             k == Left(left.sock[left.ws], c)
             told == IF IsOpen(left, left.ws) THEN [left EXCEPT !.sock[left.ws] = k] ELSE left
  <2>1. t \in Tabs /\ t.auths \in BagsOf(AuthType) /\ DOMAIN t.auths \subseteq AuthType
    BY BagFacts DEF Good, Almost, Core, Tabs
  <2>2. Unsubscribe(t, c) = IF Entries(left) = {} THEN Disconnect(told) ELSE told
    BY <1>2, <2>1 DEF Unsubscribe, Tabs
  <2>3. A \in SUBSET DOMAIN t.auths /\ g \in [A -> AuthType]
        /\ \A a \in A : g[a].channel = a.channel /\ g[a].own = FALSE /\ a.channel = c
    BY <2>1 DEF AuthType, BagToSet
  <2>4. auths \in BagsOf(AuthType)
    <3> HIDE DEF A, g
    <3> QED BY <2>1, <2>3, BagRenamed
  <2>5. /\ \A a \in DOMAIN auths : a.own => a \in DOMAIN t.auths /\ a.channel # c
        /\ \A a \in DOMAIN t.auths : a.channel # c => a \in DOMAIN auths
    <3>1. \A a \in DOMAIN t.auths : a \in A <=> a.channel = c /\ a.own
      BY DEF BagToSet
    <3> HIDE DEF A, g
    <3> QED BY <2>3, <3>1, RenamedElements
  <2>6. NoEntry \in EntryType /\ NoEntry.status = "none" /\ NoEntry.auth = FALSE
    BY DEF NoEntry, EntryType
  <2>7. e \in [Models -> EntryType] /\ e[c] = NoEntry /\ \A m \in Models \ {c} : e[m] = t.entry[m]
    BY <2>1, <2>6 DEF Tabs
  <2> HIDE DEF A, g, auths, e
  <2>8. /\ left \in Tabs /\ left.ws = t.ws /\ left.sid = t.sid /\ left.timer = t.timer
        /\ left.sock = t.sock /\ left.entry = e /\ left.auths = auths /\ left.poll = t.poll
        /\ SameView(t, left)
    BY <2>1, <2>4, <2>7 DEF Tabs, SameView
  <2> HIDE DEF left
  <2>9. Entries(left) = Entries(t) \ {c}
    BY <2>6, <2>7, <2>8 DEF Entries
  <2>10. Core(left)
    <3>1. AllSound(left) /\ AllHeard(left)
      BY <2>6, <2>7, <2>8 DEF Good, Almost, Core, AllSound, AllHeard, HeardOn
    <3>2. Owned(left)
      BY <2>5, <2>8, <2>9 DEF Good, Almost, Core, Owned
    <3>3. Promised(left)
      <4> SUFFICES ASSUME NEW m \in Models, left.entry[m].auth
                   PROVE  \E a \in DOMAIN left.auths : a.own /\ a.channel = m
        BY DEF Promised
      <4>1. m # c /\ t.entry[m].auth
        BY <2>6, <2>7, <2>8
      <4>2. PICK a \in DOMAIN t.auths : a.own /\ a.channel = m
        BY <4>1 DEF Good, Almost, Core, Promised
      <4> QED BY <2>5, <2>8, <4>1, <4>2
    <3> QED BY <2>8, <3>1, <3>2, <3>3 DEF Core
  <2>11. /\ Core(told) /\ told.ws = t.ws /\ told.sid = t.sid /\ told.timer = t.timer
         /\ told.entry = e /\ told.auths = auths /\ told.poll = t.poll /\ SameView(t, told)
         /\ t.ws \in Sockets =>
                /\ told.sock[t.ws].state = t.sock[t.ws].state
                /\ Frames(told.sock[t.ws]) = Frames(t.sock[t.ws])
    <3>1. CASE ~IsOpen(left, left.ws)
      BY <2>8, <2>10, <3>1
    <3>2. CASE IsOpen(left, left.ws)
      <4> DEFINE j == t.sock[t.ws]
      <4>1. t.ws \in Sockets /\ j \in SocketType /\ SocketSound(j)
        BY <2>1, <2>8, <3>2 DEF IsOpen, Good, Almost, Core, AllSound, Tabs
      <4>2. k = [j EXCEPT !.subs = j.subs \ {c},
                          !.crossed = IF \E i \in DOMAIN j.inbox : j.inbox[i] = Message("succeeded", c)
                                      THEN j.crossed \cup {c} ELSE j.crossed]
        BY <2>8, <4>1 DEF Left, SocketType
      <4> HIDE DEF k, j
      <4>3. /\ k \in SocketType /\ k.state = j.state /\ k.inbox = j.inbox /\ k.subs = j.subs \ {c}
            /\ k.crossed = IF \E i \in DOMAIN j.inbox : j.inbox[i] = Message("succeeded", c)
                           THEN j.crossed \cup {c} ELSE j.crossed
        BY <4>1, <4>2 DEF SocketType
      <4>4. /\ Frames(k) = Frames(j)
            /\ Message("succeeded", c) \in Frames(j) => c \in k.crossed
            /\ Confirmed(j) \ {c} \subseteq Confirmed(k)
        BY <4>3 DEF Frames, Confirmed
      <4>5. SocketSound(k)
        <5>1. k.state # "open" => k.subs = {} /\ k.crossed = {} /\ k.inbox = <<>>
          <6> SUFFICES ASSUME j.state # "open" PROVE k.subs = {} /\ k.crossed = {} /\ k.inbox = <<>>
            BY <4>3
          <6>1. j.subs = {} /\ j.crossed = {} /\ j.inbox = <<>>
            BY <4>1 DEF SocketSound
          <6>2. DOMAIN j.inbox = {}
            BY <6>1
          <6> QED BY <4>3, <6>1, <6>2
        <5>2. \A d \in Models : Message("succeeded", d) \in Frames(k) => d \in Confirmed(k)
          BY <4>1, <4>4 DEF SocketSound, Confirmed
        <5> QED BY <5>1, <5>2 DEF SocketSound
      <4>6. told = [left EXCEPT !.sock[left.ws] = k]
        BY <3>2
      <4> HIDE DEF told
      <4>7. SocketMoved(left, told, t.ws) /\ told.sock[t.ws] = k
        <5>1. told = [left EXCEPT !.sock[t.ws] = k] /\ left \in Tabs
          BY <2>8, <4>6
        <5> QED BY <4>1, <4>3, <5>1, SetSocket
      <4>8. AllSound(told)
        BY <2>8, <2>10, <4>5, <4>7 DEF Core, AllSound, SocketMoved
      <4>9. AllHeard(told)
        <5> SUFFICES ASSUME NEW m \in Models, told.entry[m].status = "subscribed" PROVE HeardOn(told, m)
          BY DEF AllHeard
        <5>1. m # c /\ HeardOn(left, m)
          BY <2>6, <2>7, <2>8, <2>10, <4>7 DEF Core, AllHeard, SocketMoved
        <5>2. PICK s \in Sockets : left.sock[s].state = "cut" \/ m \in Confirmed(left.sock[s])
          BY <5>1 DEF HeardOn
        <5>3. told.sock[s].state = "cut" \/ m \in Confirmed(told.sock[s])
          <6>1. CASE s = t.ws
            BY <2>8, <4>3, <4>4, <4>7, <5>1, <5>2, <6>1 DEF j
          <6>2. CASE s # t.ws
            BY <4>7, <5>2, <6>2 DEF SocketMoved
          <6> QED BY <6>1, <6>2
        <5> QED BY <5>3 DEF HeardOn
      <4>10. Owned(told) /\ Promised(told)
        BY <2>10, <4>7 DEF Core, Owned, Promised, SocketMoved, Entries
      <4>11. Core(told)
        BY <4>7, <4>8, <4>9, <4>10 DEF Core, SocketMoved
      <4> QED BY <2>8, <4>3, <4>4, <4>7, <4>11 DEF SocketMoved, SameView, j
    <3> QED BY <3>1, <3>2
  <2> HIDE DEF told
  <2>12. Entries(told) = Entries(t) \ {c} /\ Watching(t) \ {c} \subseteq Watching(told)
    BY <2>6, <2>7, <2>11 DEF Entries, Watching
  <2>13. Entries(left) = Entries(told)
    BY <2>9, <2>12
  <2>14. CASE Entries(told) = {}
    <3>1. Good(Disconnect(told), X) /\ Keeps(told, Disconnect(told))
      BY <2>11, <2>14, DisconnectGood
    <3> QED BY <2>2, <2>11, <2>12, <2>13, <2>14, <3>1 DEF Keeps, SameView
  <2>15. CASE Entries(told) # {}
    <3>1. Linked(told) = Linked(t) /\ \A m : Linked(t) => Answering(told, m) = Answering(t, m)
      BY <2>11 DEF Linked, Answering
    <3>2. \A m \in Entries(told) \cap X : Moving(told, m)
      <4> TAKE m \in Entries(told) \cap X
      <4>1. m \in Models \ {c} /\ Moving(t, m) /\ told.entry[m] = t.entry[m]
        BY <2>7, <2>11, <2>12 DEF Good, Almost, Entries
      <4>2. \A a \in DOMAIN t.auths : a.channel = m => a \in DOMAIN told.auths
        BY <2>5, <2>11, <4>1
      <4> QED BY <2>11, <3>1, <4>1, <4>2 DEF Moving
    <3>3. Joined(told)
      BY <2>11 DEF Good, Almost, Joined
    <3>4. Greeted(told)
      BY <2>11, <3>1 DEF Good, Almost, Greeted, Linked
    <3>5. Retrying(told)
      BY <2>11, <2>12 DEF Good, Retrying
    <3>6. Good(told, X)
      BY <2>11, <3>2, <3>3, <3>4, <3>5 DEF Good, Almost
    <3> QED BY <2>2, <2>11, <2>12, <2>13, <2>15, <3>6
  <2> QED BY <2>14, <2>15
<1> QED BY <1>1, <1>2

-----------------------------------------------------------------------------
(* Messages *)

\* A model that is not polled any more is subscribed or has no channel.
LEMMA StopPollingGood ==
    ASSUME NEW t, NEW X, NEW m \in Models, Good(t, X),
           m \in Entries(t) => t.entry[m].status = "subscribed"
    PROVE  LET u == StopPolling(t, m)
           IN  /\ Good(u, X) /\ SameView(t, u) /\ Entries(u) = Entries(t)
               /\ Watching(t) \ {m} \subseteq Watching(u)
               /\ m \in Entries(t) => Keeps(t, u)
<1> DEFINE u == StopPolling(t, m)
<1>1. /\ u \in Tabs /\ SameNet(t, u) /\ u.entry = t.entry /\ SameView(t, u)
      /\ u.poll = t.poll \ {m}
  BY DEF Good, Almost, Core, StopPolling, Tabs, SameNet, SameView
<1> HIDE DEF u
<1>2. /\ Entries(u) = Entries(t) /\ Watching(t) \ {m} \subseteq Watching(u)
      /\ m \in Entries(t) => Keeps(t, u)
  BY <1>1 DEF Entries, Watching, Keeps
<1>3. Core(u)
  BY <1>1, <1>2 DEF Good, Almost, Core, AllSound, AllHeard, HeardOn, Owned, Promised, SameNet
<1>4. Linked(u) = Linked(t) /\ \A n : Answering(u, n) = Answering(t, n)
  BY <1>1 DEF Linked, Answering, SameNet
<1>5. \A n \in Entries(u) \cap X : Moving(u, n)
  <2> TAKE n \in Entries(u) \cap X
  <2>1. Moving(t, n)
    BY <1>2 DEF Good, Almost
  <2>2. n = m => u.entry[n].status = "subscribed"
    BY <1>1, <1>2
  <2> QED BY <1>1, <1>4, <2>1, <2>2 DEF Moving, SameNet
<1>6. Joined(u) /\ Greeted(u) /\ Retrying(u)
  BY <1>1, <1>2, <1>4 DEF Good, Almost, Joined, Greeted, Retrying, SameNet
<1> QED BY <1>1, <1>2, <1>3, <1>5, <1>6 DEF Good, Almost, u

LEMMA SucceededGood ==
    ASSUME NEW t, NEW X, NEW c, Good(t, X \ {c}), c \in Models => HeardOn(t, c)
    PROVE  Good(Succeeded(t, c), X) /\ Keeps(t, Succeeded(t, c))
<1>1. CASE c \notin Entries(t)
  BY <1>1, KeepsSelf DEF Succeeded, Good, Almost
<1>2. CASE c \in Entries(t)
  <2> DEFINE v == [t EXCEPT !.entry[c].status = "subscribed", !.entry[c].auth = FALSE]
             u == StopPolling(v, c)
  <2>1. t \in Tabs /\ c \in Models /\ t.entry[c].status # "none"
    BY <1>2 DEF Good, Almost, Core, Entries
  <2>2. EntryMoved(t, v, c) /\ v.entry[c].status = "subscribed" /\ v.entry[c].auth = FALSE
    BY <2>1, SetStatusAndAuth
  <2>3. Succeeded(t, c) = u
    BY <1>2 DEF Succeeded, OnSubscribed
  <2> HIDE DEF v
  <2>4. Moving(v, c)
    BY <2>2 DEF Moving
  <2>5. Keeps(t, v) /\ Good(v, X)
    BY <2>1, <2>2, <2>4, EntryMoves
  <2>6. Good(u, X) /\ Keeps(v, u)
    <3>1. c \in Entries(v)
      BY <1>2, <2>5 DEF Keeps
    <3> QED BY <2>1, <2>2, <2>5, <3>1, StopPollingGood
  <2> QED BY <2>3, <2>5, <2>6 DEF Keeps, SameView
<1> QED BY <1>1, <1>2

LEMMA RejectedGood ==
    ASSUME NEW t, NEW X, NEW c, Good(t, X \ {c})
    PROVE  Good(Rejected(t, c), X) /\ Keeps(t, Rejected(t, c))
<1>1. CASE c \notin Entries(t)
  BY <1>1, KeepsSelf DEF Rejected, Good, Almost
<1>2. CASE c \in Entries(t)
  <2> DEFINE v == [t EXCEPT !.entry[c].status = "pending", !.entry[c].auth = FALSE]
             w == OnError(v, c, TRUE)
             u == ScheduleResubscribe(w, c)
  <2>1. t \in Tabs /\ c \in Models /\ t.entry[c].status # "none"
    BY <1>2 DEF Good, Almost, Core, Entries
  <2>2. EntryMoved(t, v, c) /\ v.entry[c].status = "pending" /\ v.entry[c].auth = FALSE
    BY <2>1, SetStatusAndAuth
  <2>3. Rejected(t, c) = u
    BY <1>2 DEF Rejected
  <2> HIDE DEF v
  <2>4. Keeps(t, v) /\ Good(v, X \ {c})
    BY <2>1, <2>2, EntryMoves
  <2>5. Good(w, X \ {c}) /\ Keeps(v, w)
    <3>1. c \in Entries(v)
      BY <1>2, <2>4 DEF Keeps
    <3> QED BY <2>1, <2>4, <3>1, OnErrorGood
  <2> HIDE DEF w
  <2>6. Good(u, X) /\ Keeps(w, u)
    BY <2>1, <2>5, ScheduleResubscribeGood
  <2> QED BY <2>3, <2>4, <2>5, <2>6 DEF Keeps, SameView
<1> QED BY <1>1, <1>2

LEMMA EntriesFinite == ASSUME NEW t PROVE IsFiniteSet(Entries(t)) /\ Entries(t) \subseteq Models
<1>1. Entries(t) \subseteq Models
  BY DEF Entries
<1> QED BY <1>1, ModelsAssumption, FS_Subset

\* After an error every entry is in error and polled.
LEMMA NotifyAllErrorGood ==
    ASSUME NEW t, Good(t, {})
    PROVE  Good(NotifyAllError(t), Models) /\ Keeps(t, NotifyAllError(t))
<1> DEFINE S == Entries(t)
           R(it) == it = [s \in SUBSET S |-> IF s = {} THEN t ELSE OnError(it[s \ {Pick(s)}], Pick(s), TRUE)]
           F == CHOOSE it : R(it)
           T == {u \in Tabs : Good(u, {}) /\ Entries(u) = S}
           g == [p \in S \X T |-> OnError(p[2], p[1], TRUE)]
<1>1. FoldSet(LAMBDA c, u : OnError(u, c, TRUE), t, S) = F[S]
  BY DEF FoldSet, MapThenFoldSet, Pick
<1>2. IsFiniteSet(S) /\ S \subseteq Models
  BY EntriesFinite
<1>3. t \in T
  BY DEF Good, Almost, Core
<1>4. ASSUME NEW c \in S, NEW u \in T, NEW X, Good(u, X)
      PROVE  /\ OnError(u, c, TRUE) \in T /\ Keeps(u, OnError(u, c, TRUE))
             /\ Good(OnError(u, c, TRUE), X \cup {c})
  <2> DEFINE v == OnError(u, c, TRUE)
             Y == X \cup {c}
  <2>1. Good(u, Y \ {c}) /\ c \in Entries(u) /\ c \in Models
    BY <1>2, <1>4 DEF Good, Almost
  <2>2. Good(v, Y) /\ Keeps(u, v)
    <3> HIDE DEF v, Y
    <3>1. LET w == OnError(u, c, TRUE) IN Good(w, Y \ {c}) /\ Keeps(u, w) /\ (TRUE => Good(w, Y))
      BY <2>1, OnErrorGood
    <3> QED BY <3>1 DEF v
  <2> HIDE DEF v
  <2>3. v \in T
    BY <1>4, <2>2 DEF Good, Almost, Core, Keeps
  <2> QED BY <2>2, <2>3 DEF v
<1> HIDE DEF T, S
<1>5. g \in [S \X T -> T]
  <2>1. \A c \in S, u \in T : OnError(u, c, TRUE) \in T
    <3>1. \A u \in T : Good(u, {})
      BY DEF T
    <3> QED BY <3>1, <1>4
  <2> QED BY <2>1
<1>6. R(F)
  <2>1. PICK it \in [SUBSET S -> T] : Folds(it, S, t, g)
    <3> HIDE DEF g, F, R
    <3> QED BY ONLY <1>2, <1>3, <1>5, FoldExists
  <2>2. \A s \in SUBSET S : s # {} => Pick(s) \in S /\ it[s \ {Pick(s)}] \in T
    BY PickIn
  <2>3. \A s \in SUBSET S : s # {} => g[<<Pick(s), it[s \ {Pick(s)}]>>] = OnError(it[s \ {Pick(s)}], Pick(s), TRUE)
    BY <2>2
  <2> HIDE DEF g
  <2>4. R(it)
    BY <2>1, <2>3 DEF Folds
  <2> HIDE DEF R
  <2> QED BY <2>4
<1> DEFINE B == {s \in SUBSET S : F[s] \in T /\ Keeps(t, F[s]) /\ Good(F[s], s)}
<1> HIDE DEF F
<1>7. {} \in B
  <2>1. F[{}] = t
    BY <1>6
  <2> QED BY <2>1, <1>3, KeepsSelf DEF T
<1>8. \A s \in SUBSET S : s # {} /\ s \ {Pick(s)} \in B => s \in B
  <2> TAKE s \in SUBSET S
  <2> HAVE s # {} /\ s \ {Pick(s)} \in B
  <2> DEFINE u == F[s \ {Pick(s)}]
             v == OnError(u, Pick(s), TRUE)
  <2>1. F[s] = v /\ Pick(s) \in S /\ Pick(s) \in s
    BY <1>6, PickIn
  <2>2. u \in T /\ Keeps(t, u) /\ Good(u, s \ {Pick(s)})
    OBVIOUS
  <2>3. v \in T /\ Keeps(u, v) /\ Good(v, (s \ {Pick(s)}) \cup {Pick(s)})
    <3> HIDE DEF u
    <3> QED BY <1>4, <2>1, <2>2
  <2>4. (s \ {Pick(s)}) \cup {Pick(s)} = s
    BY <2>1
  <2> QED BY <2>1, <2>2, <2>3, <2>4 DEF Keeps, SameView
<1>9. S \in B
  <2> HIDE DEF B
  <2> QED BY <1>2, <1>7, <1>8, SubsetInduction
<1> DEFINE w == F[S]
<1>10. Keeps(t, w) /\ Good(w, Models)
  <2>1. Keeps(t, w) /\ Good(w, S)
    BY <1>9
  <2> QED BY <2>1 DEF Good, Almost, Keeps, S
<1>11. NotifyAllError(t) = Emit(w, "error")
  BY <1>1 DEF NotifyAllError, S
<1> HIDE DEF w
<1>12. Good(Emit(w, "error"), Models) /\ Keeps(w, Emit(w, "error"))
  BY <1>10, EmitGood DEF Emitted
<1> QED BY <1>10, <1>11, <1>12 DEF Keeps, SameView

\* Once the connection stands, every entry asks anew.
LEMMA RestartGood ==
    ASSUME NEW t, NEW X, NEW c \in Entries(t), Good(t, X \ {c})
    PROVE  LET v == [t EXCEPT !.entry[c].status = "pending", !.entry[c].auth = FALSE]
               u == RequestSubscribe(v, c)
           IN  Good(u, X) /\ Keeps(t, u)
<1> DEFINE v == [t EXCEPT !.entry[c].status = "pending", !.entry[c].auth = FALSE]
           u == RequestSubscribe(v, c)
<1>1. t \in Tabs /\ c \in Models /\ t.entry[c].status # "none"
  BY DEF Good, Almost, Core, Entries
<1>2. EntryMoved(t, v, c) /\ v.entry[c].status = "pending" /\ v.entry[c].auth = FALSE
  BY <1>1, SetStatusAndAuth
<1> HIDE DEF v
<1>3. Keeps(t, v) /\ Good(v, X \ {c})
  BY <1>1, <1>2, EntryMoves
<1>4. Good(u, X) /\ Keeps(v, u)
  BY <1>1, <1>3, RequestSubscribeGood
<1> QED BY <1>3, <1>4 DEF Keeps, SameView, v

LEMMA RestartAllGood ==
    ASSUME NEW t, Good(t, {})
    PROVE  Good(RestartAll(t), Models) /\ Keeps(t, RestartAll(t))
<1> DEFINE op(c, u) == RequestSubscribe([u EXCEPT !.entry[c].status = "pending", !.entry[c].auth = FALSE], c)
           S == Entries(t)
           R(it) == it = [s \in SUBSET S |-> IF s = {} THEN t ELSE op(Pick(s), it[s \ {Pick(s)}])]
           F == CHOOSE it : R(it)
           T == {u \in Tabs : Good(u, {}) /\ Entries(u) = S}
           g == [p \in S \X T |-> op(p[1], p[2])]
<1>1. RestartAll(t) = F[S]
  BY DEF RestartAll, FoldSet, MapThenFoldSet, Pick
<1>2. IsFiniteSet(S) /\ S \subseteq Models
  BY EntriesFinite
<1>3. t \in T
  BY DEF Good, Almost, Core
<1>4. ASSUME NEW c \in S, NEW u \in T, NEW X, Good(u, X)
      PROVE  op(c, u) \in T /\ Keeps(u, op(c, u)) /\ Good(op(c, u), X \cup {c})
  <2> DEFINE v == op(c, u)
             Y == X \cup {c}
  <2>1. Good(u, Y \ {c}) /\ c \in Entries(u)
    BY <1>4 DEF Good, Almost
  <2>2. Good(v, Y) /\ Keeps(u, v)
    <3> HIDE DEF Y
    <3> QED BY <2>1, RestartGood
  <2> HIDE DEF v
  <2>3. v \in T
    BY <1>4, <2>2 DEF Good, Almost, Core, Keeps
  <2> QED BY <2>2, <2>3 DEF v
<1> HIDE DEF T, S
<1>5. g \in [S \X T -> T]
  <2>1. \A c \in S, u \in T : op(c, u) \in T
    <3> HIDE DEF op
    <3>1. \A u \in T : Good(u, {})
      BY DEF T
    <3> QED BY <3>1, <1>4
  <2> QED BY <2>1
<1> HIDE DEF op
<1>6. R(F)
  <2>1. PICK it \in [SUBSET S -> T] : Folds(it, S, t, g)
    <3> HIDE DEF g, F, R
    <3> QED BY ONLY <1>2, <1>3, <1>5, FoldExists
  <2>2. \A s \in SUBSET S : s # {} => Pick(s) \in S /\ it[s \ {Pick(s)}] \in T
    BY PickIn
  <2>3. \A s \in SUBSET S : s # {} => g[<<Pick(s), it[s \ {Pick(s)}]>>] = op(Pick(s), it[s \ {Pick(s)}])
    BY <2>2
  <2> HIDE DEF g
  <2>4. R(it)
    BY <2>1, <2>3 DEF Folds
  <2> HIDE DEF R
  <2> QED BY <2>4
<1> DEFINE B == {s \in SUBSET S : F[s] \in T /\ Keeps(t, F[s]) /\ Good(F[s], s)}
<1> HIDE DEF F
<1>7. {} \in B
  <2>1. F[{}] = t
    BY <1>6
  <2> QED BY <2>1, <1>3, KeepsSelf DEF T
<1>8. \A s \in SUBSET S : s # {} /\ s \ {Pick(s)} \in B => s \in B
  <2> TAKE s \in SUBSET S
  <2> HAVE s # {} /\ s \ {Pick(s)} \in B
  <2> DEFINE u == F[s \ {Pick(s)}]
             v == op(Pick(s), u)
  <2>1. F[s] = v /\ Pick(s) \in S /\ Pick(s) \in s
    BY <1>6, PickIn
  <2>2. u \in T /\ Keeps(t, u) /\ Good(u, s \ {Pick(s)})
    OBVIOUS
  <2>3. v \in T /\ Keeps(u, v) /\ Good(v, (s \ {Pick(s)}) \cup {Pick(s)})
    <3> HIDE DEF u
    <3> QED BY <1>4, <2>1, <2>2
  <2>4. (s \ {Pick(s)}) \cup {Pick(s)} = s
    BY <2>1
  <2> QED BY <2>1, <2>2, <2>3, <2>4 DEF Keeps, SameView
<1>9. S \in B
  <2> HIDE DEF B
  <2> QED BY <1>2, <1>7, <1>8, SubsetInduction
<1>10. Keeps(t, F[S]) /\ Good(F[S], S)
  BY <1>9
<1> QED BY <1>1, <1>10 DEF Good, Almost, Keeps, S

\* Leaving channels one after the other.
LEMMA UnsubscribeAllGood ==
    ASSUME NEW t, NEW A \in SUBSET Models, NEW X, Good(t, X)
    PROVE  LET u == UnsubscribeAll(t, A)
           IN  /\ Good(u, X) /\ SameView(t, u) /\ Entries(u) = Entries(t) \ A
               /\ Watching(t) \ A \subseteq Watching(u)
<1> DEFINE op(c, u) == Unsubscribe(u, c)
           R(it) == it = [s \in SUBSET A |-> IF s = {} THEN t ELSE op(Pick(s), it[s \ {Pick(s)}])]
           F == CHOOSE it : R(it)
           T == {u \in Tabs : Good(u, X)}
           g == [p \in A \X T |-> op(p[1], p[2])]
<1>1. UnsubscribeAll(t, A) = F[A]
  BY DEF UnsubscribeAll, FoldSet, MapThenFoldSet, Pick
<1>2. IsFiniteSet(A)
  BY ModelsAssumption, FS_Subset
<1>3. t \in T
  BY DEF Good, Almost, Core
<1>4. ASSUME NEW c \in A, NEW u \in T
      PROVE  /\ op(c, u) \in T /\ SameView(u, op(c, u)) /\ Entries(op(c, u)) = Entries(u) \ {c}
             /\ Watching(u) \ {c} \subseteq Watching(op(c, u))
  <2> DEFINE v == op(c, u)
  <2>1. /\ Good(v, X) /\ SameView(u, v) /\ Entries(v) = Entries(u) \ {c}
        /\ Watching(u) \ {c} \subseteq Watching(v)
    BY UnsubscribeGood
  <2> HIDE DEF v
  <2>2. v \in T
    BY <2>1 DEF Good, Almost, Core
  <2> QED BY <2>1, <2>2 DEF v
<1> HIDE DEF T, op
<1>5. g \in [A \X T -> T]
  BY <1>4
<1>6. R(F)
  <2>1. PICK it \in [SUBSET A -> T] : Folds(it, A, t, g)
    <3> HIDE DEF g, F, R
    <3> QED BY ONLY <1>2, <1>3, <1>5, FoldExists
  <2>2. \A s \in SUBSET A : s # {} => Pick(s) \in A /\ it[s \ {Pick(s)}] \in T
    BY PickIn
  <2>3. \A s \in SUBSET A : s # {} => g[<<Pick(s), it[s \ {Pick(s)}]>>] = op(Pick(s), it[s \ {Pick(s)}])
    BY <2>2
  <2> HIDE DEF g
  <2>4. R(it)
    BY <2>1, <2>3 DEF Folds
  <2> HIDE DEF R
  <2> QED BY <2>4
<1> DEFINE Done(u, s) == /\ SameView(t, u) /\ Entries(u) = Entries(t) \ s
                         /\ Watching(t) \ s \subseteq Watching(u)
           B == {s \in SUBSET A : F[s] \in T /\ Done(F[s], s)}
<1> HIDE DEF F
<1>7. {} \in B
  <2>1. F[{}] = t
    BY <1>6
  <2> QED BY <2>1, <1>3 DEF SameView
<1>8. \A s \in SUBSET A : s # {} /\ s \ {Pick(s)} \in B => s \in B
  <2> TAKE s \in SUBSET A
  <2> HAVE s # {} /\ s \ {Pick(s)} \in B
  <2> DEFINE u == F[s \ {Pick(s)}]
             v == op(Pick(s), u)
  <2>1. F[s] = v /\ Pick(s) \in A /\ Pick(s) \in s
    BY <1>6, PickIn
  <2>2. u \in T /\ Done(u, s \ {Pick(s)})
    OBVIOUS
  <2>3. /\ v \in T /\ SameView(u, v) /\ Entries(v) = Entries(u) \ {Pick(s)}
        /\ Watching(u) \ {Pick(s)} \subseteq Watching(v)
    <3> HIDE DEF u
    <3> QED BY <1>4, <2>1, <2>2
  <2> HIDE DEF u, v
  <2>4. Done(v, s)
    BY <2>1, <2>2, <2>3 DEF SameView
  <2> QED BY <2>1, <2>3, <2>4
<1>9. A \in B
  <2> HIDE DEF B
  <2> QED BY <1>2, <1>7, <1>8, SubsetInduction
<1> QED BY <1>1, <1>9 DEF T

-----------------------------------------------------------------------------
(* Tracking *)

\* What a handler that may take the channels of A leaves.
Grows(t, u, A) ==
    /\ SameView(t, u)
    /\ Entries(t) \subseteq Entries(u) /\ Entries(u) \subseteq Entries(t) \cup A
    /\ Watching(t) \subseteq Watching(u)

LEMMA RegisterGood ==
    ASSUME NEW t, NEW X, Good(t, X)
    PROVE  Good(Register(t), X) /\ Keeps(t, Register(t))
<1>1. CASE t.listening
  BY <1>1, KeepsSelf DEF Register
<1>2. CASE ~t.listening
  <2> DEFINE u == Register(t)
  <2>1. /\ u \in Tabs /\ SameNet(t, u) /\ u.entry = t.entry /\ SameView(t, u)
        /\ t.poll \subseteq u.poll
    BY <1>2 DEF Register, ConnectionChanged, HandleOffline, Busy, Good, Almost, Core, Tabs, SameNet, SameView
  <2> HIDE DEF u
  <2>2. Keeps(t, u) /\ Good(u, X)
    BY <2>1, PollGrows
  <2> QED BY <2>2 DEF u
<1> QED BY <1>1, <1>2

\* A tracked model is watched.
LEMMA EnsureTrackingGood ==
    ASSUME NEW t, NEW X, NEW m \in Models, Good(t, X)
    PROVE  LET u == EnsureTracking(t, m)
           IN  Good(u, X) /\ Grows(t, u, {m}) /\ Watching(t) \cup {m} \subseteq Watching(u)
<1> DEFINE v == Register(t)
           u == EnsureTracking(t, m)
<1>1. Good(v, X) /\ Keeps(t, v)
  BY RegisterGood
<1>2. \/ u = EnsurePolling(v, m)
      \/ u = Subscribe(v, m) /\ m \notin Entries(v)
      \/ u = v /\ m \in Entries(v)
  BY DEF EnsureTracking
<1> HIDE DEF u, v
<1>3. CASE u = EnsurePolling(v, m)
  <2>1. Good(u, X) /\ Keeps(v, u) /\ Watching(v) \cup {m} \subseteq Watching(u)
    BY <1>1, <1>3, EnsurePollingGood
  <2> QED BY <1>1, <2>1 DEF Keeps, Grows, SameView, u
<1>4. CASE u = Subscribe(v, m) /\ m \notin Entries(v)
  <2>1. /\ Good(u, X) /\ SameView(v, u) /\ Entries(u) = Entries(v) \cup {m}
        /\ Watching(v) \cup {m} \subseteq Watching(u)
    <3>1. m \in Models \ Entries(v)
      BY <1>4
    <3> QED BY <1>1, <1>4, <3>1, SubscribeGood
  <2> QED BY <1>1, <2>1 DEF Keeps, Grows, SameView, u
<1>5. CASE u = v /\ m \in Entries(v)
  BY <1>1, <1>5 DEF Keeps, Grows, SameView, Watching, u
<1> QED BY <1>2, <1>3, <1>4, <1>5

LEMMA StopTrackingGood ==
    ASSUME NEW t, NEW X, NEW m \in Models, Good(t, X)
    PROVE  LET u == StopTracking(t, m)
           IN  /\ Good(u, X) /\ SameView(t, u) /\ Entries(u) = Entries(t) \ {m}
               /\ Watching(t) \ {m} \subseteq Watching(u)
<1> DEFINE v == Unsubscribe(t, m)
           u == StopPolling(v, m)
<1>1. /\ Good(v, X) /\ SameView(t, v) /\ Entries(v) = Entries(t) \ {m}
      /\ Watching(t) \ {m} \subseteq Watching(v)
  BY UnsubscribeGood
<1> HIDE DEF v
<1>2. Good(u, X) /\ SameView(v, u) /\ Entries(u) = Entries(v) /\ Watching(v) \ {m} \subseteq Watching(u)
  <2>1. m \in Entries(v) => v.entry[m].status = "subscribed"
    BY <1>1
  <2> QED BY <1>1, <2>1, StopPollingGood
<1> HIDE DEF u
<1>3. /\ Good(u, X) /\ SameView(t, u) /\ Entries(u) = Entries(t) \ {m}
      /\ Watching(t) \ {m} \subseteq Watching(u)
  BY <1>1, <1>2 DEF SameView
<1> QED BY <1>3 DEF StopTracking, u, v

\* One step of handleOnline's loop.
Resume(m, t) ==
    LET v == EnsureTracking(t, m)
    IN  IF v.entry[m].status = "subscribed" THEN StopPolling(v, m) ELSE EnsurePolling(v, m)

LEMMA ResumeGood ==
    ASSUME NEW t, NEW X, NEW m \in Models, Good(t, X)
    PROVE  LET u == Resume(m, t) IN Good(u, X) /\ Grows(t, u, {m})
<1> DEFINE v == EnsureTracking(t, m)
           u == Resume(m, t)
<1>1. Good(v, X) /\ Grows(t, v, {m})
  BY EnsureTrackingGood
<1>2. u = IF v.entry[m].status = "subscribed" THEN StopPolling(v, m) ELSE EnsurePolling(v, m)
  BY DEF Resume
<1> HIDE DEF u, v
<1>3. Good(u, X) /\ Keeps(v, u)
  <2>1. CASE v.entry[m].status = "subscribed"
    <3>1. m \in Entries(v)
      BY <2>1 DEF Entries
    <3> QED BY <1>1, <1>2, <2>1, <3>1, StopPollingGood
  <2>2. CASE v.entry[m].status # "subscribed"
    BY <1>1, <1>2, <2>2, EnsurePollingGood
  <2> QED BY <2>1, <2>2
<1> QED BY <1>1, <1>3 DEF Keeps, Grows, SameView, u

LEMMA HandleOnlineGood ==
    ASSUME NEW t, NEW X, Good(t, X)
    PROVE  Good(HandleOnline(t), X) /\ Grows(t, HandleOnline(t), Busy(t))
<1> DEFINE A == Busy(t)
           R(it) == it = [s \in SUBSET A |-> IF s = {} THEN t ELSE Resume(Pick(s), it[s \ {Pick(s)}])]
           F == CHOOSE it : R(it)
           T == {u \in Tabs : Good(u, X)}
           g == [p \in A \X T |-> Resume(p[1], p[2])]
<1>1. HandleOnline(t) = F[A]
  BY DEF HandleOnline, FoldSet, MapThenFoldSet, Pick, Resume
<1>2. IsFiniteSet(A) /\ A \subseteq Models
  BY ModelsAssumption, FS_Subset DEF Busy
<1>3. t \in T
  BY DEF Good, Almost, Core
<1>4. ASSUME NEW c \in A, NEW u \in T
      PROVE  Resume(c, u) \in T /\ Grows(u, Resume(c, u), {c})
  <2> DEFINE v == Resume(c, u)
  <2>1. Good(v, X) /\ Grows(u, v, {c})
    BY <1>2, ResumeGood
  <2> HIDE DEF v
  <2>2. v \in T
    BY <2>1 DEF Good, Almost, Core
  <2> QED BY <2>1, <2>2 DEF v
<1> HIDE DEF T, A
<1>5. g \in [A \X T -> T]
  BY <1>4
<1>6. R(F)
  <2>1. PICK it \in [SUBSET A -> T] : Folds(it, A, t, g)
    <3> HIDE DEF g, F, R
    <3> QED BY ONLY <1>2, <1>3, <1>5, FoldExists
  <2>2. \A s \in SUBSET A : s # {} => Pick(s) \in A /\ it[s \ {Pick(s)}] \in T
    BY PickIn
  <2>3. \A s \in SUBSET A : s # {} => g[<<Pick(s), it[s \ {Pick(s)}]>>] = Resume(Pick(s), it[s \ {Pick(s)}])
    BY <2>2
  <2> HIDE DEF g
  <2>4. R(it)
    BY <2>1, <2>3 DEF Folds
  <2> HIDE DEF R
  <2> QED BY <2>4
<1> DEFINE B == {s \in SUBSET A : F[s] \in T /\ Grows(t, F[s], s)}
<1> HIDE DEF F
<1>7. {} \in B
  <2>1. F[{}] = t
    BY <1>6
  <2> QED BY <2>1, <1>3 DEF Grows, SameView
<1>8. \A s \in SUBSET A : s # {} /\ s \ {Pick(s)} \in B => s \in B
  <2> TAKE s \in SUBSET A
  <2> HAVE s # {} /\ s \ {Pick(s)} \in B
  <2> DEFINE u == F[s \ {Pick(s)}]
             v == Resume(Pick(s), u)
  <2>1. F[s] = v /\ Pick(s) \in A /\ Pick(s) \in s
    BY <1>6, PickIn
  <2>2. u \in T /\ Grows(t, u, s \ {Pick(s)})
    OBVIOUS
  <2>3. v \in T /\ Grows(u, v, {Pick(s)})
    <3> HIDE DEF u
    <3> QED BY <1>4, <2>1, <2>2
  <2> HIDE DEF u, v
  <2>4. Grows(t, v, s)
    BY <2>1, <2>2, <2>3 DEF Grows, SameView
  <2> QED BY <2>1, <2>3, <2>4
<1>9. A \in B
  <2> HIDE DEF B
  <2> QED BY <1>2, <1>7, <1>8, SubsetInduction
<1> QED BY <1>1, <1>9 DEF T, A

LEMMA OnConnectedGood ==
    ASSUME NEW t, NEW X, Good(t, X)
    PROVE  Good(OnConnected(t), X) /\ Grows(t, OnConnected(t), Busy(t))
<1>1. Grows(t, t, Busy(t))
  BY DEF Grows, SameView
<1> QED BY <1>1, HandleOnlineGood DEF OnConnected
-----------------------------------------------------------------------------
(* A message arrives *)

LEMMA EstablishedGood ==
    ASSUME NEW t, NEW s \in Sockets, Core(t), Joined(t), Retrying(t)
    PROVE  Good(Established(t, s), {}) /\ Keeps(t, Established(t, s))
<1> DEFINE u == Established(t, s)
<1>1. /\ u \in Tabs /\ u.ws = t.ws /\ u.sid = s /\ u.timer = t.timer /\ u.auths = t.auths
      /\ u.sock = t.sock /\ u.entry = t.entry /\ u.poll = t.poll /\ SameView(t, u)
  BY SocketNumbers DEF Established, Core, Tabs, Emitted, SameView
<1> HIDE DEF u
<1>2. Core(u) /\ Keeps(t, u)
  BY <1>1 DEF Core, AllSound, AllHeard, HeardOn, Owned, Promised, Entries, Keeps, Watching
<1>3. Joined(u) /\ Retrying(u) /\ Greeted(u)
  BY <1>1, SocketNumbers DEF Joined, Retrying, Greeted, Entries
<1> QED BY <1>2, <1>3 DEF Good, Almost, u

\* The messages behind the first.
LEMMA TailFrames ==
    ASSUME NEW k \in SocketType, k.inbox # <<>>
    PROVE  /\ Head(k.inbox) \in MessageType /\ Tail(k.inbox) \in Seq(MessageType)
           /\ \A j \in SocketType : j.inbox = Tail(k.inbox) => Frames(k) = Frames(j) \cup {Head(k.inbox)}
<1> DEFINE q == k.inbox
<1>1. q \in Seq(MessageType) /\ Len(q) > 0
  BY DEF SocketType
<1>2. Head(q) = q[1] /\ Tail(q) \in Seq(MessageType) /\ Len(Tail(q)) = Len(q) - 1
      /\ \A i \in 1 .. (Len(q) - 1) : Tail(q)[i] = q[i + 1]
  BY <1>1
<1>3. q[1] \in MessageType
  BY <1>1
<1>4. ASSUME NEW j \in SocketType, j.inbox = Tail(q) PROVE Frames(k) = Frames(j) \cup {q[1]}
  <2>1. DOMAIN q = 1 .. Len(q) /\ DOMAIN j.inbox = 1 .. (Len(q) - 1)
    BY <1>1, <1>2, <1>4
  <2>2. \A i \in DOMAIN q : q[i] \in Frames(j) \cup {q[1]}
    <3> TAKE i \in DOMAIN q
    <3>1. CASE i = 1
      BY <3>1
    <3>2. CASE i # 1
      <4>1. i - 1 \in DOMAIN j.inbox /\ j.inbox[i - 1] = q[i]
        BY <1>1, <1>2, <1>4, <2>1, <3>2
      <4> QED BY <4>1 DEF Frames
    <3> QED BY <3>1, <3>2
  <2>3. \A i \in DOMAIN j.inbox : j.inbox[i] = q[i + 1] /\ i + 1 \in DOMAIN q
    BY <1>1, <1>2, <1>4, <2>1
  <2>4. 1 \in DOMAIN q
    BY <1>1, <2>1
  <2> QED BY <2>2, <2>3, <2>4 DEF Frames
<1> QED BY <1>2, <1>3, <1>4

LEMMA ReceiveGood ==
    ASSUME NEW t, NEW s \in Sockets, Good(t, Models), t.sock[s].inbox # <<>>
    PROVE  LET u == HandleMessage([t EXCEPT !.sock[s].inbox = Tail(@)], s, Head(t.sock[s].inbox))
           IN  Good(u, Models) /\ Grows(t, u, Busy(t))
<1> DEFINE j == t.sock[s]
           k == [j EXCEPT !.inbox = Tail(j.inbox)]
           v == [t EXCEPT !.sock[s].inbox = Tail(@)]
           g == Head(j.inbox)
           u == HandleMessage(v, s, g)
<1>1. t \in Tabs /\ j \in SocketType /\ SocketSound(j) /\ Core(t)
  BY DEF Good, Almost, Core, AllSound, Tabs
<1>2. v = [t EXCEPT !.sock[s] = k]
  OBVIOUS
<1> HIDE DEF v, j
<1>3. /\ g \in MessageType /\ Tail(j.inbox) \in Seq(MessageType) /\ k \in SocketType
      /\ k.state = j.state /\ k.subs = j.subs /\ k.crossed = j.crossed
      /\ Frames(j) = Frames(k) \cup {g}
  <2>1. /\ g \in MessageType /\ Tail(j.inbox) \in Seq(MessageType)
        /\ \A i \in SocketType : i.inbox = Tail(j.inbox) => Frames(j) = Frames(i) \cup {g}
    <3>1. j.inbox # <<>>
      BY DEF j
    <3> HIDE DEF k
    <3> QED BY <1>1, <3>1, TailFrames
  <2>2. /\ k \in SocketType /\ k.state = j.state /\ k.subs = j.subs /\ k.crossed = j.crossed
        /\ k.inbox = Tail(j.inbox)
    BY <1>1, <2>1 DEF SocketType
  <2> HIDE DEF k
  <2> QED BY <2>1, <2>2
<1>4. j.state = "open"
  BY <1>1 DEF SocketSound, j
<1> HIDE DEF k, g
<1>5. SocketSound(k) /\ Confirmed(k) = Confirmed(j)
  BY <1>1, <1>3, <1>4 DEF SocketSound, Confirmed
<1>6. SocketMoved(t, v, s) /\ v.sock[s] = k
  BY <1>1, <1>2, <1>3, SetSocket
<1>7. Core(v) /\ Keeps(t, v)
  <2>1. t.sock[s] = j
    BY DEF j
  <2> QED BY <1>1, <1>3, <1>4, <1>5, <1>6, <2>1, SocketMoves
<1>8. Joined(v) /\ Retrying(v) /\ Linked(v) = Linked(t)
  <2>1. v.ws \in Sockets => v.sock[v.ws].state = t.sock[v.ws].state
    BY <1>3, <1>6 DEF SocketMoved, j
  <2> QED BY <1>6, <1>7, <2>1 DEF Joined, Retrying, Linked, SocketMoved, Keeps, Good, Almost
<1>9. ASSUME g.kind # "established"
      PROVE  /\ Greeted(v)
             /\ g.kind # "error" => \A m \in Models \ {g.channel} : m \in Entries(v) => Moving(v, m)
  <2>1. g # Greeting
    BY <1>9 DEF Greeting, Message
  <2>2. \A f : f \in Frames(t.sock[t.ws]) => f \in Frames(v.sock[v.ws]) \/ (t.ws = s /\ f = g)
    <3>1. CASE t.ws = s
      BY <1>3, <1>6, <3>1 DEF SocketMoved, j
    <3>2. CASE t.ws # s
      <4>1. CASE t.ws \in Sockets
        BY <1>6, <3>2, <4>1 DEF SocketMoved
      <4>2. CASE t.ws \notin Sockets
        <5>1. v.sock[v.ws] = t.sock[t.ws]
          BY <1>2, <3>2, <4>2 DEF v, Tabs
        <5> QED BY <5>1
      <4> QED BY <4>1, <4>2
    <3> QED BY <3>1, <3>2
  <2>3. Greeted(v)
    BY <1>6, <1>8, <2>1, <2>2 DEF Good, Almost, Greeted, SocketMoved
  <2>4. ASSUME g.kind # "error", NEW m \in Models \ {g.channel}, m \in Entries(v)
        PROVE  Moving(v, m)
    <3>1. Moving(t, m)
      BY <1>7, <2>4 DEF Good, Almost, Keeps
    <3>2. Answering(t, m) => Answering(v, m)
      BY <1>9, <2>2, <2>4 DEF Answering
    <3> QED BY <1>6, <1>8, <3>1, <3>2 DEF Moving, SocketMoved
  <2> QED BY <2>3, <2>4
<1>10. Keeps(v, u) => Grows(t, u, Busy(t))
  <2> HIDE DEF u
  <2> QED BY <1>7 DEF Keeps, Grows, SameView
<1>11. CASE g.kind = "established"
  <2> DEFINE a == Established(v, s)
             b == OnConnected(a)
  <2>1. u = RestartAll(b)
    BY <1>11 DEF HandleMessage
  <2>2. Good(a, {}) /\ Keeps(v, a)
    BY <1>7, <1>8, EstablishedGood
  <2> HIDE DEF a, u
  <2>3. Good(b, {}) /\ Grows(a, b, Busy(a))
    BY <2>2, OnConnectedGood
  <2> HIDE DEF b
  <2>4. Good(u, Models) /\ Keeps(b, u)
    BY <2>1, <2>3, RestartAllGood
  <2>5. Busy(a) = Busy(t)
    BY <1>7, <2>2 DEF Keeps, SameView, Busy
  <2> QED BY <1>7, <2>2, <2>3, <2>4, <2>5 DEF Keeps, Grows, SameView, u, v, g, j
<1>12. CASE g.kind = "succeeded"
  <2> DEFINE c == g.channel
  <2>1. u = Succeeded(v, c)
    BY <1>12 DEF HandleMessage
  <2>2. Good(v, Models \ {c})
    BY <1>7, <1>8, <1>9, <1>12 DEF Good, Almost
  <2>3. c \in Models => HeardOn(v, c)
    <3> SUFFICES ASSUME c \in Models PROVE HeardOn(v, c)
      OBVIOUS
    <3>1. g = Message("succeeded", c)
      BY <1>3, <1>12 DEF Message, MessageType
    <3> QED BY <1>1, <1>3, <1>5, <1>6, <3>1 DEF SocketSound, HeardOn
  <2> HIDE DEF c, u
  <2>4. Good(u, Models) /\ Keeps(v, u)
    BY <2>1, <2>2, <2>3, SucceededGood
  <2> QED BY <1>10, <2>4 DEF u, v, g, j
<1>13. CASE g.kind = "rejected"
  <2>1. u = Rejected(v, g.channel)
    BY <1>13 DEF HandleMessage
  <2>2. Good(v, Models \ {g.channel})
    BY <1>7, <1>8, <1>9, <1>13 DEF Good, Almost
  <2> HIDE DEF u
  <2>3. Good(u, Models) /\ Keeps(v, u)
    BY <2>1, <2>2, RejectedGood
  <2> QED BY <1>10, <2>3 DEF u, v, g, j
<1>14. CASE g.kind = "error"
  <2>1. u = NotifyAllError(v)
    BY <1>14 DEF HandleMessage
  <2>2. Good(v, {})
    BY <1>7, <1>8, <1>9, <1>14 DEF Good, Almost
  <2> HIDE DEF u
  <2>3. Good(u, Models) /\ Keeps(v, u)
    BY <2>1, <2>2, NotifyAllErrorGood
  <2> QED BY <1>10, <2>3 DEF u, v, g, j
<1> QED BY <1>3, <1>11, <1>12, <1>13, <1>14 DEF MessageType

-----------------------------------------------------------------------------
(* What a tab shows *)

\* The part of the invariant about the tab.
Sound(t) ==
    /\ Good(t, Models)
    /\ Busy(t) \ t.errs \subseteq Watching(t)
    /\ Entries(t) \subseteq Busy(t)

\* A step that leaves the channels, the connection and the intervals alone.
SameWork(t, u) == u \in Tabs /\ SameNet(t, u) /\ u.entry = t.entry /\ u.poll = t.poll

LEMMA SameWorkGood ==
    ASSUME NEW t, NEW u, NEW X, SameWork(t, u), Good(t, X)
    PROVE  Good(u, X) /\ Entries(u) = Entries(t) /\ Watching(u) = Watching(t)
<1>1. Entries(u) = Entries(t) /\ Watching(u) = Watching(t)
  BY DEF SameWork, Entries, Watching
<1>2. Core(u)
  BY <1>1 DEF SameWork, SameNet, Good, Almost, Core, AllSound, AllHeard, HeardOn, Owned, Promised
<1>3. Joined(u) /\ Greeted(u) /\ Retrying(u)
  BY <1>1 DEF SameWork, SameNet, Good, Almost, Joined, Greeted, Linked, Retrying
<1>4. \A m : Moving(t, m) => Moving(u, m)
  BY DEF SameWork, SameNet, Moving, Linked, Answering
<1> QED BY <1>1, <1>2, <1>3, <1>4 DEF Good, Almost

LEMMA SoundGrows ==
    ASSUME NEW t, NEW u, Sound(t), Good(u, Models), Grows(t, u, Busy(t))
    PROVE  Sound(u)
<1>1. Busy(u) = Busy(t)
  BY DEF Grows, SameView, Busy
<1> QED BY <1>1 DEF Sound, Grows, SameView

LEMMA SoundKeeps ==
    ASSUME NEW t, NEW u, Sound(t), Good(u, Models), Keeps(t, u)
    PROVE  Sound(u)
BY SoundGrows DEF Keeps, Grows

LEMMA SoundSame ==
    ASSUME NEW t, NEW u, Sound(t), SameWork(t, u), SameView(t, u)
    PROVE  Sound(u)
<1>1. Good(u, Models) /\ Entries(u) = Entries(t) /\ Watching(u) = Watching(t)
  BY SameWorkGood DEF Sound
<1> QED BY <1>1, SoundGrows DEF Grows

\* The state of one model changes: it is tracked if it is busy, and let go if not.
LEMMA ShownSound ==
    ASSUME NEW t, NEW v, NEW m \in Models, NEW state \in Shown, Sound(t), SameWork(t, v),
           v.snap = [t.snap EXCEPT ![m] = state], v.errs = t.errs \ {m}
    PROVE  /\ IsActive(state) => Sound(EnsureTracking(v, m))
           /\ IsActive(state) /\ m \in Entries(t) => Sound(v)
           /\ ~IsActive(state) => Sound(StopTracking(v, m))
<1>1. Good(v, Models) /\ Entries(v) = Entries(t) /\ Watching(v) = Watching(t)
  BY SameWorkGood DEF Sound
<1>2. t \in Tabs /\ DOMAIN t.snap = Models
  BY DEF Sound, Good, Almost, Core, Tabs
<1>3. Busy(v) = IF IsActive(state) THEN Busy(t) \cup {m} ELSE Busy(t) \ {m}
  BY <1>2 DEF Busy
<1>4. ASSUME IsActive(state) PROVE Sound(EnsureTracking(v, m))
  <2> DEFINE u == EnsureTracking(v, m)
  <2>1. Good(u, Models) /\ Grows(v, u, {m}) /\ Watching(v) \cup {m} \subseteq Watching(u)
    BY <1>1, EnsureTrackingGood
  <2> HIDE DEF u
  <2>2. Busy(u) = Busy(v) /\ u.errs = v.errs
    BY <2>1 DEF Grows, SameView, Busy
  <2>3. Sound(u)
    BY <1>1, <1>3, <1>4, <2>1, <2>2 DEF Sound, Grows
  <2> QED BY <2>3 DEF u
<1>5. ASSUME IsActive(state), m \in Entries(t) PROVE Sound(v)
  BY <1>1, <1>3, <1>5 DEF Sound, Watching
<1>6. ASSUME ~IsActive(state) PROVE Sound(StopTracking(v, m))
  <2> DEFINE u == StopTracking(v, m)
  <2>1. /\ Good(u, Models) /\ SameView(v, u) /\ Entries(u) = Entries(v) \ {m}
        /\ Watching(v) \ {m} \subseteq Watching(u)
    BY <1>1, StopTrackingGood
  <2> HIDE DEF u
  <2>2. Busy(u) = Busy(v) /\ u.errs = v.errs
    BY <2>1 DEF SameView, Busy
  <2>3. Sound(u)
    BY <1>1, <1>3, <1>6, <2>1, <2>2 DEF Sound
  <2> QED BY <2>3 DEF u
<1> QED BY <1>4, <1>5, <1>6

LEMMA RequestSound ==
    ASSUME NEW t, NEW m \in Models, NEW kind \in Kinds, Sound(t)
    PROVE  Sound(EnsureTracking([t EXCEPT !.post[m] = kind, !.snap[m] = kind, !.errs = @ \ {m}], m))
<1> DEFINE v == [t EXCEPT !.post[m] = kind, !.snap[m] = kind, !.errs = @ \ {m}]
<1>1. kind \in Shown /\ IsActive(kind)
  BY BoundsAssumption DEF Shown, IsActive
<1>2. SameWork(t, v) /\ v.snap = [t.snap EXCEPT ![m] = kind] /\ v.errs = t.errs \ {m}
  BY <1>1 DEF Sound, Good, Almost, Core, Tabs, SameWork, SameNet
<1> HIDE DEF v
<1>3. Sound(EnsureTracking(v, m))
  BY <1>1, <1>2, ShownSound
<1> QED BY <1>3 DEF v

LEMMA OnEventSound ==
    ASSUME NEW t, NEW m \in Models, NEW state \in Shown, Sound(t)
    PROVE  Sound(OnEvent(t, m, state))
<1> DEFINE v == [t EXCEPT !.snap[m] = state, !.errs = @ \ {m}]
<1>1. SameWork(t, v) /\ v.snap = [t.snap EXCEPT ![m] = state] /\ v.errs = t.errs \ {m}
  BY DEF Sound, Good, Almost, Core, Tabs, SameWork, SameNet
<1>2. OnEvent(t, m, state) = IF m \in Entries(t)
                             THEN IF IsActive(state) THEN v ELSE StopTracking(v, m)
                             ELSE t
  BY DEF OnEvent, HandleRealtimeStatus
<1> HIDE DEF v
<1> QED BY <1>1, <1>2, ShownSound
-----------------------------------------------------------------------------
(* The status requests *)

LEMMA FetchStatusFrame ==
    ASSUME NEW t \in Tabs, NEW m \in Models, NEW post \in BOOLEAN
    PROVE  SameWork(t, FetchStatus(t, m, post)) /\ SameView(t, FetchStatus(t, m, post))
<1>1. CASE m \in t.loading
  BY <1>1 DEF FetchStatus, SameWork, SameNet, SameView, Tabs
<1>2. CASE m \notin t.loading
  <2> DEFINE f == [model |-> m, answer |-> "asked", post |-> post]
             b == t.fetches (+) SetToBag({f})
  <2>1. f \in FetchType
    BY DEF FetchType
  <2>2. t.fetches \in BagsOf(FetchType)
    BY DEF Tabs
  <2> HIDE DEF f
  <2>3. b \in BagsOf(FetchType)
    BY <2>1, <2>2, OneBag, BagSum
  <2> HIDE DEF b
  <2>4. FetchStatus(t, m, post) = [t EXCEPT !.loading = t.loading \cup {m}, !.fetches = b]
    BY <1>2 DEF FetchStatus, b, f, Tabs
  <2> DEFINE l == t.loading \cup {m}
             u == [t EXCEPT !.loading = l, !.fetches = b]
  <2>5. l \in SUBSET Models
    BY DEF Tabs
  <2> HIDE DEF l
  <2>6. u \in Tabs
    BY <2>3, <2>5 DEF Tabs
  <2>7. SameNet(t, u) /\ u.entry = t.entry /\ u.poll = t.poll /\ SameView(t, u)
    BY DEF SameNet, SameView, Tabs
  <2>8. u = FetchStatus(t, m, post)
    BY <2>4 DEF l
  <2> HIDE DEF u
  <2> QED BY <2>6, <2>7, <2>8 DEF SameWork
<1> QED BY <1>1, <1>2

LEMMA FetchEndedFrame ==
    ASSUME NEW t \in Tabs, NEW f \in FetchType
    PROVE  SameWork(t, FetchEnded(t, f)) /\ SameView(t, FetchEnded(t, f))
<1> DEFINE b == t.fetches (-) SetToBag({f})
           p == IF f.post THEN "none" ELSE t.post[f.model]
<1>1. b \in BagsOf(FetchType)
  <2>1. t.fetches \in BagsOf(FetchType)
    BY DEF Tabs
  <2> QED BY <2>1, BagTake
<1>2. p \in {"none", "accepted", "fetching"} \cup Kinds /\ f.model \in Models
  BY DEF FetchType, Tabs
<1> HIDE DEF b, p
<1>3. FetchEnded(t, f) = [t EXCEPT !.loading = t.loading \ {f.model}, !.fetches = b, !.post[f.model] = p]
  BY <1>2 DEF FetchEnded, b, p, Tabs
<1> DEFINE l == t.loading \ {f.model}
           q == [t.post EXCEPT ![f.model] = p]
           u == [t EXCEPT !.loading = l, !.fetches = b, !.post = q]
<1>4. l \in SUBSET Models /\ q \in [Models -> {"none", "accepted", "fetching"} \cup Kinds]
  BY <1>2 DEF Tabs
<1>5. u = FetchEnded(t, f)
  BY <1>3
<1> HIDE DEF l, q
<1>6. u \in Tabs
  BY <1>1, <1>4 DEF Tabs
<1>7. SameNet(t, u) /\ u.entry = t.entry /\ u.poll = t.poll /\ SameView(t, u)
  BY DEF SameNet, SameView, Tabs
<1> HIDE DEF u
<1> QED BY <1>5, <1>6, <1>7 DEF SameWork

LEMMA ShowStatusSound ==
    ASSUME NEW t, NEW f \in FetchType, f.answer # "asked", Sound(t)
    PROVE  Sound(ShowStatus(t, f))
<1> DEFINE m == f.model
           a == FetchEnded(t, f)
           v == [a EXCEPT !.snap[m] = f.answer, !.errs = @ \ {m}]
<1>1. t \in Tabs /\ m \in Models /\ f.answer \in Shown
  BY DEF Sound, Good, Almost, Core, FetchType
<1>2. SameWork(t, a) /\ SameView(t, a)
  BY <1>1, FetchEndedFrame
<1>3. ShowStatus(t, f) = IF IsActive(f.answer) THEN EnsureTracking(v, m) ELSE StopTracking(v, m)
  BY DEF ShowStatus
<1> HIDE DEF a, m
<1>4. SameWork(t, v) /\ v.snap = [t.snap EXCEPT ![m] = f.answer] /\ v.errs = t.errs \ {m}
  BY <1>1, <1>2 DEF SameWork, SameNet, SameView, Tabs
<1> HIDE DEF v
<1> QED BY <1>1, <1>3, <1>4, ShownSound

LEMMA ShowStatusErrorSound ==
    ASSUME NEW t, NEW f \in FetchType, Sound(t)
    PROVE  Sound(ShowStatusError(t, f))
<1> DEFINE m == f.model
           a == FetchEnded(t, f)
           v == StopTracking(a, m)
           u == [v EXCEPT !.snap[m] = IF @ = "none" THEN "unknown" ELSE @, !.errs = @ \cup {m}]
<1>1. t \in Tabs /\ m \in Models
  BY DEF Sound, Good, Almost, Core, FetchType
<1>2. SameWork(t, a) /\ SameView(t, a)
  BY <1>1, FetchEndedFrame
<1>3. ShowStatusError(t, f) = u
  BY DEF ShowStatusError
<1> HIDE DEF a, m
<1>4. Good(a, Models) /\ Entries(a) = Entries(t) /\ Watching(a) = Watching(t)
  BY <1>2, SameWorkGood DEF Sound
<1>5. /\ Good(v, Models) /\ SameView(a, v) /\ Entries(v) = Entries(a) \ {m}
      /\ Watching(a) \ {m} \subseteq Watching(v)
  BY <1>1, <1>4, StopTrackingGood
<1> HIDE DEF v
<1>6. v \in Tabs
  BY <1>5 DEF Good, Almost, Core
<1>7. SameWork(v, u)
  <2>1. u \in Tabs
    BY <1>1, <1>6 DEF Tabs, Shown
  <2>2. SameNet(v, u) /\ u.entry = v.entry /\ u.poll = v.poll
    BY DEF SameNet
  <2> QED BY <2>1, <2>2 DEF SameWork
<1>11. v.snap = t.snap /\ v.errs = t.errs
  BY <1>2, <1>5 DEF SameView
<1>12. u.errs = t.errs \cup {m}
  BY <1>6, <1>11 DEF Tabs
<1>13. \A n \in Models : IsActive(u.snap[n]) = IsActive(t.snap[n])
  <2>1. DOMAIN v.snap = Models
    BY <1>6 DEF Tabs
  <2> QED BY <1>6, <1>11, <2>1 DEF Tabs, IsActive
<1> HIDE DEF u
<1>8. Good(u, Models) /\ Entries(u) = Entries(v) /\ Watching(u) = Watching(v)
  BY <1>5, <1>7, SameWorkGood
<1>9. Busy(u) = Busy(t)
  BY <1>13 DEF Busy
<1>10. Sound(u)
  BY <1>4, <1>5, <1>12, <1>8, <1>9 DEF Sound
<1> QED BY <1>3, <1>10

-----------------------------------------------------------------------------
(* The page and its list *)

\* Fewer intervals: only the channels still polled or moving otherwise are known to move.
LEMMA PollShrinks ==
    ASSUME NEW t, NEW P \in SUBSET Models, Good(t, Models)
    PROVE  LET u == [t EXCEPT !.poll = t.poll \cap P]
           IN  /\ Good(u, P) /\ Entries(u) = Entries(t) /\ SameView(t, u)
               /\ Watching(t) \cap P \subseteq Watching(u)
<1> DEFINE u == [t EXCEPT !.poll = t.poll \cap P]
<1>1. t \in Tabs
  BY DEF Good, Almost, Core
<1>2. /\ u \in Tabs /\ SameNet(t, u) /\ u.entry = t.entry /\ SameView(t, u)
      /\ u.poll = t.poll \cap P
  BY <1>1 DEF Tabs, SameNet, SameView
<1> HIDE DEF u
<1>3. Entries(u) = Entries(t) /\ Watching(t) \cap P \subseteq Watching(u)
  BY <1>2 DEF Entries, Watching
<1>4. Core(u)
  BY <1>2, <1>3 DEF SameNet, Good, Almost, Core, AllSound, AllHeard, HeardOn, Owned, Promised
<1>5. Joined(u) /\ Greeted(u) /\ Retrying(u)
  BY <1>2, <1>3 DEF SameNet, Good, Almost, Joined, Greeted, Linked, Retrying
<1>6. \A m \in P : Moving(t, m) => Moving(u, m)
  BY <1>2 DEF SameNet, Moving, Linked, Answering
<1>7. Good(u, P)
  BY <1>3, <1>4, <1>5, <1>6 DEF Good, Almost
<1> QED BY <1>2, <1>3, <1>7 DEF u

LEMMA UnsubscribeNone == ASSUME NEW t PROVE UnsubscribeAll(t, {}) = t
<1> DEFINE op(c, u) == Unsubscribe(u, c)
           R(it) == it = [s \in SUBSET {} |-> IF s = {} THEN t ELSE op(Pick(s), it[s \ {Pick(s)}])]
           F == CHOOSE it : R(it)
           one == [s \in SUBSET {} |-> t]
<1>1. UnsubscribeAll(t, {}) = F[{}]
  BY DEF UnsubscribeAll, FoldSet, MapThenFoldSet, Pick
<1> HIDE DEF op
<1>2. R(one)
  OBVIOUS
<1>3. R(F)
  <2> HIDE DEF R, one
  <2> QED BY <1>2
<1> HIDE DEF F
<1>4. F[{}] = t
  BY <1>3
<1> QED BY <1>1, <1>4

\* Leaving the page forgets everything.
LEMMA ClearStatusTrackingSound ==
    ASSUME NEW t, Good(t, Models)
    PROVE  Sound(ClearStatusTracking(t))
<1> DEFINE v == [t EXCEPT !.poll = {}]
           w == UnsubscribeAll(v, Entries(t))
           u == [w EXCEPT !.loading = {}, !.snap = [m \in Models |-> "none"], !.errs = {}]
<1>1. ClearStatusTracking(t) = u
  BY DEF ClearStatusTracking
<1>2. Good(v, {}) /\ Entries(v) = Entries(t)
  <2> DEFINE a == [t EXCEPT !.poll = t.poll \cap {}]
  <2>1. Good(a, {}) /\ Entries(a) = Entries(t)
    BY PollShrinks
  <2>2. a = v
    OBVIOUS
  <2> HIDE DEF a, v
  <2> QED BY <2>1, <2>2
<1> HIDE DEF v
<1>3. Good(w, {}) /\ Entries(w) = {}
  <2>1. Entries(t) \in SUBSET Models
    BY DEF Entries
  <2>2. Good(w, {}) /\ Entries(w) = Entries(v) \ Entries(t)
    BY <1>2, <2>1, UnsubscribeAllGood
  <2> HIDE DEF w
  <2> QED BY <1>2, <2>2
<1> HIDE DEF w
<1>4. Good(w, Models) /\ w \in Tabs
  BY <1>3 DEF Good, Almost, Core
<1>5. SameWork(w, u) /\ u.snap = [m \in Models |-> "none"]
  BY <1>4 DEF SameWork, SameNet, Tabs, Shown
<1> HIDE DEF u
<1>6. Good(u, Models) /\ Entries(u) = {}
  BY <1>3, <1>4, <1>5, SameWorkGood
<1>7. Busy(u) = {}
  BY <1>5 DEF Busy, IsActive
<1> QED BY <1>1, <1>6, <1>7 DEF Sound

LEMMA SyncStatusTrackingSound ==
    ASSUME NEW t, Sound(t), NEW listed \in SUBSET Models
    PROVE  /\ Sound(SyncStatusTracking(t, listed))
           /\ Entries(t) \subseteq listed => SyncStatusTracking(t, listed).ws = t.ws
<1> DEFINE v == [t EXCEPT !.poll = @ \cap listed]
           A == Entries(t) \ listed
           w == UnsubscribeAll(v, A)
           snap == [m \in Models |-> IF m \in listed THEN w.snap[m] ELSE "none"]
           u == [w EXCEPT !.loading = @ \cap listed, !.errs = @ \cap listed, !.snap = snap]
<1>1. SyncStatusTracking(t, listed) = u
  BY DEF SyncStatusTracking
<1>2. Good(v, listed) /\ Entries(v) = Entries(t) /\ SameView(t, v) /\ Watching(t) \cap listed \subseteq Watching(v)
  BY PollShrinks DEF Sound
<1>15. v.ws = t.ws
  OBVIOUS
<1> HIDE DEF v
<1>16. Entries(t) \subseteq listed => w.ws = t.ws
  <2> SUFFICES ASSUME Entries(t) \subseteq listed PROVE w.ws = t.ws
    OBVIOUS
  <2>1. A = {}
    OBVIOUS
  <2> HIDE DEF A
  <2> QED BY <1>15, <2>1, UnsubscribeNone
<1>3. /\ Good(w, listed) /\ SameView(v, w) /\ Entries(w) = Entries(t) \cap listed
      /\ Watching(v) \ A \subseteq Watching(w)
  <2>1. A \in SUBSET Models
    BY DEF Entries
  <2>2. /\ Good(w, listed) /\ SameView(v, w) /\ Entries(w) = Entries(v) \ A
        /\ Watching(v) \ A \subseteq Watching(w)
    <3> HIDE DEF A
    <3> QED BY <1>2, <2>1, UnsubscribeAllGood
  <2> HIDE DEF w
  <2> QED BY <1>2, <2>2
<1> HIDE DEF w
<1>4. Good(w, Models) /\ w \in Tabs
  BY <1>3 DEF Good, Almost, Core
<1>5. snap \in [Models -> Shown]
  BY <1>4 DEF Tabs, Shown
<1>6. w.snap = t.snap /\ w.errs = t.errs
  BY <1>2, <1>3 DEF SameView
<1>7. \A m \in Models : snap[m] = IF m \in listed THEN t.snap[m] ELSE "none"
  BY <1>6
<1> HIDE DEF snap
<1>8. u \in Tabs
  BY <1>4, <1>5 DEF Tabs
<1>9. SameNet(w, u) /\ u.entry = w.entry /\ u.poll = w.poll
  BY DEF SameNet
<1>17. u.ws = w.ws
  OBVIOUS
<1>10. u.snap = snap /\ u.errs = t.errs \cap listed
  BY <1>4, <1>6 DEF Tabs
<1> HIDE DEF u
<1>11. Good(u, Models) /\ Entries(u) = Entries(w) /\ Watching(u) = Watching(w)
  BY <1>4, <1>8, <1>9, SameWorkGood DEF SameWork
<1>12. Busy(u) = Busy(t) \cap listed
  BY <1>7, <1>10 DEF Busy, IsActive
<1>13. Entries(u) \subseteq Busy(u)
  BY <1>3, <1>11, <1>12 DEF Sound
<1>14. Busy(u) \ u.errs \subseteq Watching(u)
  BY <1>2, <1>3, <1>10, <1>11, <1>12 DEF Sound
<1> QED BY <1>1, <1>11, <1>13, <1>14, <1>16, <1>17 DEF Sound

\* fetchModels asks for the status of every model of the list.
LEMMA FetchModelsSound ==
    ASSUME NEW t, NEW listed \in SUBSET Models, Sound(t)
    PROVE  /\ Sound(FetchModels(t, listed))
           /\ Entries(t) \subseteq listed => FetchModels(t, listed).ws = t.ws
<1> DEFINE a == [t EXCEPT !.listed = listed]
           b == SyncStatusTracking(a, listed)
           R(it) == it = [s \in SUBSET listed |-> IF s = {} THEN b ELSE FetchStatus(it[s \ {Pick(s)}], Pick(s), FALSE)]
           F == CHOOSE it : R(it)
           T == {u \in Tabs : SameWork(b, u) /\ SameView(b, u)}
           g == [p \in listed \X T |-> FetchStatus(p[2], p[1], FALSE)]
<1>1. FetchModels(t, listed) = F[listed]
  BY DEF FetchModels, FoldSet, MapThenFoldSet, Pick
<1>2. IsFiniteSet(listed)
  BY ModelsAssumption, FS_Subset
<1>3. Sound(a)
  <2>1. t \in Tabs
    BY DEF Sound, Good, Almost, Core
  <2>2. SameWork(t, a) /\ SameView(t, a)
    BY <2>1 DEF SameWork, SameNet, SameView, Tabs
  <2> HIDE DEF a
  <2> QED BY <2>2, SoundSame
<1>13. a.ws = t.ws /\ Entries(a) = Entries(t)
  BY DEF Entries
<1>4. Sound(b) /\ (Entries(t) \subseteq listed => b.ws = t.ws)
  <2> HIDE DEF a
  <2> QED BY <1>3, <1>13, SyncStatusTrackingSound
<1> HIDE DEF b
<1>5. b \in T
  BY <1>4 DEF Sound, Good, Almost, Core, SameWork, SameNet, SameView
<1>6. ASSUME NEW c \in listed, NEW u \in T PROVE FetchStatus(u, c, FALSE) \in T
  <2> DEFINE v == FetchStatus(u, c, FALSE)
  <2>1. SameWork(u, v) /\ SameView(u, v)
    BY FetchStatusFrame
  <2> HIDE DEF v
  <2> QED BY <2>1 DEF SameWork, SameNet, SameView, v
<1> HIDE DEF T
<1>7. g \in [listed \X T -> T]
  BY <1>6
<1>8. R(F)
  <2>1. PICK it \in [SUBSET listed -> T] : Folds(it, listed, b, g)
    <3> HIDE DEF g, F, R
    <3> QED BY ONLY <1>2, <1>5, <1>7, FoldExists
  <2>2. \A s \in SUBSET listed : s # {} => Pick(s) \in listed /\ it[s \ {Pick(s)}] \in T
    BY PickIn
  <2>3. \A s \in SUBSET listed : s # {} =>
            g[<<Pick(s), it[s \ {Pick(s)}]>>] = FetchStatus(it[s \ {Pick(s)}], Pick(s), FALSE)
    BY <2>2
  <2> HIDE DEF g
  <2>4. R(it)
    BY <2>1, <2>3 DEF Folds
  <2> HIDE DEF R
  <2> QED BY <2>4
<1> DEFINE B == {s \in SUBSET listed : F[s] \in T}
<1> HIDE DEF F
<1>9. {} \in B
  BY <1>5, <1>8
<1>10. \A s \in SUBSET listed : s # {} /\ s \ {Pick(s)} \in B => s \in B
  <2> TAKE s \in SUBSET listed
  <2> HAVE s # {} /\ s \ {Pick(s)} \in B
  <2> DEFINE u == F[s \ {Pick(s)}]
  <2>1. F[s] = FetchStatus(u, Pick(s), FALSE) /\ Pick(s) \in listed
    BY <1>8, PickIn
  <2>2. u \in T
    OBVIOUS
  <2> HIDE DEF u
  <2> QED BY <1>6, <2>1, <2>2
<1>11. listed \in B
  <2> HIDE DEF B
  <2> QED BY <1>2, <1>9, <1>10, SubsetInduction
<1> DEFINE w == F[listed]
<1>12. SameWork(b, w) /\ SameView(b, w)
  BY <1>11 DEF T
<1> HIDE DEF w
<1>14. Sound(w) /\ w.ws = b.ws
  BY <1>4, <1>12, SoundSame DEF SameWork, SameNet
<1> QED BY <1>1, <1>4, <1>14 DEF w

-----------------------------------------------------------------------------
(* The network *)

\* The greeting of a new connection is on its way.
LEMMA OpensSound ==
    ASSUME NEW t, NEW s \in Sockets, Sound(t), t.sock[s].state = "connecting"
    PROVE  Sound([t EXCEPT !.sock[s].state = "open", !.sock[s].inbox = <<Message("established", "none")>>])
<1> DEFINE j == t.sock[s]
           q == <<Message("established", "none")>>
           k == [j EXCEPT !.state = "open", !.inbox = q]
           u == [t EXCEPT !.sock[s].state = "open", !.sock[s].inbox = q]
<1>1. t \in Tabs /\ j \in SocketType /\ SocketSound(j) /\ Core(t)
  BY DEF Sound, Good, Almost, Core, AllSound, Tabs
<1>2. q \in Seq(MessageType) /\ DOMAIN q = {1} /\ q[1] = Greeting
  BY DEF MessageType, Message, Greeting
<1>3. u = [t EXCEPT !.sock[s] = k]
  BY <1>1 DEF Tabs
<1> HIDE DEF u, j, q
<1>4. k \in SocketType /\ k.state = "open" /\ k.inbox = q /\ k.subs = j.subs /\ k.crossed = j.crossed
  BY <1>1, <1>2 DEF SocketType
<1> HIDE DEF k
<1>5. Frames(k) = {Greeting}
  BY <1>2, <1>4 DEF Frames
<1>6. SocketSound(k) /\ Confirmed(k) = Confirmed(j)
  <2>1. \A c \in Models : Message("succeeded", c) # Greeting
    BY DEF Greeting, Message
  <2> QED BY <1>1, <1>4, <1>5, <2>1 DEF SocketSound, Confirmed
<1>7. SocketMoved(t, u, s) /\ u.sock[s] = k
  BY <1>1, <1>3, <1>4, SetSocket
<1>8. Core(u) /\ Keeps(t, u)
  <2>1. t.sock[s] = j /\ j.state # "cut"
    BY DEF j
  <2> QED BY <1>1, <1>6, <1>7, <2>1, SocketMoves
<1>9. CASE t.ws = s
  <2>1. Linked(u) /\ u.ws = s
    BY <1>4, <1>7, <1>9 DEF Linked, SocketMoved
  <2>2. \A m : Answering(u, m)
    <3>1. Frames(u.sock[u.ws]) = {Greeting} /\ Greeting.kind = "established"
      BY <1>5, <1>7, <2>1 DEF Greeting, Message
    <3>2. Greeting \in Frames(u.sock[u.ws]) /\ Greeting.kind \in {"established", "error"}
      BY <3>1
    <3> QED BY <3>2 DEF Answering
  <2>3. Joined(u) /\ Greeted(u) /\ Retrying(u)
    BY <1>4, <1>5, <1>7, <1>9, <2>1, SocketNumbers DEF Joined, Greeted, Retrying
  <2>4. Good(u, Models)
    BY <1>8, <2>2, <2>3 DEF Good, Almost, Moving
  <2> QED BY <1>8, <2>4, SoundKeeps DEF u, q
<1>10. CASE t.ws # s
  <2>1. u.ws = t.ws /\ u.sid = t.sid /\ (u.ws \in Sockets => u.sock[u.ws] = t.sock[t.ws])
    BY <1>7, <1>10 DEF SocketMoved
  <2>2. Joined(u) /\ Greeted(u) /\ Retrying(u)
    BY <1>7, <1>8, <2>1 DEF SocketMoved, Sound, Good, Almost, Joined, Greeted, Linked, Retrying, Keeps
  <2>3. \A m \in Entries(u) : Moving(u, m)
    <3> TAKE m \in Entries(u)
    <3>1. Moving(t, m)
      BY <1>8 DEF Sound, Good, Almost, Keeps, Entries
    <3> QED BY <1>7, <2>1, <3>1 DEF SocketMoved, Moving, Linked, Answering
  <2>4. Good(u, Models)
    BY <1>8, <2>2, <2>3 DEF Good, Almost
  <2> QED BY <1>8, <2>4, SoundKeeps DEF u, q
<1> QED BY <1>9, <1>10

\* The connection is lost, and everything on it.
LEMMA CutSound ==
    ASSUME NEW t, NEW s \in Sockets, Sound(t)
    PROVE  Sound([t EXCEPT !.sock[s] = [ClosedSocket EXCEPT !.state = "cut"]])
<1> DEFINE k == [ClosedSocket EXCEPT !.state = "cut"]
           u == [t EXCEPT !.sock[s] = k]
<1>1. t \in Tabs /\ Core(t)
  BY DEF Sound, Good, Almost, Core
<1>2. k \in SocketType /\ k.state = "cut" /\ k.subs = {} /\ k.inbox = <<>> /\ k.crossed = {}
  BY FreshSocket
<1> HIDE DEF k
<1>3. SocketMoved(t, u, s) /\ u.sock[s] = k
  BY <1>1, <1>2, SetSocket
<1> HIDE DEF u
<1>4. SocketSound(k)
  <2>1. Frames(k) = {}
    BY <1>2 DEF Frames
  <2> QED BY <1>2, <2>1 DEF SocketSound
<1>5. Core(u) /\ Keeps(t, u)
  BY <1>1, <1>2, <1>3, <1>4, SocketMoves
<1>6. u.ws = t.ws /\ u.sid = t.sid /\ (u.ws \in Sockets /\ t.ws # s => u.sock[u.ws] = t.sock[t.ws])
  BY <1>3 DEF SocketMoved
<1>7. Linked(u) => Linked(t) /\ u.sock[u.ws] = t.sock[t.ws]
  BY <1>2, <1>3, <1>6 DEF Linked
<1>8. Joined(u) /\ Greeted(u) /\ Retrying(u)
  BY <1>2, <1>3, <1>5, <1>6, <1>7 DEF SocketMoved, Sound, Good, Almost, Joined, Greeted, Retrying, Keeps
<1>9. \A m \in Entries(u) : Moving(u, m)
  <2> TAKE m \in Entries(u)
  <2>1. Moving(t, m)
    BY <1>5 DEF Sound, Good, Almost, Keeps, Entries
  <2> QED BY <1>3, <1>7, <2>1 DEF SocketMoved, Moving, Answering
<1>10. Good(u, Models)
  BY <1>5, <1>8, <1>9 DEF Good, Almost
<1> QED BY <1>5, <1>10, SoundKeeps DEF u, k

LEMMA CloseEventSound ==
    ASSUME NEW t, NEW s \in Sockets, Sound(t)
    PROVE  Sound(HandleClose(Gone(t, s)))
<1> DEFINE v == Gone(t, s)
           u == HandleClose(v)
<1>1. /\ v \in Tabs /\ AllSound(v) /\ Owned(v)
      /\ SameView(t, v) /\ v.entry = t.entry /\ v.poll = t.poll
  BY GoneFrame DEF Sound, Good, Almost
<1> HIDE DEF v
<1>2. Good(u, Models) /\ Keeps(v, u)
  BY <1>1, HandleCloseGood
<1> HIDE DEF u
<1>3. Keeps(t, u)
  BY <1>1, <1>2 DEF Keeps, SameView, Entries, Watching
<1> QED BY <1>2, <1>3, SoundKeeps DEF u, v

LEMMA ConnectFailsSound ==
    ASSUME NEW t, NEW s \in Sockets, Sound(t)
    PROVE  Sound(HandleClose(Emit(Gone(t, s), "error")))
<1> DEFINE v == Gone(t, s)
           w == Emit(v, "error")
           u == HandleClose(w)
<1>1. /\ v \in Tabs /\ AllSound(v) /\ Owned(v)
      /\ SameView(t, v) /\ v.entry = t.entry /\ v.poll = t.poll
  BY GoneFrame DEF Sound, Good, Almost
<1> HIDE DEF v
<1>2. w \in Tabs /\ SameNet(v, w) /\ w.entry = v.entry /\ SameView(v, w) /\ v.poll \subseteq w.poll
  BY <1>1, EmitFrame DEF Emitted
<1> HIDE DEF w
<1>3. AllSound(w) /\ Owned(w)
  BY <1>1, <1>2 DEF SameNet, AllSound, Owned, Entries
<1>4. Good(u, Models) /\ Keeps(w, u)
  BY <1>2, <1>3, HandleCloseGood
<1> HIDE DEF u
<1>5. Keeps(t, u)
  BY <1>1, <1>2, <1>4 DEF Keeps, SameView, Entries, Watching
<1> QED BY <1>4, <1>5, SoundKeeps DEF u, v, w

LEMMA HandleOfflineGood ==
    ASSUME NEW t, Sound(t)
    PROVE  Sound(HandleOffline(t))
<1> DEFINE u == HandleOffline(t)
<1>1. t \in Tabs
  BY DEF Sound, Good, Almost, Core
<1>2. u \in Tabs /\ SameNet(t, u) /\ u.entry = t.entry /\ SameView(t, u) /\ t.poll \subseteq u.poll
  BY <1>1 DEF HandleOffline, Busy, Tabs, SameNet, SameView
<1> HIDE DEF u
<1>3. Keeps(t, u) /\ Good(u, Models)
  BY <1>2, PollGrows DEF Sound
<1> QED BY <1>3, SoundKeeps DEF u

\* The browser goes offline or comes back.
LEMMA OnlineSound ==
    ASSUME NEW t, Sound(t), NEW v \in BOOLEAN
    PROVE  LET a == [t EXCEPT !.online = v]
           IN  Sound(a) /\ Sound(HandleOffline(a)) /\ Sound(OnConnected(a))
<1> DEFINE a == [t EXCEPT !.online = v]
           u == OnConnected(a)
<1>1. t \in Tabs
  BY DEF Sound, Good, Almost, Core
<1>2. SameWork(t, a) /\ SameView(t, a)
  BY <1>1 DEF SameWork, SameNet, SameView, Tabs
<1> HIDE DEF a
<1>3. Sound(a)
  BY <1>2, SoundSame
<1>4. Good(u, Models) /\ Grows(a, u, Busy(a))
  BY <1>3, OnConnectedGood DEF Sound
<1>5. Sound(u)
  <2> HIDE DEF u
  <2> QED BY <1>3, <1>4, SoundGrows
<1> QED BY <1>3, <1>5, HandleOfflineGood DEF a

-----------------------------------------------------------------------------
(* The invariant *)

ServerType ==
    /\ server \in [Models -> [status : Shown, jobs : Seq(Kinds)]]
    /\ news \in BagsOf([model : Models, state : Shown])

IInv == Sound(tab) /\ tab.ws # Overflow /\ ServerType

LEMMA KindsAreBusy == Kinds \subseteq Shown /\ \A kind \in Kinds : IsActive(kind)
BY BoundsAssumption DEF Shown, IsActive

LEMMA SetPost ==
    ASSUME NEW t, Sound(t), NEW m \in Models, NEW p \in {"none", "accepted", "fetching"} \cup Kinds
    PROVE  Sound([t EXCEPT !.post[m] = p]) /\ [t EXCEPT !.post[m] = p] \in Tabs
<1> DEFINE u == [t EXCEPT !.post[m] = p]
<1>1. t \in Tabs
  BY DEF Sound, Good, Almost, Core
<1>2. u \in Tabs
  BY <1>1 DEF Tabs
<1>3. SameWork(t, u) /\ SameView(t, u)
  BY <1>2 DEF SameWork, SameNet, SameView
<1> HIDE DEF u
<1>4. Sound(u)
  BY <1>3, SoundSame
<1> QED BY <1>2, <1>4 DEF u

LEMMA FetchStatusSound ==
    ASSUME NEW t, Sound(t), NEW m \in Models, NEW post \in BOOLEAN
    PROVE  Sound(FetchStatus(t, m, post))
<1> DEFINE u == FetchStatus(t, m, post)
<1>1. t \in Tabs
  BY DEF Sound, Good, Almost, Core
<1>2. SameWork(t, u) /\ SameView(t, u)
  BY <1>1, FetchStatusFrame
<1> HIDE DEF u
<1> QED BY <1>2, SoundSame DEF u

\* A broadcast is queued.
LEMMA NewsType ==
    ASSUME ServerType, NEW m \in Models, NEW state \in Shown
    PROVE  news (+) SetToBag({[model |-> m, state |-> state]}) \in BagsOf([model : Models, state : Shown])
<1> DEFINE n == [model |-> m, state |-> state]
           N == [model : Models, state : Shown]
<1>1. n \in N
  OBVIOUS
<1>2. news \in BagsOf(N)
  BY DEF ServerType
<1> HIDE DEF n, N
<1>3. SetToBag({n}) \in BagsOf(N)
  BY <1>1, OneBag
<1>4. news (+) SetToBag({n}) \in BagsOf(N)
  BY <1>2, <1>3, BagSum
<1> QED BY <1>4 DEF n, N

LEMMA InitSound == Init => IInv
<1> SUFFICES ASSUME Init PROVE IInv
  OBVIOUS
<1>1. PICK k \in BOOLEAN : tab = FetchModels(
        [ws |-> NoSocket, sid |-> NoSocket, timer |-> FALSE, emitted |-> "disconnected",
          entry |-> [m \in Models |-> NoEntry], auths |-> EmptyBag,
          sock |-> [s \in Sockets |-> ClosedSocket],
          snap |-> [m \in Models |-> "none"], errs |-> {}, poll |-> {}, loading |-> {},
          fetches |-> EmptyBag, post |-> [m \in Models |-> "none"],
          listed |-> {}, listening |-> FALSE, online |-> TRUE, keyed |-> k], Models)
  BY DEF Init
<1> DEFINE t == [ws |-> NoSocket, sid |-> NoSocket, timer |-> FALSE, emitted |-> "disconnected",
          entry |-> [m \in Models |-> NoEntry], auths |-> EmptyBag,
          sock |-> [s \in Sockets |-> ClosedSocket],
          snap |-> [m \in Models |-> "none"], errs |-> {}, poll |-> {}, loading |-> {},
          fetches |-> EmptyBag, post |-> [m \in Models |-> "none"],
          listed |-> {}, listening |-> FALSE, online |-> TRUE, keyed |-> k]
<1>2. \A S : EmptyBag \in BagsOf(S)
  <2> TAKE S
  <2>1. SetToBag({}) \in BagsOf(S)
    BY OneBag
  <2> QED BY <2>1 DEF EmptyBag
<1>3. NoEntry \in EntryType /\ NoEntry.status = "none" /\ NoEntry.auth = FALSE
  BY DEF NoEntry, EntryType
<1>4. ClosedSocket \in SocketType /\ SocketSound(ClosedSocket)
  BY DEF ClosedSocket, SocketType, SocketSound, Frames
<1>5. t \in Tabs
  <2>1. EmptyBag \in BagsOf(AuthType) /\ EmptyBag \in BagsOf(FetchType)
    BY <1>2
  <2> QED BY <1>3, <1>4, <2>1 DEF Tabs, NoSocket, Emitted, Shown
<1>6. Entries(t) = {} /\ Busy(t) = {}
  BY <1>3 DEF Entries, Busy, IsActive
<1>7. Core(t)
  <2>1. AllSound(t) /\ AllHeard(t) /\ Promised(t)
    BY <1>3, <1>4 DEF AllSound, AllHeard, Promised
  <2>2. Owned(t)
    <3>1. DOMAIN EmptyBag = {}
      BY OneBag DEF EmptyBag
    <3> QED BY <3>1 DEF Owned
  <2> QED BY <1>5, <2>1, <2>2 DEF Core
<1>8. Joined(t) /\ Greeted(t) /\ Retrying(t)
  BY <1>6, SocketNumbers DEF Joined, Greeted, Linked, Retrying
<1>9. Sound(t)
  BY <1>6, <1>7, <1>8 DEF Sound, Good, Almost
<1>12. t.ws = NoSocket
  OBVIOUS
<1> HIDE DEF t
<1>10. Sound(FetchModels(t, Models)) /\ FetchModels(t, Models).ws # Overflow
  BY <1>6, <1>9, <1>12, FetchModelsSound, SocketNumbers
<1>11. ServerType
  <2>1. news \in BagsOf([model : Models, state : Shown])
    BY <1>2 DEF Init
  <2>2. <<>> \in Seq(Kinds)
    OBVIOUS
  <2>3. server \in [Models -> [status : Shown, jobs : Seq(Kinds)]]
    BY <2>2 DEF Init, Shown
  <2> QED BY <2>1, <2>3 DEF ServerType
<1> QED BY <1>1, <1>10, <1>11 DEF t, IInv

LEMMA UserSound == Sound(tab) /\ ServerType /\ User => Sound(tab') /\ ServerType'
<1> SUFFICES ASSUME Sound(tab), ServerType, User PROVE Sound(tab') /\ ServerType'
  OBVIOUS
<1>1. ASSUME NEW m \in Models, NEW kind \in Kinds, Request(m, kind)
      PROVE  Sound(tab') /\ UNCHANGED <<server, news>>
  BY <1>1, RequestSound DEF Request
<1>2. ASSUME Leave PROVE Sound(tab') /\ UNCHANGED <<server, news>>
  BY <1>2, ClearStatusTrackingSound DEF Leave, Sound
<1> QED BY <1>1, <1>2 DEF User, ServerType

LEMMA AcceptSound ==
    ASSUME NEW m \in Models, Sound(tab), ServerType, Accept(m)
    PROVE  Sound(tab') /\ ServerType'
<1>1. Sound(tab')
  BY SetPost DEF Accept
<1>2. CASE UNCHANGED <<server, news>>
  BY <1>1, <1>2 DEF ServerType
<1>3. CASE /\ server' = [server EXCEPT ![m].status = tab.post[m], ![m].jobs = Append(@, tab.post[m])]
           /\ news' = news (+) SetToBag({[model |-> m, state |-> tab.post[m]]})
  <2> DEFINE kind == tab.post[m]
  <2>1. kind \in Kinds /\ kind \in Shown
    BY KindsAreBusy DEF Accept
  <2> HIDE DEF kind
  <2>2. news' \in BagsOf([model : Models, state : Shown])
    BY <1>3, <2>1, NewsType DEF kind
  <2>3. server[m] \in [status : Shown, jobs : Seq(Kinds)]
    BY DEF ServerType
  <2>4. Append(server[m].jobs, kind) \in Seq(Kinds)
    BY <2>1, <2>3
  <2>5. server' \in [Models -> [status : Shown, jobs : Seq(Kinds)]]
    BY <1>3, <2>1, <2>3, <2>4 DEF ServerType, kind
  <2> QED BY <1>1, <2>2, <2>5 DEF ServerType
<1> QED BY <1>2, <1>3 DEF Accept

LEMMA StatusReadSound ==
    ASSUME NEW f \in DOMAIN tab.fetches, Sound(tab), ServerType, StatusRead(f)
    PROVE  Sound(tab') /\ ServerType'
<1> DEFINE h == [f EXCEPT !.answer = server[f.model].status]
           b == (tab.fetches (-) SetToBag({f})) (+) SetToBag({h})
           u == [tab EXCEPT !.fetches = b]
<1>1. tab \in Tabs /\ tab.fetches \in BagsOf(FetchType)
  BY DEF Sound, Good, Almost, Core, Tabs
<1>2. f \in FetchType
  BY <1>1, BagFacts
<1>3. h \in FetchType
  <2>1. server[f.model].status \in Shown
    BY <1>2 DEF ServerType, FetchType
  <2> QED BY <1>2, <2>1 DEF FetchType
<1> HIDE DEF h
<1>4. b \in BagsOf(FetchType)
  <2>1. tab.fetches (-) SetToBag({f}) \in BagsOf(FetchType) /\ SetToBag({h}) \in BagsOf(FetchType)
    BY <1>1, <1>3, BagTake, OneBag
  <2> QED BY <2>1, BagSum
<1>5. tab' = u
  BY <1>1 DEF StatusRead, h, Tabs
<1> HIDE DEF b
<1>6. SameWork(tab, u) /\ SameView(tab, u)
  BY <1>1, <1>4 DEF SameWork, SameNet, SameView, Tabs
<1> HIDE DEF u
<1>7. Sound(u)
  BY <1>6, SoundSame
<1> QED BY <1>5, <1>7 DEF StatusRead, ServerType

LEMMA ApiSound == Sound(tab) /\ ServerType /\ Api => Sound(tab') /\ ServerType'
<1> SUFFICES ASSUME Sound(tab), ServerType, Api PROVE Sound(tab') /\ ServerType'
  OBVIOUS
<1>1. ASSUME NEW m \in Models, Accepted(m) PROVE Sound(tab') /\ UNCHANGED <<server, news>>
  <2> DEFINE v == [tab EXCEPT !.post[m] = "fetching"]
  <2>1. Sound(v)
    BY SetPost
  <2> HIDE DEF v
  <2>2. Sound(FetchStatus(v, m, TRUE))
    BY <2>1, FetchStatusSound
  <2> QED BY <1>1, <2>2 DEF Accepted, v
<1>2. ASSUME NEW m \in Models, PostFails(m) PROVE Sound(tab') /\ UNCHANGED <<server, news>>
  BY <1>2, SetPost DEF PostFails
<1>3. ASSUME NEW m \in Models, PollTick(m) PROVE Sound(tab') /\ UNCHANGED <<server, news>>
  BY <1>3, FetchStatusSound DEF PollTick
<1>4. \A f \in DOMAIN tab.fetches : f \in FetchType
  <2>1. tab.fetches \in BagsOf(FetchType)
    BY DEF Sound, Good, Almost, Core, Tabs
  <2> QED BY <2>1, BagFacts
<1>5. ASSUME NEW f \in DOMAIN tab.fetches, StatusArrives(f) PROVE Sound(tab') /\ UNCHANGED <<server, news>>
  BY <1>4, <1>5, ShowStatusSound DEF StatusArrives
<1>6. ASSUME NEW f \in DOMAIN tab.fetches, StatusFails(f) PROVE Sound(tab') /\ UNCHANGED <<server, news>>
  BY <1>4, <1>6, ShowStatusErrorSound DEF StatusFails
<1>7. ASSUME NEW listed \in SUBSET Models, ListArrives(listed)
      PROVE  Sound(tab') /\ UNCHANGED <<server, news>>
  BY <1>7, FetchModelsSound DEF ListArrives
<1>8. ASSUME ListFails PROVE Sound(tab') /\ UNCHANGED <<server, news>>
  <2> DEFINE v == [tab EXCEPT !.listed = {}]
  <2>1. tab \in Tabs
    BY DEF Sound, Good, Almost, Core
  <2>2. SameWork(tab, v)
    BY <2>1 DEF SameWork, SameNet, Tabs
  <2> HIDE DEF v
  <2>3. Good(v, Models)
    BY <2>2, SameWorkGood DEF Sound
  <2>4. Sound(ClearStatusTracking(v))
    BY <2>3, ClearStatusTrackingSound
  <2> QED BY <1>8, <2>4 DEF ListFails, v
<1> QED BY <1>1, <1>2, <1>3, <1>5, <1>6, <1>7, <1>8, AcceptSound, StatusReadSound DEF Api, BagToSet, ServerType

LEMMA ServerSound == Sound(tab) /\ ServerType /\ Server => Sound(tab') /\ ServerType'
<1> SUFFICES ASSUME Sound(tab), ServerType, Server PROVE Sound(tab') /\ ServerType'
  OBVIOUS
<1>1. ASSUME NEW m \in Models, JobEnds(m) PROVE Sound(tab') /\ ServerType'
  <2>1. news' \in BagsOf([model : Models, state : Shown])
    <3>1. "idle" \in Shown
      BY DEF Shown
    <3> QED BY <1>1, <3>1, NewsType DEF JobEnds
  <2>2. server[m] \in [status : Shown, jobs : Seq(Kinds)]
    BY DEF ServerType
  <2>3. Tail(server[m].jobs) \in Seq(Kinds)
    BY <1>1, <2>2 DEF JobEnds
  <2>4. server' \in [Models -> [status : Shown, jobs : Seq(Kinds)]]
    BY <1>1, <2>3 DEF JobEnds, ServerType, Shown
  <2> QED BY <1>1, <2>1, <2>4 DEF JobEnds, ServerType
<1>2. ASSUME NEW n \in DOMAIN news, Broadcast(n) PROVE Sound(tab') /\ ServerType'
  <2>1. news \in BagsOf([model : Models, state : Shown])
    BY DEF ServerType
  <2>2. n \in [model : Models, state : Shown]
    BY <2>1, BagFacts
  <2>3. Sound(OnEvent(tab, n.model, n.state))
    BY <2>2, OnEventSound
  <2>4. news' \in BagsOf([model : Models, state : Shown]) /\ server' = server
    BY <1>2, <2>1, BagTake DEF Broadcast
  <2>5. Sound(tab')
    BY <1>2, <2>3 DEF Broadcast
  <2> QED BY <2>4, <2>5 DEF ServerType
<1> QED BY <1>1, <1>2 DEF Server, BagToSet

\* A retry timer that outlives its entry has nothing to do.
LEMMA IdleRetryGood ==
    ASSUME NEW t, NEW X, NEW c \in Models \ Entries(t), Good(t, X)
    PROVE  Good(RetryTimer(t, c), X) /\ Keeps(t, RetryTimer(t, c))
<1> DEFINE u == [t EXCEPT !.entry[c].retry = FALSE]
<1>1. t \in Tabs /\ t.entry[c] \in EntryType /\ t.entry[c].status = "none"
  BY DEF Good, Almost, Core, Tabs, Entries
<1>2. EntryMoved(t, u, c) /\ u.entry[c] = [t.entry[c] EXCEPT !.retry = FALSE]
  BY <1>1, SetRetry
<1>3. u.entry[c].status = "none" /\ u.entry[c].auth = t.entry[c].auth
  BY <1>1, <1>2 DEF EntryType
<1>4. RetryTimer(t, c) = u
  <2> HIDE DEF u
  <2>1. RetryTimer(t, c) = RequestSubscribe(u, c)
    BY DEF RetryTimer, u
  <2> QED BY <1>3, <2>1 DEF RequestSubscribe
<1> HIDE DEF u
<1>5. Entries(u) = Entries(t)
  BY <1>1, <1>2, <1>3 DEF EntryMoved, Entries
<1>6. Keeps(t, u)
  BY <1>2, <1>5 DEF EntryMoved, Keeps, Watching
<1>7. Core(u)
  <2>1. u \in Tabs /\ AllSound(u) /\ Owned(u)
    BY <1>2, <1>5 DEF EntryMoved, SameNet, Good, Almost, Core, AllSound, Owned
  <2>2. \A m \in Models : /\ u.entry[m].status = "subscribed" => t.entry[m].status = "subscribed"
                          /\ u.entry[m].auth = t.entry[m].auth
    BY <1>1, <1>2, <1>3 DEF EntryMoved
  <2>3. u.sock = t.sock /\ u.auths = t.auths /\ AllHeard(t) /\ Promised(t)
    BY <1>2 DEF EntryMoved, SameNet, Good, Almost, Core
  <2>4. AllHeard(u)
    BY <2>2, <2>3 DEF AllHeard, HeardOn
  <2>5. Promised(u)
    BY <2>2, <2>3 DEF Promised
  <2> QED BY <2>1, <2>4, <2>5 DEF Core
<1>8. Joined(u) /\ Greeted(u) /\ Retrying(u)
  BY <1>2, <1>5 DEF EntryMoved, SameNet, Good, Almost, Joined, Greeted, Linked, Retrying
<1>9. \A m \in Entries(u) \cap X : Moving(u, m)
  <2> TAKE m \in Entries(u) \cap X
  <2>1. Moving(t, m) /\ u.entry[m] = t.entry[m]
    BY <1>2, <1>5 DEF EntryMoved, Good, Almost, Entries
  <2> QED BY <1>2, <2>1 DEF EntryMoved, SameNet, Moving, Linked, Answering
<1> QED BY <1>4, <1>6, <1>7, <1>8, <1>9 DEF Good, Almost

LEMMA ConnectionSound == Sound(tab) /\ ServerType /\ Connection => Sound(tab') /\ ServerType'
<1> SUFFICES ASSUME Sound(tab), ServerType, Connection PROVE Sound(tab') /\ ServerType'
  OBVIOUS
<1>1. ASSUME NEW s \in Sockets, Opens(s) PROVE Sound(tab') /\ UNCHANGED <<server, news>>
  BY <1>1, OpensSound DEF Opens
<1>2. ASSUME NEW s \in Sockets, ConnectFails(s) PROVE Sound(tab') /\ UNCHANGED <<server, news>>
  BY <1>2, ConnectFailsSound DEF ConnectFails
<1>3. ASSUME NEW s \in Sockets, Cut(s) PROVE Sound(tab') /\ UNCHANGED <<server, news>>
  BY <1>3, CutSound DEF Cut
<1>4. ASSUME NEW s \in Sockets, CloseEvent(s) PROVE Sound(tab') /\ UNCHANGED <<server, news>>
  BY <1>4, CloseEventSound DEF CloseEvent
<1>5. ASSUME NEW s \in Sockets, Receive(s) PROVE Sound(tab') /\ UNCHANGED <<server, news>>
  <2> DEFINE u == HandleMessage([tab EXCEPT !.sock[s].inbox = Tail(@)], s, Head(tab.sock[s].inbox))
  <2>1. Good(u, Models) /\ Grows(tab, u, Busy(tab))
    BY <1>5, ReceiveGood DEF Receive, Sound
  <2>2. tab' = u
    BY <1>5 DEF Receive
  <2> HIDE DEF u
  <2> QED BY <1>5, <2>1, <2>2, SoundGrows DEF Receive
<1>6. ASSUME NEW a \in DOMAIN tab.auths, AuthSucceeds(a) PROVE Sound(tab') /\ UNCHANGED <<server, news>>
  <2>1. PICK reply \in {"rejected", "error"} : tab' = Authorised(tab, a, reply)
    BY <1>6 DEF AuthSucceeds
  <2> DEFINE u == Authorised(tab, a, reply)
  <2>2. Good(u, Models) /\ Keeps(tab, u)
    BY AuthorisedGood DEF Sound
  <2> HIDE DEF u
  <2>3. Sound(u)
    BY <2>2, SoundKeeps
  <2> QED BY <1>6, <2>1, <2>3 DEF AuthSucceeds, u
<1>7. ASSUME NEW a \in DOMAIN tab.auths, AuthFails(a) PROVE Sound(tab') /\ UNCHANGED <<server, news>>
  <2> DEFINE u == Unauthorised(tab, a)
  <2>1. Good(u, Models) /\ Keeps(tab, u)
    BY UnauthorisedGood DEF Sound
  <2> HIDE DEF u
  <2>2. Sound(u)
    BY <2>1, SoundKeeps
  <2> QED BY <1>7, <2>2 DEF AuthFails, u
<1>8. ASSUME ReconnectTimerFires PROVE Sound(tab') /\ UNCHANGED <<server, news>>
  <2> DEFINE u == ReconnectTimer(tab)
  <2>1. Good(u, Models) /\ Keeps(tab, u)
    BY ReconnectTimerGood DEF Sound
  <2> HIDE DEF u
  <2>2. Sound(u)
    BY <2>1, SoundKeeps
  <2> QED BY <1>8, <2>2 DEF ReconnectTimerFires, u
<1>9. ASSUME NEW m \in Models, RetryTimerFires(m) PROVE Sound(tab') /\ UNCHANGED <<server, news>>
  <2> DEFINE u == RetryTimer(tab, m)
  <2>1. Good(u, Models) /\ Keeps(tab, u)
    BY RetryTimerGood, IdleRetryGood DEF Sound
  <2> HIDE DEF u
  <2>2. Sound(u)
    BY <2>1, SoundKeeps
  <2> QED BY <1>9, <2>2 DEF RetryTimerFires, u
<1>10. ASSUME GoOffline PROVE Sound(tab') /\ UNCHANGED <<server, news>>
  BY <1>10, OnlineSound DEF GoOffline
<1>11. ASSUME GoOnline PROVE Sound(tab') /\ UNCHANGED <<server, news>>
  BY <1>11, OnlineSound DEF GoOnline
<1> QED BY <1>1, <1>2, <1>3, <1>4, <1>5, <1>6, <1>7, <1>8, <1>9, <1>10, <1>11 DEF Connection, BagToSet, ServerType

LEMMA Invariance == Spec => []IInv
<1>1. IInv /\ [Next]_vars => IInv'
  <2> SUFFICES ASSUME IInv, [Next]_vars PROVE IInv'
    OBVIOUS
  <2>1. CASE Next
    <3>1. tab'.ws # Overflow
      BY <2>1 DEF Next, Within
    <3>2. Sound(tab') /\ ServerType'
      BY <2>1, UserSound, ApiSound, ServerSound, ConnectionSound DEF IInv, Next
    <3> QED BY <3>1, <3>2 DEF IInv
  <2>2. CASE UNCHANGED vars
    BY <2>2 DEF IInv, ServerType, vars
  <2> QED BY <2>1, <2>2
<1> QED BY <1>1, InitSound, PTL DEF Spec

\* Every channel the tab takes for subscribed (broadcast.js: 'subscribed') is one the
\* server has confirmed on a live socket, unless the connection is gone and the close
\* event still to come, or the confirmation crossed the frame that left the channel.
THEOREM SubscribedIsHeardAlways == Spec => []SubscribedIsHeard
<1>1. IInv => SubscribedIsHeard
  <2> SUFFICES ASSUME IInv, NEW m \in Models, tab.entry[m].status = "subscribed"
               PROVE  \E s \in Sockets :
                          \/ tab.sock[s].state = "cut"
                          \/ tab.sock[s].state = "open" /\ m \in tab.sock[s].subs \cup tab.sock[s].crossed
    BY DEF SubscribedIsHeard
  <2>1. PICK s \in Sockets : tab.sock[s].state = "cut" \/ m \in Confirmed(tab.sock[s])
    BY DEF IInv, Sound, Good, Almost, Core, AllHeard, HeardOn
  <2>2. SocketSound(tab.sock[s])
    BY DEF IInv, Sound, Good, Almost, Core, AllSound
  <2> QED BY <2>1, <2>2 DEF SocketSound, Confirmed
<1> QED BY <1>1, Invariance, PTL

\* No subscription of broadcast.js is stuck: whatever order the close events, answers
\* and timers come in, something under way moves it on, or its model is polled.
THEOREM NoSubscriptionIsStuck == Spec => []SubscriptionsProgress
<1>1. IInv => SubscriptionsProgress
  <2> SUFFICES ASSUME IInv, NEW m \in Entries(tab)
               PROVE  Progressing(m) \/ (tab.entry[m].status = "error" /\ m \in tab.poll)
    BY DEF SubscriptionsProgress
  <2>1. m \in Models /\ Moving(tab, m) /\ Joined(tab) /\ Retrying(tab) /\ tab.ws # Overflow
    BY DEF IInv, Sound, Good, Almost, Entries
  <2>2. CASE tab.ws = NoSocket
    BY <2>1, <2>2 DEF Retrying, Progressing
  <2>3. CASE tab.ws \in Sockets
    <3>1. tab.ws # NoSocket
      BY <2>3, SocketNumbers
    <3>2. CASE tab.sock[tab.ws].state \in {"connecting", "cut"}
      BY <3>1, <3>2 DEF Progressing
    <3>3. CASE tab.sock[tab.ws].state = "open"
      <4>1. Linked(tab)
        BY <2>3, <3>3 DEF Linked
      <4>2. Answering(tab, m) => tab.sock[tab.ws].inbox # <<>>
        BY DEF Answering, Frames
      <4> QED BY <2>1, <3>1, <4>1, <4>2 DEF Moving, Progressing, BagToSet
    <3> QED BY <2>1, <2>3, <3>2, <3>3 DEF Joined
  <2> QED BY <2>1, <2>2, <2>3 DEF Joined
<1> QED BY <1>1, Invariance, PTL

\* A model shown as busy is polled or holds a channel, after every step of the store
\* (stores/model.js) and of the client: neither hands over to a mechanism that is gone.
THEOREM BusyIsWatched == Spec => []Watched
<1>1. IInv => Watched
  BY DEF IInv, Sound, Watched, Watching
<1> QED BY <1>1, Invariance, PTL

\* Only models shown as busy hold a channel, so the store leaks no subscription.
THEOREM ChannelsAreGivenBack == Spec => []TrackedIsBusy
<1>1. IInv => TrackedIsBusy
  BY DEF IInv, Sound, TrackedIsBusy
<1> QED BY <1>1, Invariance, PTL
=============================================================================
