--------------------------- MODULE BrowserProofs ---------------------------
(***************************************************************************)
(* Three parts of the browser, for every value of their constants: the     *)
(* queue of tile requests, the session tokens and the submissions of the   *)
(* prediction page.                                                        *)
(*                                                                         *)
(* Tiles: a slot is free only when nothing waits, so that one step of the  *)
(* scheduler frees and fills at most one of them. WorkInv adds that no     *)
(* request waits twice and what the sets of the layer and of the queue     *)
(* have in common.                                                         *)
(*                                                                         *)
(* Tokens: the cookie that the tabs share names a live session. A pair of  *)
(* tokens goes to the cookie with the answer of a refresh or of a login.   *)
(* Until then nobody else can know it, so that nobody can revoke it: a     *)
(* pending session is live, and no cookie, token or request names it. That *)
(* is what SessionInv adds.                                                *)
(*                                                                         *)
(* Predictions: only a submission that has its POST answered is ever held  *)
(* by the poll controller or aborted; PageInv adds that to LoadingIsWork.  *)
(***************************************************************************)
EXTENDS PredictionPage, TileScheduler, SessionTokens,
        SequenceTheorems, FiniteSetTheorems, TLAPS

-----------------------------------------------------------------------------
(* The queue of tile requests *)

Distinct(q) == \A i, j \in 1 .. Len(q) : q[i] = q[j] => i = j

\* Each request is in one place, and is aborted only while it runs.
OnePlace ==
    /\ IsFiniteSet(running)
    /\ Distinct(queue)
    /\ Queued \cap running = {}
    /\ cancelled \subseteq running

\* The layer can abort what waits or runs, and has its tiles or is about to abort it.
Wanted ==
    /\ Queued \cup (running \ cancelled) = controllers
    /\ doomed \subseteq controllers
    /\ controllers \subseteq canvases \cup doomed
    /\ ~onMap => canvases = {}

WorkInv == TileTypeOK /\ SlotsAreUsed /\ OnePlace /\ Wanted

-----------------------------------------------------------------------------
(* Sequences of requests *)

LEMMA NonEmptyLen ==
    ASSUME NEW q \in Seq(Tiles), q # <<>>
    PROVE  Len(q) \in Nat \ {0}
BY EmptySeq

\* Appending a request that is not there yet.
LEMMA AppendElements ==
    ASSUME NEW q \in Seq(Tiles), Distinct(q), NEW t \in Tiles, t \notin Elements(q)
    PROVE  /\ Append(q, t) \in Seq(Tiles)
           /\ Append(q, t) # <<>>
           /\ Distinct(Append(q, t))
           /\ Elements(Append(q, t)) = Elements(q) \cup {t}
<1> DEFINE r == Append(q, t)
<1>1. /\ r \in Seq(Tiles) /\ r # <<>> /\ Len(r) = Len(q) + 1
      /\ \A i \in 1 .. Len(q) : r[i] = q[i]
      /\ r[Len(q) + 1] = t
  BY AppendProperties
<1>2. Len(q) \in Nat
  OBVIOUS
<1> HIDE DEF r
<1>3. Distinct(r)
  BY <1>1, <1>2 DEF Distinct, Elements
<1>4. Elements(r) \subseteq Elements(q) \cup {t}
  <2> SUFFICES ASSUME NEW i \in 1 .. Len(r) PROVE r[i] \in Elements(q) \cup {t}
    BY DEF Elements
  <2>1. i \in 1 .. Len(q) \/ i = Len(q) + 1
    BY <1>1, <1>2
  <2> QED BY <2>1, <1>1 DEF Elements
<1>5. Elements(q) \cup {t} \subseteq Elements(r)
  <2>1. \A i \in 1 .. Len(q) : i \in 1 .. Len(r)
    BY <1>1, <1>2
  <2>2. Len(q) + 1 \in 1 .. Len(r)
    BY <1>1, <1>2
  <2> QED BY <2>1, <2>2, <1>1 DEF Elements
<1> QED BY <1>1, <1>3, <1>4, <1>5 DEF r

\* What is left of the queue when its oldest request has begun.
LEMMA TailElements ==
    ASSUME NEW q \in Seq(Tiles), q # <<>>, Distinct(q)
    PROVE  /\ SubSeq(q, 2, Len(q)) \in Seq(Tiles)
           /\ Distinct(SubSeq(q, 2, Len(q)))
           /\ q[1] \in Elements(q)
           /\ Elements(SubSeq(q, 2, Len(q))) = Elements(q) \ {q[1]}
<1> DEFINE r == SubSeq(q, 2, Len(q))
<1>1. /\ r = Tail(q) /\ r \in Seq(Tiles) /\ Len(r) = Len(q) - 1
      /\ \A i \in 1 .. Len(r) : r[i] = q[i + 1]
  BY HeadTailProperties, TailIsSubSeq
<1>2. Len(q) \in Nat \ {0}
  BY NonEmptyLen
<1> HIDE DEF r
<1>3. 1 \in 1 .. Len(q)
  BY <1>2
<1>4. \A i \in 1 .. Len(r) : i + 1 \in 1 .. Len(q) /\ i + 1 # 1
  BY <1>1, <1>2
<1>5. Distinct(r)
  <2> SUFFICES ASSUME NEW i \in 1 .. Len(r), NEW j \in 1 .. Len(r), r[i] = r[j] PROVE i = j
    BY DEF Distinct
  <2>1. i + 1 = j + 1
    BY <1>1, <1>4 DEF Distinct
  <2> QED BY <2>1
<1>6. Elements(r) \subseteq Elements(q) \ {q[1]}
  BY <1>1, <1>3, <1>4 DEF Elements, Distinct
<1>7. Elements(q) \ {q[1]} \subseteq Elements(r)
  <2> SUFFICES ASSUME NEW i \in 1 .. Len(q), i # 1 PROVE q[i] \in Elements(r)
    BY DEF Elements
  <2>1. i - 1 \in 1 .. Len(r) /\ (i - 1) + 1 = i
    BY <1>1, <1>2
  <2> QED BY <2>1, <1>1 DEF Elements
<1> QED BY <1>1, <1>3, <1>5, <1>6, <1>7 DEF r, Elements

\* What is left of the queue when one of its requests is rejected.
LEMMA RemoveElements ==
    ASSUME NEW q \in Seq(Tiles), Distinct(q), NEW k \in 1 .. Len(q)
    PROVE  /\ RemoveAt(q, k) \in Seq(Tiles)
           /\ Distinct(RemoveAt(q, k))
           /\ Elements(RemoveAt(q, k)) = Elements(q) \ {q[k]}
<1> DEFINE a == SubSeq(q, 1, k - 1)
           b == SubSeq(q, k + 1, Len(q))
           r == a \o b
<1>1. Len(q) \in Nat /\ k \in Nat /\ \A i \in 1 .. Len(q) : q[i] \in Tiles
  BY ElementOfSeq
<1>2. /\ a \in Seq(Tiles) /\ Len(a) = k - 1
      /\ \A i \in 1 .. k - 1 : a[i] = q[i]
  <2>1. \A i \in 1 .. k - 1 : q[i] \in Tiles
    BY <1>1
  <2>2. /\ a \in Seq(Tiles) /\ Len(a) = IF 1 <= k - 1 THEN (k - 1) - 1 + 1 ELSE 0
        /\ \A i \in 1 .. (k - 1) - 1 + 1 : a[i] = q[1 + i - 1]
    BY <2>1, <1>1, SubSeqProperties
  <2> QED BY <2>2, <1>1
<1>3. /\ b \in Seq(Tiles) /\ Len(b) = Len(q) - k
      /\ \A i \in 1 .. Len(q) - k : b[i] = q[k + i]
  <2>1. \A i \in k + 1 .. Len(q) : q[i] \in Tiles
    BY <1>1
  <2>2. /\ b \in Seq(Tiles) /\ Len(b) = IF k + 1 <= Len(q) THEN Len(q) - (k + 1) + 1 ELSE 0
        /\ \A i \in 1 .. Len(q) - (k + 1) + 1 : b[i] = q[(k + 1) + i - 1]
    BY <2>1, <1>1, SubSeqProperties
  <2> QED BY <2>2, <1>1
<1> HIDE DEF a, b
<1>4. /\ r \in Seq(Tiles) /\ Len(r) = Len(a) + Len(b)
      /\ \A i \in 1 .. Len(a) + Len(b) : r[i] = IF i <= Len(a) THEN a[i] ELSE b[i - Len(a)]
  BY <1>2, <1>3, ConcatProperties
<1> HIDE DEF r
<1>5. Len(r) = Len(q) - 1
  BY <1>1, <1>2, <1>3, <1>4
<1>6. \A i \in 1 .. Len(r) : r[i] = IF i < k THEN q[i] ELSE q[i + 1]
  <2> SUFFICES ASSUME NEW i \in 1 .. Len(r) PROVE r[i] = IF i < k THEN q[i] ELSE q[i + 1]
    OBVIOUS
  <2>1. CASE i < k
    BY <2>1, <1>1, <1>2, <1>3, <1>4, <1>5
  <2>2. CASE ~(i < k)
    <3>1. i - (k - 1) \in 1 .. Len(q) - k /\ k + (i - (k - 1)) = i + 1
      BY <2>2, <1>1, <1>5
    <3>2. r[i] = b[i - (k - 1)]
      BY <2>2, <1>1, <1>2, <1>3, <1>4, <1>5
    <3> QED BY <2>2, <3>1, <3>2, <1>3
  <2> QED BY <2>1, <2>2
<1>7. Distinct(r)
  <2> SUFFICES ASSUME NEW i \in 1 .. Len(r), NEW j \in 1 .. Len(r), r[i] = r[j] PROVE i = j
    BY DEF Distinct
  <2>1. /\ i \in 1 .. Len(q) /\ i + 1 \in 1 .. Len(q)
        /\ j \in 1 .. Len(q) /\ j + 1 \in 1 .. Len(q)
    BY <1>1, <1>5
  <2>2. (IF i < k THEN i ELSE i + 1) = (IF j < k THEN j ELSE j + 1)
    BY <2>1, <1>6 DEF Distinct
  <2> QED BY <2>1, <2>2, <1>1
<1>8. Elements(r) \subseteq Elements(q) \ {q[k]}
  <2> SUFFICES ASSUME NEW i \in 1 .. Len(r) PROVE r[i] \in Elements(q) /\ r[i] # q[k]
    BY DEF Elements
  <2>1. i \in 1 .. Len(q) /\ i + 1 \in 1 .. Len(q)
    BY <1>1, <1>5
  <2>2. CASE i < k
    BY <2>1, <2>2, <1>1, <1>6 DEF Elements, Distinct
  <2>3. CASE ~(i < k)
    <3>1. r[i] = q[i + 1] /\ i + 1 # k
      BY <2>1, <2>3, <1>1, <1>6
    <3> QED BY <3>1, <2>1 DEF Elements, Distinct
  <2> QED BY <2>2, <2>3
<1>9. Elements(q) \ {q[k]} \subseteq Elements(r)
  <2> SUFFICES ASSUME NEW i \in 1 .. Len(q), i # k PROVE q[i] \in Elements(r)
    BY DEF Elements
  <2>1. CASE i < k
    <3>1. i \in 1 .. Len(r) /\ r[i] = q[i]
      BY <2>1, <1>1, <1>5, <1>6
    <3> QED BY <3>1 DEF Elements
  <2>2. CASE ~(i < k)
    <3>1. i - 1 \in 1 .. Len(r) /\ ~(i - 1 < k) /\ (i - 1) + 1 = i
      BY <2>2, <1>1, <1>5
    <3>2. r[i - 1] = q[i]
      BY <3>1, <1>6
    <3> QED BY <3>1, <3>2 DEF Elements
  <2> QED BY <2>1, <2>2
<1>10. RemoveAt(q, k) = r
  BY DEF RemoveAt, r, a, b
<1> QED BY <1>4, <1>7, <1>8, <1>9, <1>10

-----------------------------------------------------------------------------
(* The loop of processTileQueue *)

\* Nothing waits, or every slot is taken: nothing begins.
LEMMA ProcessNothing ==
    ASSUME NEW q \in Seq(Tiles), NEW r, NEW a \in Nat, a <= MaxConcurrent,
           q = <<>> \/ a = MaxConcurrent, Process(q, r, a)
    PROVE  queue' = q /\ running' = r /\ active' = a
<1> DEFINE n == IF Len(q) <= MaxConcurrent - a THEN Len(q) ELSE MaxConcurrent - a
<1>1. n = 0
  <2>1. Len(q) \in Nat /\ (q = <<>> => Len(q) = 0)
    BY EmptySeq
  <2> QED BY <2>1, MaxConcurrentAssumption
<1>2. queue' = SubSeq(q, 1, Len(q)) /\ running' = r \cup {q[i] : i \in 1 .. 0} /\ active' = a
  BY <1>1 DEF Process
<1>3. SubSeq(q, 1, Len(q)) = q
  BY SubSeqFull
<1> QED BY <1>2, <1>3

LEMMA OneSlot ==
    ASSUME NEW l \in Nat \ {0}, NEW a \in Nat, NEW slots \in Nat, a < slots,
           l = 1 \/ a + 1 = slots
    PROVE  (IF l <= slots - a THEN l ELSE slots - a) = 1
OBVIOUS

\* A slot is free for the only request that waits, or the only free slot is for the
\* oldest of them: that one begins.
LEMMA ProcessOldest ==
    ASSUME NEW q \in Seq(Tiles), q # <<>>, NEW r, NEW a \in Nat, a < MaxConcurrent,
           Len(q) = 1 \/ a + 1 = MaxConcurrent, Process(q, r, a)
    PROVE  /\ queue' = SubSeq(q, 2, Len(q))
           /\ running' = r \cup {q[1]}
           /\ active' = a + 1
<1> DEFINE n == IF Len(q) <= MaxConcurrent - a THEN Len(q) ELSE MaxConcurrent - a
<1>1. n = 1
  <2>1. Len(q) \in Nat \ {0}
    BY NonEmptyLen
  <2> QED BY <2>1, OneSlot, MaxConcurrentAssumption
<1>2. /\ queue' = SubSeq(q, n + 1, Len(q))
      /\ running' = r \cup {q[i] : i \in 1 .. n}
      /\ active' = a + n
  BY DEF Process
<1> HIDE DEF n
<1>3. queue' = SubSeq(q, 2, Len(q)) /\ active' = a + 1
  BY <1>1, <1>2
<1>4. {q[i] : i \in 1 .. n} = {q[1]}
  BY <1>1
<1> QED BY <1>2, <1>3, <1>4

-----------------------------------------------------------------------------
(* The steps *)

LEMMA InitWork == TileInit => WorkInv
<1> SUFFICES ASSUME TileInit PROVE WorkInv
  OBVIOUS
<1> USE DEF TileInit
<1>1. Len(queue) = 0 /\ Queued = {} /\ IsFiniteSet(running) /\ Cardinality(running) = 0
  BY FS_EmptySet DEF Queued, Elements
<1>2. TileTypeOK
  BY DEF TileTypeOK
<1>3. SlotsAreUsed
  BY <1>1, MaxConcurrentAssumption DEF SlotsAreUsed
<1>4. OnePlace
  BY <1>1 DEF OnePlace, Distinct
<1>5. Wanted
  BY <1>1 DEF Wanted
<1> QED BY <1>2, <1>3, <1>4, <1>5 DEF WorkInv

LEMMA CreateTileWork ==
    ASSUME WorkInv, NEW t \in Tiles, CreateTile(t)
    PROVE  WorkInv'
<1> DEFINE q == Append(queue, t)
<1>1. /\ TileTypeOK /\ SlotsAreUsed /\ OnePlace /\ Wanted
      /\ queue \in Seq(Tiles) /\ active \in Nat /\ active <= MaxConcurrent
  BY DEF WorkInv, TileTypeOK, SlotsAreUsed
<1>2. /\ onMap /\ doomed = {} /\ t \notin canvases \cup running \cup Queued
      /\ canvases' = canvases \cup {t} /\ controllers' = controllers \cup {t}
      /\ Process(q, running, active)
      /\ UNCHANGED <<cancelled, doomed, onMap, heat, points, mounted>>
  BY DEF CreateTile, displayVars
<1>3. /\ q \in Seq(Tiles) /\ q # <<>> /\ Distinct(q) /\ Elements(q) = Queued \cup {t}
  BY <1>1, <1>2, AppendElements DEF OnePlace, Queued
<1>4. CASE active = MaxConcurrent
  <2>1. queue' = q /\ running' = running /\ active' = active
    BY <1>1, <1>2, <1>3, <1>4, ProcessNothing
  <2> HIDE DEF q
  <2>2. Queued' = Queued \cup {t}
    BY <2>1, <1>3 DEF Queued
  <2>3. TileTypeOK'
    BY <1>1, <1>2, <1>3, <2>1 DEF TileTypeOK
  <2>4. SlotsAreUsed'
    BY <1>1, <1>4, <2>1 DEF SlotsAreUsed
  <2>5. OnePlace'
    BY <1>1, <1>2, <1>3, <2>1, <2>2 DEF OnePlace, Distinct
  <2>6. Wanted'
    BY <1>1, <1>2, <2>1, <2>2 DEF Wanted, OnePlace
  <2> QED BY <2>3, <2>4, <2>5, <2>6 DEF WorkInv
<1>5. CASE active # MaxConcurrent
  <2>1. queue = <<>> /\ active < MaxConcurrent
    BY <1>1, <1>5, MaxConcurrentAssumption DEF SlotsAreUsed
  <2>2. Queued = {} /\ Len(q) = 1 /\ q[1] = t
    BY <2>1 DEF Queued, Elements
  <2> HIDE DEF q
  <2>3. queue' = SubSeq(q, 2, Len(q)) /\ running' = running \cup {q[1]} /\ active' = active + 1
    BY <1>1, <1>2, <1>3, <2>1, <2>2, ProcessOldest
  <2>4. queue' = <<>>
    BY <2>2, <2>3, SubSeqEmpty
  <2>5. Queued' = {} /\ Len(queue') = 0
    BY <2>4 DEF Queued, Elements
  <2>6. IsFiniteSet(running') /\ Cardinality(running') = Cardinality(running) + 1
    BY <1>1, <1>2, <2>2, <2>3, FS_AddElement DEF OnePlace
  <2>7. TileTypeOK'
    BY <1>1, <1>2, <2>2, <2>3, <2>4 DEF TileTypeOK
  <2>8. SlotsAreUsed'
    BY <1>1, <2>1, <2>3, <2>4, <2>6, MaxConcurrentAssumption DEF SlotsAreUsed
  <2>9. OnePlace'
    BY <1>1, <1>2, <2>3, <2>5, <2>6 DEF OnePlace, Distinct
  <2>10. Wanted'
    BY <1>1, <1>2, <2>2, <2>3, <2>5 DEF Wanted, OnePlace
  <2> QED BY <2>7, <2>8, <2>9, <2>10 DEF WorkInv
<1> QED BY <1>4, <1>5

LEMMA TaskEndsWork ==
    ASSUME WorkInv, NEW t \in Tiles, TaskEnds(t)
    PROVE  WorkInv'
<1> DEFINE r == running \ {t}
<1>1. /\ TileTypeOK /\ SlotsAreUsed /\ OnePlace /\ Wanted
      /\ queue \in Seq(Tiles) /\ active \in Nat /\ active <= MaxConcurrent
      /\ active = Cardinality(running)
  BY DEF WorkInv, TileTypeOK, SlotsAreUsed
<1>2. /\ t \in running /\ doomed = {}
      /\ controllers' = controllers \ {t} /\ cancelled' = cancelled \ {t}
      /\ Process(queue, r, active - 1)
      /\ UNCHANGED <<doomed, canvases, onMap, heat, points, mounted>>
  BY DEF TaskEnds, displayVars
<1>3. IsFiniteSet(r) /\ Cardinality(r) = active - 1
  BY <1>1, <1>2, FS_RemoveElement DEF OnePlace
<1>4. active - 1 \in Nat /\ active - 1 <= MaxConcurrent
  BY <1>1, <1>3, FS_CardinalityType, MaxConcurrentAssumption
<1>5. t \notin Queued
  BY <1>1, <1>2 DEF OnePlace
<1>6. CASE queue = <<>>
  <2>1. queue' = queue /\ running' = r /\ active' = active - 1
    BY <1>1, <1>2, <1>4, <1>6, ProcessNothing
  <2>2. Queued' = Queued
    BY <2>1 DEF Queued
  <2>3. TileTypeOK'
    BY <1>1, <1>2, <1>4, <2>1 DEF TileTypeOK
  <2>4. SlotsAreUsed'
    BY <1>3, <1>4, <1>6, <2>1 DEF SlotsAreUsed
  <2>5. OnePlace'
    BY <1>1, <1>2, <1>3, <2>1, <2>2 DEF OnePlace, Distinct
  <2>6. Wanted'
    BY <1>1, <1>2, <1>5, <2>1, <2>2 DEF Wanted
  <2> QED BY <2>3, <2>4, <2>5, <2>6 DEF WorkInv
<1>7. CASE queue # <<>>
  <2>1. active = MaxConcurrent
    BY <1>1, <1>7 DEF SlotsAreUsed
  <2>2. active - 1 < MaxConcurrent /\ (active - 1) + 1 = MaxConcurrent
    BY <2>1, <1>1
  <2>3. /\ queue' = SubSeq(queue, 2, Len(queue)) /\ running' = r \cup {queue[1]}
        /\ active' = (active - 1) + 1
    BY <1>1, <1>2, <1>4, <1>7, <2>2, ProcessOldest
  <2>4. /\ SubSeq(queue, 2, Len(queue)) \in Seq(Tiles)
        /\ Distinct(SubSeq(queue, 2, Len(queue)))
        /\ queue[1] \in Elements(queue)
        /\ Elements(SubSeq(queue, 2, Len(queue))) = Elements(queue) \ {queue[1]}
    BY <1>1, <1>7, TailElements DEF OnePlace
  <2>5. /\ queue' \in Seq(Tiles) /\ Distinct(queue')
        /\ queue[1] \in Queued /\ Queued' = Queued \ {queue[1]}
    BY <2>3, <2>4 DEF Queued
  <2>6. queue[1] \notin running /\ queue[1] \in Tiles
    BY <1>1, <2>5 DEF OnePlace, Queued, Elements
  <2>7. IsFiniteSet(running') /\ Cardinality(running') = active'
    <3>1. queue[1] \notin r
      BY <2>6
    <3> HIDE DEF r
    <3>2. /\ IsFiniteSet(r \cup {queue[1]})
          /\ Cardinality(r \cup {queue[1]}) = Cardinality(r) + 1
      BY <3>1, <1>3, FS_AddElement
    <3> QED BY <3>2, <1>3, <2>3
  <2>8. TileTypeOK'
    BY <1>1, <1>2, <2>1, <2>3, <2>5, <2>6 DEF TileTypeOK
  <2>9. SlotsAreUsed'
    BY <1>1, <2>1, <2>3, <2>7 DEF SlotsAreUsed
  <2>10. OnePlace'
    <3>1. Queued' \cap running' = {}
      BY <1>1, <2>3, <2>5 DEF OnePlace
    <3>2. cancelled' \subseteq running'
      BY <1>1, <1>2, <2>3 DEF OnePlace
    <3>3. Distinct(queue)'
      BY <2>5 DEF Distinct
    <3> QED BY <2>7, <3>1, <3>2, <3>3 DEF OnePlace
  <2>11. Wanted'
    <3>1. queue[1] \notin cancelled
      BY <1>1, <2>6 DEF OnePlace
    <3>2. running' \ cancelled' = ((running \ cancelled) \ {t}) \cup {queue[1]}
      BY <1>2, <2>3, <3>1
    <3>3. Queued' \cup (running' \ cancelled') = controllers'
      BY <1>1, <1>2, <1>5, <2>5, <3>2 DEF Wanted
    <3> QED BY <1>1, <1>2, <3>3 DEF Wanted
  <2> QED BY <2>8, <2>9, <2>10, <2>11 DEF WorkInv
<1> QED BY <1>6, <1>7

LEMMA AbortWork ==
    ASSUME WorkInv, NEW t \in Tiles, Abort(t)
    PROVE  WorkInv'
<1>1. /\ TileTypeOK /\ SlotsAreUsed /\ OnePlace /\ Wanted
      /\ queue \in Seq(Tiles) /\ active \in Nat /\ active <= MaxConcurrent
  BY DEF WorkInv, TileTypeOK, SlotsAreUsed
<1>2. /\ t \in doomed /\ doomed' = doomed \ {t} /\ controllers' = controllers \ {t}
      /\ UNCHANGED <<canvases, onMap, heat, points, mounted>>
  BY DEF Abort, displayVars
<1>3. CASE t \in Queued
  <2>1. UNCHANGED cancelled
    BY <1>3 DEF Abort
  <2>2. PICK i \in 1 .. Len(queue) :
            queue[i] = t /\ Process(RemoveAt(queue, i), running, active)
    BY <1>3 DEF Abort
  <2>3. active = MaxConcurrent
    <3>1. queue # <<>>
      BY <2>2
    <3> QED BY <3>1, <1>1 DEF SlotsAreUsed
  <2>4. /\ RemoveAt(queue, i) \in Seq(Tiles) /\ Distinct(RemoveAt(queue, i))
        /\ Elements(RemoveAt(queue, i)) = Elements(queue) \ {t}
    BY <1>1, <2>2, RemoveElements DEF OnePlace
  <2>5. queue' = RemoveAt(queue, i) /\ running' = running /\ active' = active
    BY <1>1, <2>2, <2>3, <2>4, ProcessNothing
  <2>6. queue' \in Seq(Tiles) /\ Distinct(queue') /\ Queued' = Queued \ {t}
    BY <2>4, <2>5 DEF Queued
  <2>7. TileTypeOK'
    BY <1>1, <1>2, <2>1, <2>5, <2>6 DEF TileTypeOK
  <2>8. SlotsAreUsed'
    BY <1>1, <2>3, <2>5 DEF SlotsAreUsed
  <2>9. OnePlace'
    <3>1. Distinct(queue)'
      BY <2>6 DEF Distinct
    <3> QED BY <3>1, <1>1, <2>1, <2>5, <2>6 DEF OnePlace
  <2>10. Wanted'
    BY <1>1, <1>2, <1>3, <2>1, <2>5, <2>6 DEF Wanted, OnePlace
  <2> QED BY <2>7, <2>8, <2>9, <2>10 DEF WorkInv
<1>4. CASE t \notin Queued
  <2>1. cancelled' = cancelled \cup ({t} \cap running) /\ UNCHANGED <<queue, running, active>>
    BY <1>4 DEF Abort, requestVars
  <2>2. Queued' = Queued
    BY <2>1 DEF Queued
  <2>3. TileTypeOK'
    BY <1>1, <1>2, <2>1 DEF TileTypeOK
  <2>4. SlotsAreUsed'
    BY <1>1, <2>1 DEF SlotsAreUsed
  <2>5. OnePlace'
    BY <1>1, <2>1, <2>2 DEF OnePlace, Distinct
  <2>6. Wanted'
    BY <1>1, <1>2, <1>4, <2>1, <2>2 DEF Wanted
  <2> QED BY <2>3, <2>4, <2>5, <2>6 DEF WorkInv
<1> QED BY <1>3, <1>4

\* The steps of the layer leave the requests alone and doom what loses its tile.
LEMMA LayerWork ==
    ASSUME WorkInv, doomed = {},
           UNCHANGED <<queue, running, active, controllers, cancelled>>,
           canvases' \in SUBSET Tiles, doomed' \subseteq controllers,
           controllers \subseteq canvases' \cup doomed', ~onMap' => canvases' = {},
           onMap' \in BOOLEAN, heat' \in BOOLEAN, points' \in BOOLEAN, mounted' \in BOOLEAN
    PROVE  WorkInv'
<1>1. Queued' = Queued
  BY DEF Queued
<1>2. TileTypeOK'
  BY DEF WorkInv, TileTypeOK
<1>3. SlotsAreUsed'
  BY DEF WorkInv, SlotsAreUsed
<1>4. OnePlace'
  BY <1>1 DEF WorkInv, OnePlace, Distinct
<1>5. Wanted'
  BY <1>1 DEF WorkInv, Wanted
<1> QED BY <1>2, <1>3, <1>4, <1>5 DEF WorkInv

LEMMA NextWork ==
    ASSUME WorkInv, [TileNext]_tileVars
    PROVE  WorkInv'
<1> USE DEF requestVars, displayVars
<1>1. ASSUME NEW t \in Tiles, CreateTile(t) PROVE WorkInv'
  BY <1>1, CreateTileWork
<1>2. ASSUME NEW t \in Tiles, TaskEnds(t) PROVE WorkInv'
  BY <1>2, TaskEndsWork
<1>3. ASSUME NEW t \in Tiles, Abort(t) PROVE WorkInv'
  BY <1>3, AbortWork
<1>4. ASSUME NEW t \in Tiles, Unload(t) PROVE WorkInv'
  <2>1. controllers \subseteq canvases /\ (~onMap => canvases = {}) /\ canvases \subseteq Tiles
    BY <1>4 DEF Unload, WorkInv, Wanted, TileTypeOK
  <2> QED BY <1>4, <2>1, LayerWork DEF Unload, WorkInv, TileTypeOK
<1>5. CASE Redraw
  BY <1>5, LayerWork DEF Redraw, DropTiles, WorkInv, TileTypeOK
<1>6. CASE UpdateHeatmap
  BY <1>6, LayerWork DEF UpdateHeatmap, DropTiles, WorkInv, TileTypeOK
<1>7. CASE Unmount
  BY <1>7, LayerWork DEF Unmount, DropTiles, WorkInv, TileTypeOK
<1>8. CASE UNCHANGED tileVars
  <2>1. Queued' = Queued
    BY <1>8 DEF tileVars, Queued
  <2> QED BY <1>8, <2>1 DEF tileVars, WorkInv, TileTypeOK, SlotsAreUsed, OnePlace, Distinct, Wanted
<1> QED BY <1>1, <1>2, <1>3, <1>4, <1>5, <1>6, <1>7, <1>8 DEF TileNext

-----------------------------------------------------------------------------
(* The theorems *)

LEMMA WorkInvariant == TileSpec => []WorkInv
<1>1. TileInit => WorkInv
  BY InitWork
<1>2. WorkInv /\ [TileNext]_tileVars => WorkInv'
  BY NextWork
<1> QED BY <1>1, <1>2, PTL DEF TileSpec

\* The state of the map's scheduler keeps its type.
THEOREM TileTypeCorrect == TileSpec => []TileTypeOK
<1>1. WorkInv => TileTypeOK
  BY DEF WorkInv
<1> QED BY <1>1, WorkInvariant, PTL

\* activeTileRequests counts the requests that run, at most MaxConcurrent, and no slot
\* is idle while a request waits.
THEOREM SlotsAreAlwaysUsed == TileSpec => []SlotsAreUsed
<1>1. WorkInv => SlotsAreUsed
  BY DEF WorkInv
<1> QED BY <1>1, WorkInvariant, PTL

\* What waits or runs unaborted is wanted by the layer.
THEOREM OnlyWantedAlwaysRuns == TileSpec => []OnlyWantedRuns
<1>1. WorkInv => OnlyWantedRuns
  BY DEF WorkInv, Wanted, OnlyWantedRuns
<1> QED BY <1>1, WorkInvariant, PTL

-----------------------------------------------------------------------------
(* The session tokens *)

CallType == [at : {"idle", "sent", "ok", "denied", "waiting"}, kind : {"get", "login", "logout"},
             bears : Nat, retried : BOOLEAN]
LateType == [kind : {"refresh", "logout"}, session : Nat]

SessionTypeOK ==
    /\ live \in SUBSET Nat /\ issued \in Nat /\ cookie \in Nat
    /\ token \in [Tabs -> Nat]
    /\ refresh \in [Tabs -> [at : {"none", "asked", "found", "issued", "denied"},
                             carries : Nat, gets : Nat]]
    /\ call \in [Calls -> CallType]
    /\ unanswered \in SUBSET LateType

\* Refreshes and logins whose tokens are on their way to the browser.
NewRefreshes == {t \in Tabs : refresh[t].at = "issued"}
NewLogins == {c \in Calls : call[c].at = "ok" /\ call[c].kind = "login"}

\* The sessions that the cookie, a tab or a request names.
Named ==
    {NoSession, cookie} \cup {token[t] : t \in Tabs} \cup {refresh[t].carries : t \in Tabs}
        \cup {call[c].bears : c \in Calls \ NewLogins} \cup {r.session : r \in unanswered}

Numbered ==
    /\ \A s \in live : 0 < s /\ s <= issued
    /\ \A s \in Named : s <= issued

Unshared ==
    /\ \A t \in NewRefreshes : refresh[t].gets \in live \ Named
    /\ \A c \in NewLogins : call[c].bears \in live \ Named
    /\ \A t, u \in NewRefreshes : refresh[t].gets = refresh[u].gets => t = u
    /\ \A c, d \in NewLogins : call[c].bears = call[d].bears => c = d
    /\ \A t \in NewRefreshes, c \in NewLogins : refresh[t].gets # call[c].bears

Secrets == Numbered /\ Unshared

\* What may have become of the session of the cookie.
CookieHeld ==
    \/ cookie \in {NoSession} \cup live \cup doubtful
    \/ \E t \in Tabs : refresh[t].at = "issued" /\ refresh[t].carries = cookie
    \/ \E c \in Calls : call[c].at = "ok" /\ call[c].kind = "logout" /\ call[c].bears = cookie

Doubted == \A r \in unanswered : r.session \in doubtful

SessionInv == SessionTypeOK /\ Secrets /\ CookieHeld /\ Doubted

-----------------------------------------------------------------------------
(* Secrets *)

\* A step that issues nothing, names no other session and revokes only sessions that
\* are named keeps the pending ones.
LEMMA NothingIssued ==
    ASSUME SessionInv, issued' = issued, live' \subseteq live, live \ live' \subseteq Named,
           Named' \subseteq Named,
           NewRefreshes' \subseteq NewRefreshes, NewLogins' \subseteq NewLogins,
           \A t \in NewRefreshes' : refresh'[t].gets = refresh[t].gets,
           \A c \in NewLogins' : call'[c].bears = call[c].bears
    PROVE  Secrets'
BY DEF SessionInv, Secrets, Numbered, Unshared

-----------------------------------------------------------------------------
(* Steps of refreshes *)

LEMMA OpenKeeps == ASSUME SessionInv, NEW t \in Tabs, Open(t) PROVE SessionInv'
<1>1. /\ UNCHANGED <<live, issued, cookie, token, call, unanswered, doubtful>>
      /\ refresh' = [refresh EXCEPT ![t] = Asked] /\ refresh[t] = NoRefresh
  BY DEF Open, serverVars, tabVars, boundVars
<1>2. Asked = [at |-> "asked", carries |-> cookie, gets |-> 0]
  BY DEF Asked, NoRefresh, NoSession
<1>3. SessionTypeOK'
  BY <1>1, <1>2 DEF SessionInv, SessionTypeOK, CallType, LateType
<1>4. \A u \in Tabs : refresh'[u] = IF u = t THEN Asked ELSE refresh[u]
  BY <1>1 DEF SessionInv, SessionTypeOK, CallType, LateType
<1>5. refresh[t].at = "none"
  BY <1>1 DEF NoRefresh
<1>6. NewRefreshes' = NewRefreshes /\ NewLogins' = NewLogins
  BY <1>1, <1>2, <1>4, <1>5 DEF NewRefreshes, NewLogins
<1>7. Named' \subseteq Named
  BY <1>1, <1>2, <1>4, <1>6 DEF Named
<1>8. Secrets'
  BY <1>1, <1>2, <1>4, <1>6, <1>7, NothingIssued DEF NewRefreshes
<1>9. CookieHeld' /\ Doubted'
  BY <1>1, <1>4, <1>5 DEF SessionInv, CookieHeld, Doubted
<1> QED BY <1>3, <1>8, <1>9 DEF SessionInv

LEMMA FindsKeeps == ASSUME SessionInv, NEW t \in Tabs, RefreshFinds(t) PROVE SessionInv'
<1>1. PICK at \in {"found", "denied"} : refresh' = [refresh EXCEPT ![t].at = at]
  BY DEF RefreshFinds
<1>2. refresh[t].at = "asked" /\ UNCHANGED <<live, issued, cookie, token, call, unanswered, doubtful>>
  BY DEF RefreshFinds, serverVars, tabVars, boundVars
<1>3. SessionTypeOK'
  BY <1>1, <1>2 DEF SessionInv, SessionTypeOK, CallType, LateType
<1>4. \A u \in Tabs : refresh'[u] = IF u = t THEN [refresh[t] EXCEPT !.at = at] ELSE refresh[u]
  BY <1>1 DEF SessionInv, SessionTypeOK, CallType, LateType
<1>5. \A u \in Tabs : refresh'[u].carries = refresh[u].carries /\ refresh'[u].gets = refresh[u].gets
  BY <1>4 DEF SessionInv, SessionTypeOK, CallType, LateType
<1>6. \A u \in Tabs : refresh'[u].at = "issued" <=> refresh[u].at = "issued"
  BY <1>2, <1>4 DEF SessionInv, SessionTypeOK, CallType, LateType
<1>7. NewRefreshes' = NewRefreshes /\ NewLogins' = NewLogins
  BY <1>2, <1>6 DEF NewRefreshes, NewLogins
<1>8. Named' = Named
  BY <1>2, <1>5, <1>7 DEF Named
<1>9. Secrets'
  BY <1>2, <1>5, <1>7, <1>8, NothingIssued DEF NewRefreshes
<1>10. CookieHeld' /\ Doubted'
  BY <1>2, <1>5, <1>6 DEF SessionInv, CookieHeld, Doubted
<1> QED BY <1>3, <1>9, <1>10 DEF SessionInv

LEMMA IssuesKeeps == ASSUME SessionInv, NEW t \in Tabs, RefreshIssues(t) PROVE SessionInv'
<1> DEFINE s == issued + 1
           old == refresh[t].carries
<1>1. /\ refresh[t].at = "found"
      /\ live' = (live \ {old}) \cup {s} /\ issued' = s
      /\ refresh' = [refresh EXCEPT ![t] = [at |-> "issued", carries |-> old, gets |-> s]]
      /\ UNCHANGED <<cookie, token, call, unanswered, doubtful>>
  BY DEF RefreshIssues, Issue, tabVars, boundVars
<1>2. s \in Nat /\ s > issued /\ issued \in Nat
  BY DEF SessionInv, SessionTypeOK, CallType, LateType
<1>3. SessionTypeOK'
  BY <1>1, <1>2 DEF SessionInv, SessionTypeOK, CallType, LateType
<1>4. /\ \A u \in Tabs : refresh'[u].carries = refresh[u].carries
      /\ refresh'[t].at = "issued" /\ refresh'[t].gets = s
      /\ \A u \in Tabs : u # t => refresh'[u] = refresh[u]
  BY <1>1 DEF SessionInv, SessionTypeOK, CallType, LateType
<1>5. NewRefreshes' = NewRefreshes \cup {t} /\ t \notin NewRefreshes /\ NewLogins' = NewLogins
  BY <1>1, <1>4 DEF NewRefreshes, NewLogins
<1>6. Named' = Named
  BY <1>1, <1>4, <1>5 DEF Named
<1>7. old \in Named /\ s \notin Named /\ s \notin live
  <2>1. old \in Named
    BY DEF Named
  <2>2. \A n \in Named \cup live : n <= issued
    BY DEF SessionInv, Secrets, Numbered
  <2> QED BY <1>2, <2>1, <2>2
<1>8. Numbered'
  <2>1. \A n \in Named : n \in Nat
    BY DEF Named, NoSession, SessionInv, SessionTypeOK, CallType, LateType
  <2> QED BY <1>1, <1>2, <1>6, <2>1 DEF SessionInv, Secrets, Numbered, SessionTypeOK
<1>9. /\ \A u \in NewRefreshes : refresh'[u].gets = refresh[u].gets /\ refresh[u].gets \in live \ Named
      /\ \A c \in NewLogins : call'[c].bears = call[c].bears /\ call[c].bears \in live \ Named
  BY <1>1, <1>4, <1>5 DEF SessionInv, Secrets, Unshared, NewRefreshes
<1>10. Unshared'
  BY <1>1, <1>4, <1>5, <1>6, <1>7, <1>9 DEF SessionInv, Secrets, Unshared
<1>11. CookieHeld'
  BY <1>1, <1>4 DEF SessionInv, CookieHeld
<1>12. Doubted'
  BY <1>1 DEF SessionInv, Doubted
<1> QED BY <1>3, <1>8, <1>10, <1>11, <1>12 DEF SessionInv, Secrets

\* The end of a refresh without a token, whatever the server did.
LEMMA RefreshOver ==
    ASSUME SessionInv, NEW t \in Tabs, RefreshEnds(t),
           UNCHANGED <<live, issued>>, cookie' \in {NoSession, cookie},
           unanswered' \in SUBSET LateType,
           \A r \in unanswered' : r \in unanswered \/ r.session = refresh[t].carries
    PROVE  /\ SessionTypeOK' /\ Secrets'
           /\ \A u \in Tabs \ {t} : refresh'[u] = refresh[u]
           /\ \A c \in Calls : call[c].at = "ok" => call'[c] = call[c]
<1>1. /\ token' = [token EXCEPT ![t] = 0]
      /\ refresh' = [refresh EXCEPT ![t] = [at |-> "none", carries |-> 0, gets |-> 0]]
      /\ call' = [c \in Calls |-> IF c \in Waiting(t)
                                  THEN [at |-> "idle", kind |-> "get", bears |-> 0, retried |-> FALSE]
                                  ELSE call[c]]
  BY DEF RefreshEnds, SignedOut, NoRefresh, IdleCall, NoSession
<1>2. SessionTypeOK'
  BY <1>1 DEF SessionInv, SessionTypeOK, CallType, LateType, NoSession
<1>3. \A u \in Tabs : refresh'[u] = refresh[u] \/ (refresh'[u].at = "none" /\ refresh'[u].carries = 0)
  <2> TAKE u \in Tabs
  <2>1. CASE u = t
    <3>1. refresh'[u] = [at |-> "none", carries |-> 0, gets |-> 0]
      BY <1>1, <2>1 DEF SessionInv, SessionTypeOK, CallType, LateType
    <3> QED BY <3>1
  <2>2. CASE u # t
    BY <1>1, <2>2 DEF SessionInv, SessionTypeOK
  <2> QED BY <2>1, <2>2
<1>4. \A u \in Tabs : token'[u] \in {0, token[u]}
  BY <1>1 DEF SessionInv, SessionTypeOK, CallType, LateType
<1>5. \A c \in Calls : \/ call'[c] = call[c]
                       \/ call[c].at = "waiting" /\ call'[c].at = "idle" /\ call'[c].bears = 0
  BY <1>1 DEF Waiting
<1>6. NewLogins' = NewLogins /\ NewRefreshes' \subseteq NewRefreshes
  BY <1>3, <1>5 DEF NewLogins, NewRefreshes
<1>7. Named' \subseteq Named
  BY <1>3, <1>4, <1>5, <1>6 DEF Named, NoSession
<1>8. /\ \A u \in NewRefreshes' : refresh'[u].gets = refresh[u].gets
      /\ \A c \in NewLogins' : call'[c].bears = call[c].bears
  BY <1>3, <1>5 DEF NewLogins, NewRefreshes
<1>9. Secrets'
  BY <1>6, <1>7, <1>8, NothingIssued
<1>10. \A u \in Tabs \ {t} : refresh'[u] = refresh[u]
  BY <1>1 DEF SessionInv, SessionTypeOK, CallType, LateType
<1> QED BY <1>2, <1>5, <1>9, <1>10

LEMMA DeniedKeeps == ASSUME SessionInv, NEW t \in Tabs, RefreshDenied(t) PROVE SessionInv'
<1>1. RefreshEnds(t) /\ cookie' = NoSession /\ UNCHANGED <<live, issued, unanswered, doubtful>>
  BY DEF RefreshDenied, serverVars, boundVars
<1>2. SessionTypeOK' /\ Secrets'
  BY <1>1, RefreshOver DEF SessionInv, SessionTypeOK, CallType, LateType
<1> QED BY <1>1, <1>2 DEF SessionInv, CookieHeld, Doubted

LEMMA DropsKeeps == ASSUME SessionInv, NEW t \in Tabs, RefreshDrops(t) PROVE SessionInv'
<1> DEFINE s == refresh[t].carries
<1>1. /\ RefreshEnds(t) /\ UNCHANGED <<live, issued, cookie>>
      /\ doubtful' = doubtful \cup {s}
      /\ unanswered' \in {unanswered, unanswered \cup {[kind |-> "refresh", session |-> s]}}
  BY DEF RefreshDrops, DropRevoking, Drop, serverVars
<1>2. unanswered' \in SUBSET LateType
  BY <1>1 DEF SessionInv, SessionTypeOK, CallType, LateType
<1>3. /\ SessionTypeOK' /\ Secrets'
      /\ \A u \in Tabs \ {t} : refresh'[u] = refresh[u]
      /\ \A c \in Calls : call[c].at = "ok" => call'[c] = call[c]
  BY <1>1, <1>2, RefreshOver
<1>4. CookieHeld'
  BY <1>1, <1>3 DEF SessionInv, CookieHeld
<1>5. Doubted'
  BY <1>1 DEF SessionInv, Doubted
<1> QED BY <1>3, <1>4, <1>5 DEF SessionInv

\* The new session becomes that of the cookie, of the tab and of those who waited.
LEMMA SucceedsKeeps == ASSUME SessionInv, NEW t \in Tabs, RefreshSucceeds(t) PROVE SessionInv'
<1> DEFINE s == refresh[t].gets
<1>1. /\ refresh[t].at = "issued" /\ cookie' = s
      /\ token' = [token EXCEPT ![t] = s]
      /\ refresh' = [refresh EXCEPT ![t] = [at |-> "none", carries |-> 0, gets |-> 0]]
      /\ call' = [c \in Calls |-> IF c \in Waiting(t)
                    THEN [at |-> "sent", kind |-> call[c].kind, bears |-> s, retried |-> TRUE]
                    ELSE call[c]]
      /\ UNCHANGED <<live, issued, unanswered, doubtful>>
  BY DEF RefreshSucceeds, SignedIn, NoRefresh, NoSession, serverVars, boundVars
<1>2. t \in NewRefreshes /\ s \in Nat
  BY <1>1 DEF NewRefreshes, SessionInv, SessionTypeOK
<1>3. s \in live \ Named /\ s <= issued
  BY <1>2 DEF SessionInv, Secrets, Unshared, Numbered
<1>4. SessionTypeOK'
  BY <1>1, <1>2 DEF SessionInv, SessionTypeOK, CallType, LateType
<1>5. \A u \in Tabs : refresh'[u] = IF u = t THEN [at |-> "none", carries |-> 0, gets |-> 0] ELSE refresh[u]
  BY <1>1 DEF SessionInv, SessionTypeOK, CallType, LateType
<1>6. \A u \in Tabs : token'[u] \in {s, token[u]}
  BY <1>1 DEF SessionInv, SessionTypeOK, CallType, LateType
<1>7. \A c \in Calls : \/ call'[c] = call[c]
                       \/ call[c].at = "waiting" /\ call'[c].at = "sent" /\ call'[c].bears = s
  BY <1>1 DEF Waiting
<1>8. NewLogins' = NewLogins /\ NewRefreshes' = NewRefreshes \ {t}
  BY <1>5, <1>7 DEF NewLogins, NewRefreshes
<1>9. Named' \subseteq Named \cup {s}
  BY <1>1, <1>5, <1>6, <1>7, <1>8 DEF Named, NoSession
<1>10. Numbered'
  BY <1>1, <1>3, <1>9 DEF SessionInv, Secrets, Numbered
<1>11. /\ \A u \in NewRefreshes' : refresh'[u].gets = refresh[u].gets
       /\ \A c \in NewLogins' : call'[c].bears = call[c].bears
  <2>1. \A u \in NewRefreshes : u \in Tabs
    BY DEF NewRefreshes
  <2>2. \A c \in NewLogins : c \in Calls /\ call[c].at # "waiting"
    BY DEF NewLogins
  <2> QED BY <1>5, <1>7, <1>8, <2>1, <2>2
<1>12. Unshared'
  <2>1. Unshared /\ live' = live
    BY <1>1 DEF SessionInv, Secrets
  <2>2. ASSUME NEW u \in NewRefreshes' PROVE refresh'[u].gets \in live' \ Named'
    <3>1. u \in NewRefreshes /\ u # t
      BY <1>8
    <3>2. refresh[u].gets \in live \ Named /\ refresh[u].gets # s
      BY <1>2, <2>1, <3>1 DEF Unshared
    <3> QED BY <1>9, <1>11, <2>1, <3>2
  <2>3. ASSUME NEW c \in NewLogins' PROVE call'[c].bears \in live' \ Named'
    <3>1. call[c].bears \in live \ Named /\ call[c].bears # s
      BY <1>2, <1>8, <2>1 DEF Unshared
    <3> QED BY <1>9, <1>11, <2>1, <3>1
  <2>4. \A u, v \in NewRefreshes' : refresh'[u].gets = refresh'[v].gets => u = v
    BY <1>8, <1>11, <2>1 DEF Unshared
  <2>5. \A c, d \in NewLogins' : call'[c].bears = call'[d].bears => c = d
    BY <1>8, <1>11, <2>1 DEF Unshared
  <2>6. \A u \in NewRefreshes', c \in NewLogins' : refresh'[u].gets # call'[c].bears
    BY <1>8, <1>11, <2>1 DEF Unshared
  <2> QED BY <2>2, <2>3, <2>4, <2>5, <2>6 DEF Unshared
<1>13. CookieHeld' /\ Doubted'
  BY <1>1, <1>3 DEF SessionInv, CookieHeld, Doubted
<1> QED BY <1>4, <1>10, <1>12, <1>13 DEF SessionInv, Secrets

-----------------------------------------------------------------------------
(* Steps of the other requests *)

\* The end of a request that brings no session.
LEMMA CallOver ==
    ASSUME SessionInv, NEW c \in Calls, call' = [call EXCEPT ![c] = IdleCall],
           token' \in [Tabs -> Nat], \A t \in Tabs : token'[t] \in {NoSession, token[t]},
           UNCHANGED <<live, issued, refresh>>, cookie' \in {NoSession, cookie},
           unanswered' \in SUBSET LateType,
           \A r \in unanswered' : \/ r \in unanswered
                                  \/ c \notin NewLogins /\ r.session = call[c].bears
    PROVE  SessionTypeOK' /\ Secrets' /\ \A d \in Calls \ {c} : call'[d] = call[d]
<1>1. call' = [call EXCEPT ![c] = [at |-> "idle", kind |-> "get", bears |-> 0, retried |-> FALSE]]
  BY DEF IdleCall, NoSession
<1>2. SessionTypeOK'
  <2>1. cookie' \in Nat
    BY DEF SessionInv, SessionTypeOK, CallType, LateType, NoSession
  <2>2. call' \in [Calls -> CallType]
    <3>1. [at |-> "idle", kind |-> "get", bears |-> 0, retried |-> FALSE] \in CallType
      BY DEF CallType
    <3>2. call \in [Calls -> CallType]
      BY DEF SessionInv, SessionTypeOK, CallType, LateType
    <3> QED BY <1>1, <3>1, <3>2
  <2> QED BY <2>1, <2>2 DEF SessionInv, SessionTypeOK, CallType, LateType
<1>3. \A d \in Calls : IF d = c THEN call'[d].at = "idle" /\ call'[d].bears = 0 ELSE call'[d] = call[d]
  BY <1>1 DEF SessionInv, SessionTypeOK, CallType, LateType
<1>4. NewLogins' = NewLogins \ {c} /\ NewRefreshes' = NewRefreshes
  BY <1>3 DEF NewLogins, NewRefreshes
<1>5. {call'[d].bears : d \in Calls \ NewLogins'} \subseteq {0} \cup {call[d].bears : d \in Calls \ NewLogins}
  BY <1>3, <1>4
<1>6. {r.session : r \in unanswered'} \subseteq Named
  BY DEF Named
<1>7. Named' \subseteq Named
  BY <1>4, <1>5, <1>6 DEF Named, NoSession
<1>8. Secrets'
  BY <1>3, <1>4, <1>7, NothingIssued
<1> QED BY <1>2, <1>3, <1>8

LEMMA RejectedFacts ==
    ASSUME SessionInv, NEW c \in Calls, Rejected(c)
    PROVE  /\ call' = [call EXCEPT ![c] = IdleCall]
           /\ token' \in [Tabs -> Nat]
           /\ \A t \in Tabs : token'[t] \in {NoSession, token[t]}
BY DEF Rejected, SignedOut, SessionInv, SessionTypeOK, NoSession

LEMMA CallDropsKeeps == ASSUME SessionInv, NEW c \in Calls, CallDrops(c) PROVE SessionInv'
<1>1. Rejected(c) /\ UNCHANGED <<live, issued, cookie, refresh>>
  BY DEF CallDrops, DropRevoking, Drop, serverVars
<1>2. \/ call[c].kind # "logout" /\ UNCHANGED <<unanswered, doubtful>>
      \/ /\ call[c].kind = "logout"
         /\ doubtful' = doubtful \cup {call[c].bears}
         /\ unanswered' \in {unanswered, unanswered \cup {[kind |-> "logout", session |-> call[c].bears]}}
  BY DEF CallDrops, DropRevoking
<1>3. call[c].bears \in Nat
  BY DEF SessionInv, SessionTypeOK, CallType, LateType
<1>4. /\ unanswered' \in SUBSET LateType
      /\ \A r \in unanswered' : \/ r \in unanswered
                                \/ c \notin NewLogins /\ r.session = call[c].bears
  <2>1. unanswered \in SUBSET LateType
    BY DEF SessionInv, SessionTypeOK, CallType, LateType
  <2> DEFINE leftover == [kind |-> "logout", session |-> call[c].bears]
  <2>2. leftover \in LateType /\ leftover.session = call[c].bears
    BY <1>3 DEF LateType
  <2>3. call[c].kind = "logout" => c \notin NewLogins
    BY DEF NewLogins
  <2>4. unanswered' \in {unanswered, unanswered \cup {leftover}} /\ (call[c].kind = "logout" \/ unanswered' = unanswered)
    BY <1>2
  <2> HIDE DEF leftover
  <2>5. unanswered' \in SUBSET LateType
    BY <2>1, <2>2, <2>4
  <2>6. \A r \in unanswered' : r \in unanswered \/ (r = leftover /\ call[c].kind = "logout")
    BY <2>4
  <2>7. \A r \in unanswered' : r \in unanswered \/ (c \notin NewLogins /\ r.session = call[c].bears)
    BY <2>2, <2>3, <2>6
  <2> QED BY <2>5, <2>7
<1>5. SessionTypeOK' /\ Secrets' /\ \A d \in Calls \ {c} : call'[d] = call[d]
  BY <1>1, <1>4, CallOver, RejectedFacts
<1>6. CookieHeld'
  BY <1>1, <1>2, <1>5 DEF SessionInv, CookieHeld
<1>7. Doubted'
  BY <1>2 DEF SessionInv, Doubted
<1> QED BY <1>5, <1>6, <1>7 DEF SessionInv
\* A request goes on, and brings no session.
LEMMA CallMoves ==
    ASSUME SessionInv, NEW c \in Calls, call[c].at \in {"sent", "denied"},
           NEW at \in {"ok", "denied", "waiting"}, call' = [call EXCEPT ![c].at = at],
           at = "ok" => call[c].kind # "login",
           UNCHANGED <<issued, cookie, token, refresh, unanswered>>,
           live' \subseteq live, live \ live' \subseteq Named
    PROVE  SessionTypeOK' /\ Secrets' /\ \A d \in Calls \ {c} : call'[d] = call[d]
<1>1. SessionTypeOK'
  BY DEF SessionInv, SessionTypeOK, CallType, LateType
<1>2. \A d \in Calls \ {c} : call'[d] = call[d]
  BY DEF SessionInv, SessionTypeOK, CallType, LateType
<1>3. call'[c].at = at /\ call'[c].bears = call[c].bears /\ call'[c].kind = call[c].kind
  BY DEF SessionInv, SessionTypeOK, CallType, LateType
<1>4. NewLogins' = NewLogins /\ NewRefreshes' = NewRefreshes /\ c \notin NewLogins
  BY <1>2, <1>3 DEF NewLogins, NewRefreshes
<1>5. \A d \in Calls : call'[d].bears = call[d].bears
  BY <1>2, <1>3
<1>6. Named' = Named
  BY <1>4, <1>5 DEF Named
<1>7. \A d \in NewLogins' : call'[d].bears = call[d].bears
  BY <1>4, <1>5 DEF NewLogins
<1>8. Secrets'
  BY <1>4, <1>6, <1>7, NothingIssued
<1> QED BY <1>1, <1>2, <1>8

LEMMA ServeCallKeeps == ASSUME SessionInv, NEW c \in Calls, ServeCall(c) PROVE SessionInv'
<1> DEFINE s == call[c].bears
<1>1. PICK at \in {"ok", "denied"} :
          /\ call[c].at = "sent" /\ call[c].kind # "login"
          /\ call' = [call EXCEPT ![c].at = at]
          /\ \/ live' = live
             \/ call[c].kind = "logout" /\ live' = live \ {s} /\ at = "ok"
          /\ UNCHANGED <<issued, cookie, token, refresh, unanswered, doubtful>>
  BY DEF ServeCall, Serves, tabVars, boundVars
<1>2. c \notin NewLogins
  BY <1>1 DEF NewLogins
<1>3. s \in Named
  BY <1>2 DEF Named
<1>4. SessionTypeOK' /\ Secrets' /\ \A d \in Calls \ {c} : call'[d] = call[d]
  BY <1>1, <1>3, CallMoves
<1>5. call'[c].at = at /\ call'[c].bears = s /\ call'[c].kind = call[c].kind
  BY <1>1 DEF SessionInv, SessionTypeOK, CallType, LateType
<1>6. CookieHeld'
  BY <1>1, <1>4, <1>5 DEF SessionInv, CookieHeld
<1>7. Doubted'
  BY <1>1 DEF SessionInv, Doubted
<1> QED BY <1>4, <1>6, <1>7 DEF SessionInv

\* Sessions are numbers.
LEMMA NamedTyped == ASSUME SessionTypeOK PROVE Named \cup live \subseteq Nat
<1>1. \A t \in Tabs : token[t] \in Nat /\ refresh[t].carries \in Nat
  BY DEF SessionTypeOK
<1>2. \A c \in Calls : call[c].bears \in Nat
  BY DEF SessionTypeOK, CallType
<1>3. \A r \in unanswered : r.session \in Nat
  BY DEF SessionTypeOK, LateType
<1>4. NoSession \in Nat /\ cookie \in Nat /\ live \subseteq Nat
  BY DEF SessionTypeOK, NoSession
<1> QED BY <1>1, <1>2, <1>3, <1>4 DEF Named

LEMMA ServeLoginKeeps == ASSUME SessionInv, NEW c \in Calls, ServeLogin(c) PROVE SessionInv'
<1> DEFINE s == issued + 1
<1>1. /\ call[c].at = "sent" /\ live' = live \cup {s} /\ issued' = s
      /\ call' = [call EXCEPT ![c] = [at |-> "ok", kind |-> "login", bears |-> s, retried |-> call[c].retried]]
      /\ UNCHANGED <<cookie, token, refresh, unanswered, doubtful>>
  BY DEF ServeLogin, Issue, tabVars, boundVars
<1>2. s \in Nat /\ s > issued /\ issued \in Nat /\ call[c].retried \in BOOLEAN
  BY DEF SessionInv, SessionTypeOK, CallType, LateType
<1>3. SessionTypeOK'
  BY <1>1, <1>2 DEF SessionInv, SessionTypeOK, CallType, LateType
<1>4. /\ \A d \in Calls \ {c} : call'[d] = call[d]
      /\ call'[c].at = "ok" /\ call'[c].kind = "login" /\ call'[c].bears = s
  BY <1>1 DEF SessionInv, SessionTypeOK, CallType, LateType
<1>5. NewLogins' = NewLogins \cup {c} /\ c \notin NewLogins /\ NewRefreshes' = NewRefreshes
  BY <1>1, <1>4 DEF NewLogins, NewRefreshes
<1>6. Named' \subseteq Named
  BY <1>1, <1>4, <1>5 DEF Named
<1>7. \A n \in Named \cup live : n <= issued /\ n \in Nat
  <2>1. \A n \in Named \cup live : n <= issued
    BY DEF SessionInv, Secrets, Numbered
  <2>2. \A n \in Named \cup live : n \in Nat
    BY NamedTyped DEF SessionInv
  <2> QED BY <2>1, <2>2
<1>8. s \notin Named /\ s \notin live
  BY <1>2, <1>7
<1>9. Numbered'
  BY <1>1, <1>2, <1>6, <1>7 DEF SessionInv, Secrets, Numbered
<1>10. \A d \in NewLogins : call'[d].bears = call[d].bears /\ call[d].bears \in live \ Named
  BY <1>4, <1>5 DEF SessionInv, Secrets, Unshared, NewLogins
<1>11. \A t \in NewRefreshes : refresh[t].gets \in live \ Named
  BY DEF SessionInv, Secrets, Unshared
<1>12. Unshared'
  BY <1>1, <1>4, <1>5, <1>6, <1>8, <1>10, <1>11 DEF SessionInv, Secrets, Unshared
<1>13. CookieHeld'
  BY <1>1, <1>4 DEF SessionInv, CookieHeld
<1>14. Doubted'
  BY <1>1 DEF SessionInv, Doubted
<1> QED BY <1>3, <1>9, <1>12, <1>13, <1>14 DEF SessionInv, Secrets

LEMMA SendKeeps ==
    ASSUME SessionInv, NEW c \in Calls, NEW kind \in {"get", "login", "logout"}, Send(c, kind)
    PROVE  SessionInv'
<1> DEFINE s == token[c[1]]
<1>1. /\ call[c] = IdleCall
      /\ call' = [call EXCEPT ![c] = [at |-> "sent", kind |-> kind, bears |-> s, retried |-> FALSE]]
      /\ UNCHANGED <<live, issued, cookie, token, refresh, unanswered, doubtful>>
  BY DEF Send, serverVars, tabVars
<1>2. c[1] \in Tabs /\ s \in Nat
  BY DEF Calls, SessionInv, SessionTypeOK
<1>3. SessionTypeOK'
  BY <1>1, <1>2 DEF SessionInv, SessionTypeOK, CallType, LateType
<1>4. /\ \A d \in Calls \ {c} : call'[d] = call[d]
      /\ call'[c].at = "sent" /\ call'[c].bears = s /\ call[c].at = "idle"
  BY <1>1 DEF SessionInv, SessionTypeOK, CallType, LateType, IdleCall
<1>5. NewLogins' = NewLogins /\ NewRefreshes' = NewRefreshes /\ c \notin NewLogins
  BY <1>1, <1>4 DEF NewLogins, NewRefreshes
<1>6. s \in Named
  BY <1>2 DEF Named
<1>7. Named' \subseteq Named
  BY <1>1, <1>4, <1>5, <1>6 DEF Named
<1>8. Secrets'
  <2>1. \A d \in NewLogins' : call'[d].bears = call[d].bears
    BY <1>4, <1>5 DEF NewLogins
  <2> QED BY <1>1, <1>5, <1>7, <2>1, NothingIssued
<1>9. CookieHeld' /\ Doubted'
  BY <1>1, <1>4 DEF SessionInv, CookieHeld, Doubted
<1> QED BY <1>3, <1>8, <1>9 DEF SessionInv

LEMMA CallSucceedsKeeps == ASSUME SessionInv, NEW c \in Calls, Succeeds(c) PROVE SessionInv'
<1> DEFINE s == call[c].bears
           t == c[1]
<1>1. /\ call[c].at = "ok" /\ call' = [call EXCEPT ![c] = IdleCall] /\ t \in Tabs
      /\ UNCHANGED <<live, issued, refresh, unanswered, doubtful>>
  BY DEF Succeeds, serverVars, boundVars, Calls
<1>2. call[c].kind \in {"get", "login", "logout"} /\ s \in Nat
  BY DEF SessionInv, SessionTypeOK, CallType, LateType
<1>3. CASE call[c].kind = "login"
  <2>1. cookie' = s /\ token' = [token EXCEPT ![t] = s] /\ c \in NewLogins
    BY <1>1, <1>3 DEF Succeeds, SignedIn, NewLogins
  <2>2. s \in live \ Named /\ s <= issued
    BY <2>1 DEF SessionInv, Secrets, Unshared, Numbered
  <2>3. call' = [call EXCEPT ![c] = [at |-> "idle", kind |-> "get", bears |-> 0, retried |-> FALSE]]
    BY <1>1 DEF IdleCall, NoSession
  <2>4. SessionTypeOK'
    <3>1. [at |-> "idle", kind |-> "get", bears |-> 0, retried |-> FALSE] \in CallType
      BY DEF CallType
    <3>2. call' \in [Calls -> CallType] /\ token' \in [Tabs -> Nat]
      BY <1>1, <1>2, <2>1, <2>3, <3>1 DEF SessionInv, SessionTypeOK
    <3> QED BY <1>1, <1>2, <2>1, <3>2 DEF SessionInv, SessionTypeOK, CallType, LateType
  <2>5. /\ \A d \in Calls \ {c} : call'[d] = call[d]
        /\ call'[c].at = "idle" /\ call'[c].bears = 0
    BY <2>3 DEF SessionInv, SessionTypeOK, CallType, LateType
  <2>6. NewLogins' = NewLogins \ {c} /\ NewRefreshes' = NewRefreshes
    BY <1>1, <2>5 DEF NewLogins, NewRefreshes
  <2>7. \A u \in Tabs : token'[u] \in {s, token[u]}
    BY <2>1 DEF SessionInv, SessionTypeOK, CallType, LateType
  <2>8. Named' \subseteq Named \cup {s}
    BY <1>1, <2>1, <2>5, <2>6, <2>7 DEF Named, NoSession
  <2>9. Numbered'
    BY <1>1, <2>2, <2>8 DEF SessionInv, Secrets, Numbered
  <2>10. \A d \in NewLogins' : call'[d].bears = call[d].bears
    BY <2>5, <2>6 DEF NewLogins
  <2>11. Unshared'
    BY <1>1, <2>1, <2>6, <2>8, <2>10 DEF SessionInv, Secrets, Unshared
  <2>12. CookieHeld' /\ Doubted'
    BY <1>1, <2>1, <2>2 DEF SessionInv, CookieHeld, Doubted
  <2> QED BY <2>4, <2>9, <2>11, <2>12 DEF SessionInv, Secrets
<1>4. CASE call[c].kind = "logout"
  <2>1. cookie' = NoSession /\ token' = [token EXCEPT ![t] = NoSession]
    BY <1>1, <1>4 DEF Succeeds, SignedOut
  <2>2. token' \in [Tabs -> Nat] /\ \A u \in Tabs : token'[u] \in {NoSession, token[u]}
    BY <2>1 DEF SessionInv, SessionTypeOK, CallType, LateType, NoSession
  <2>3. SessionTypeOK' /\ Secrets'
    BY <1>1, <2>1, <2>2, CallOver DEF SessionInv, SessionTypeOK, CallType, LateType
  <2> QED BY <1>1, <2>1, <2>3 DEF SessionInv, CookieHeld, Doubted
<1>5. CASE call[c].kind = "get"
  <2>1. cookie' = cookie /\ token' = token
    BY <1>5 DEF Succeeds, tabVars
  <2>2. SessionTypeOK' /\ Secrets' /\ \A d \in Calls \ {c} : call'[d] = call[d]
    BY <1>1, <2>1, CallOver DEF SessionInv, SessionTypeOK, CallType, LateType
  <2>3. CookieHeld' /\ Doubted'
    BY <1>1, <1>5, <2>1, <2>2 DEF SessionInv, CookieHeld, Doubted
  <2> QED BY <2>2, <2>3 DEF SessionInv
<1> QED BY <1>2, <1>3, <1>4, <1>5
LEMMA CallDeniedKeeps == ASSUME SessionInv, NEW c \in Calls, Denied(c) PROVE SessionInv'
<1> DEFINE t == c[1]
<1>1. /\ call[c].at = "denied" /\ t \in Tabs
      /\ UNCHANGED <<live, issued, cookie, unanswered, doubtful>>
  BY DEF Denied, serverVars, boundVars, Calls
<1>2. CASE Rejected(c) /\ UNCHANGED refresh
  <2>1. SessionTypeOK' /\ Secrets' /\ \A d \in Calls \ {c} : call'[d] = call[d]
    BY <1>1, <1>2, CallOver, RejectedFacts DEF SessionInv, SessionTypeOK
  <2>2. CookieHeld' /\ Doubted'
    BY <1>1, <1>2, <2>1 DEF SessionInv, CookieHeld, Doubted
  <2> QED BY <2>1, <2>2 DEF SessionInv
<1>3. ASSUME call' = [call EXCEPT ![c].at = "waiting"], UNCHANGED <<token, refresh>>
      PROVE  SessionInv'
  <2>1. SessionTypeOK' /\ Secrets' /\ \A d \in Calls \ {c} : call'[d] = call[d]
    BY <1>1, <1>3, CallMoves
  <2>2. CookieHeld' /\ Doubted'
    BY <1>1, <1>3, <2>1 DEF SessionInv, CookieHeld, Doubted
  <2> QED BY <2>1, <2>2 DEF SessionInv
<1>4. ASSUME call' = [call EXCEPT ![c].at = "waiting"], UNCHANGED token,
             refresh[t] = NoRefresh, refresh' = [refresh EXCEPT ![t] = Asked]
      PROVE  SessionInv'
  <2>1. Asked = [at |-> "asked", carries |-> cookie, gets |-> 0] /\ refresh[t].at = "none"
    BY <1>4 DEF Asked, NoRefresh, NoSession
  <2>2. SessionTypeOK'
    BY <1>1, <1>4, <2>1 DEF SessionInv, SessionTypeOK, CallType
  <2>3. \A d \in Calls \ {c} : call'[d] = call[d]
    BY <1>4 DEF SessionInv, SessionTypeOK
  <2>4. call'[c].at = "waiting" /\ call'[c].bears = call[c].bears
    BY <1>4 DEF SessionInv, SessionTypeOK, CallType
  <2>5. \A u \in Tabs : refresh'[u] = IF u = t THEN Asked ELSE refresh[u]
    BY <1>4 DEF SessionInv, SessionTypeOK
  <2>6. NewLogins' = NewLogins /\ c \notin NewLogins
    BY <1>1, <2>3, <2>4 DEF NewLogins
  <2>7. NewRefreshes' = NewRefreshes
    BY <2>1, <2>5 DEF NewRefreshes
  <2>8. \A d \in Calls : call'[d].bears = call[d].bears
    BY <2>3, <2>4
  <2>9. Named' \subseteq Named
    BY <1>1, <1>4, <2>1, <2>5, <2>6, <2>8 DEF Named
  <2>10. /\ \A u \in NewRefreshes' : refresh'[u].gets = refresh[u].gets
         /\ \A d \in NewLogins' : call'[d].bears = call[d].bears
    BY <2>1, <2>5, <2>6, <2>7, <2>8 DEF NewRefreshes, NewLogins
  <2>11. Secrets'
    BY <1>1, <2>6, <2>7, <2>9, <2>10, NothingIssued
  <2>12. CookieHeld' /\ Doubted'
    BY <1>1, <2>1, <2>3, <2>5 DEF SessionInv, CookieHeld, Doubted
  <2> QED BY <2>2, <2>11, <2>12 DEF SessionInv
<1> QED BY <1>2, <1>3, <1>4 DEF Denied

-----------------------------------------------------------------------------
(* The server by itself *)

LEMMA ServerKeeps ==
    ASSUME SessionInv,
           \/ \E s \in fresh : AccessExpires(s)
           \/ \E r \in unanswered : ServeLate(r)
    PROVE  SessionInv'
<1>1. CASE \E s \in fresh : AccessExpires(s)
  <2>1. UNCHANGED <<live, issued, cookie, token, refresh, call, unanswered, doubtful>>
    BY <1>1 DEF AccessExpires, tabVars, boundVars
  <2> QED
    BY <2>1 DEF SessionInv, SessionTypeOK, Secrets, Numbered, Unshared, NewRefreshes, NewLogins,
                Named, CookieHeld, Doubted
<1>2. ASSUME NEW r \in unanswered, ServeLate(r) PROVE SessionInv'
  <2>1. /\ unanswered' = unanswered \ {r} /\ live' \in {live, live \ {r.session}}
        /\ UNCHANGED <<issued, cookie, token, refresh, call, doubtful>>
    BY <1>2 DEF ServeLate, tabVars
  <2>2. SessionTypeOK'
    BY <2>1 DEF SessionInv, SessionTypeOK
  <2>3. NewRefreshes' = NewRefreshes /\ NewLogins' = NewLogins
    BY <2>1 DEF NewRefreshes, NewLogins
  <2>4. Named' \subseteq Named /\ r.session \in Named
    BY <2>1, <2>3 DEF Named
  <2>5. Secrets'
    BY <2>1, <2>3, <2>4, NothingIssued
  <2>6. r.session \in doubtful
    BY DEF SessionInv, Doubted
  <2>7. CookieHeld' /\ Doubted'
    BY <2>1, <2>6 DEF SessionInv, CookieHeld, Doubted
  <2> QED BY <2>2, <2>5, <2>7 DEF SessionInv
<1> QED BY <1>1, <1>2

-----------------------------------------------------------------------------
LEMMA InitSession == SessionInit => SessionInv
<1> SUFFICES ASSUME SessionInit PROVE SessionInv
  OBVIOUS
<1>1. /\ live = {1} /\ issued = 1 /\ cookie = 1 /\ unanswered = {}
      /\ token = [t \in Tabs |-> 0]
      /\ refresh = [t \in Tabs |-> [at |-> "none", carries |-> 0, gets |-> 0]]
      /\ call = [c \in Calls |-> [at |-> "idle", kind |-> "get", bears |-> 0, retried |-> FALSE]]
  BY DEF SessionInit, NoRefresh, IdleCall, NoSession
<1>2. SessionTypeOK
  BY <1>1 DEF SessionTypeOK, CallType
<1>3. NewRefreshes = {} /\ NewLogins = {} /\ Named \subseteq {0, 1}
  BY <1>1 DEF NewRefreshes, NewLogins, Named, NoSession
<1>4. Secrets
  BY <1>1, <1>3 DEF Secrets, Numbered, Unshared
<1> QED BY <1>1, <1>2, <1>4 DEF SessionInv, CookieHeld, Doubted

LEMMA NextSession == ASSUME SessionInv, [SessionNext]_sessionVars PROVE SessionInv'
<1>1. ASSUME NEW t \in Tabs,
             \/ Open(t) \/ RefreshFinds(t) \/ RefreshIssues(t)
             \/ RefreshSucceeds(t) \/ RefreshDenied(t) \/ RefreshDrops(t)
      PROVE  SessionInv'
  BY <1>1, OpenKeeps, FindsKeeps, IssuesKeeps, SucceedsKeeps, DeniedKeeps, DropsKeeps
<1>2. ASSUME NEW c \in Calls,
             \/ \E kind \in {"get", "login", "logout"} : Send(c, kind)
             \/ ServeLogin(c) \/ ServeCall(c) \/ Succeeds(c) \/ Denied(c) \/ CallDrops(c)
      PROVE  SessionInv'
  BY <1>2, SendKeeps, ServeLoginKeeps, ServeCallKeeps, CallSucceedsKeeps, CallDeniedKeeps, CallDropsKeeps
<1>3. CASE UNCHANGED sessionVars
  BY <1>3 DEF sessionVars, serverVars, tabVars, boundVars, SessionInv, SessionTypeOK, Secrets, Numbered,
              Unshared, NewRefreshes, NewLogins, Named, CookieHeld, Doubted
<1> QED BY <1>1, <1>2, <1>3, ServerKeeps DEF SessionNext

\* Whichever tab refreshes, signs in or out, and however their answers are mixed or
\* lost, the cookie names a session that the server accepts, or one that a request
\* under way or without an answer was to revoke.
THEOREM CookieStaysLive == SessionSpec => []CookieIsLive
<1>1. SessionInv => CookieIsLive
  <2> SUFFICES ASSUME SessionInv PROVE CookieIsLive
    OBVIOUS
  <2>1. ASSUME NEW t \in Tabs, refresh[t].at = "issued" PROVE refresh[t] # NoRefresh
    BY <2>1 DEF NoRefresh
  <2> QED BY <2>1 DEF SessionInv, CookieHeld, CookieIsLive
<1>2. SessionInit => SessionInv
  BY InitSession
<1>3. SessionInv /\ [SessionNext]_sessionVars => SessionInv'
  BY NextSession
<1> QED BY <1>1, <1>2, <1>3, PTL DEF SessionSpec

-----------------------------------------------------------------------------
(* The prediction page *)

\* The page alone, as a specification; nothing below needs its fairness.
PageSpec == PageInit /\ [][PageNext]_pageVars

\* The stages of a submission that waits for an answer.
UnderWay == {"models", "post"} \cup Polling

\* What has sent its POST and got an answer.
Answered == Polling \cup {"over"}

\* The poll controller and the aborted submissions have their POST answered.
PageInv ==
    /\ flow \in [Predictions -> {"idle", "over"} \cup UnderWay]
    /\ controller # None => controller \in Predictions /\ flow[controller] \in Answered
    /\ aborted \subseteq {p \in Predictions : flow[p] \in Answered}
    /\ LoadingIsWork

LEMMA InitPage == PageInit => PageInv
BY DEF PageInit, ClientInit, PageInv, LoadingIsWork

\* A submission that goes on still waits, one that ends clears the flag.
LEMMA FlowMoves ==
    ASSUME PageInv, NEW p \in Predictions, NEW stage \in UnderWay \cup {"over"},
           flow' = [flow EXCEPT ![p] = stage],
           flow[p] \in Answered => stage \in Answered,
           controller' = None \/ controller' = controller \/ (controller' = p /\ stage \in Answered),
           aborted' \subseteq aborted \cup ({controller} \ {None}),
           stage = "over" => loading' = FALSE \/ p \in stranded',
           picking \subseteq picking', stranded \subseteq stranded'
    PROVE  PageInv'
<1>1. flow' \in [Predictions -> {"idle", "over"} \cup UnderWay]
  BY DEF PageInv, UnderWay
<1>2. \A q \in Predictions : flow[q] \in Answered => flow'[q] \in Answered
  BY DEF PageInv
<1>3. flow'[p] = stage
  BY DEF PageInv
<1>4. controller' # None => controller' \in Predictions /\ flow'[controller'] \in Answered
  BY <1>2, <1>3 DEF PageInv
<1>5. aborted' \subseteq {q \in Predictions : flow'[q] \in Answered}
  BY <1>2 DEF PageInv
<1>6. LoadingIsWork'
  <2>1. CASE stage # "over"
    BY <2>1, <1>3 DEF LoadingIsWork, UnderWay
  <2>2. CASE stage = "over"
    BY <2>2 DEF LoadingIsWork
  <2> QED BY <2>1, <2>2
<1> QED BY <1>1, <1>4, <1>5, <1>6 DEF PageInv

LEMMA EndMoves ==
    ASSUME PageInv, NEW p \in Predictions, End(p)
    PROVE  PageInv'
BY FlowMoves DEF End, UnderWay, Answered

LEMMA StepPage == PageInv /\ [PageNext]_pageVars => PageInv'
<1> SUFFICES ASSUME PageInv, [PageNext]_pageVars PROVE PageInv'
  OBVIOUS
<1>1. CASE UNCHANGED pageVars
  BY <1>1 DEF pageVars, clientVars, PageInv, LoadingIsWork
<1> SUFFICES ASSUME NEW p \in Predictions, Browser(p) \/ Server(p) PROVE PageInv'
  BY <1>1 DEF PageNext
<1>2. CASE Submit(p)
  <2>1. PICK stage \in {"post", "models", "over"} :
            /\ flow' = [flow EXCEPT ![p] = stage]
            /\ stranded' = IF stage = "over" THEN stranded \cup {p} ELSE stranded
    BY <1>2 DEF Submit, GoOn, ReturnEarly
  <2>2. /\ flow[p] = "idle" /\ controller' = None /\ picking' = picking
        /\ aborted' = IF controller = None THEN aborted ELSE aborted \cup {controller}
    BY <1>2 DEF Submit, CancelPolling
  <2>3. flow[p] \notin Answered /\ stage \in UnderWay \cup {"over"}
    BY <2>2 DEF Answered, UnderWay, Polling
  <2>4. flow' = [flow EXCEPT ![p] = stage] /\ (stage = "over" => p \in stranded') /\ stranded \subseteq stranded'
    BY <2>1
  <2>5. (controller' = None \/ controller' = controller) /\ aborted' \subseteq aborted \cup ({controller} \ {None})
    BY <2>2
  <2> HIDE DEF UnderWay, Answered
  <2> QED BY <2>2, <2>3, <2>4, <2>5, FlowMoves
<1>3. CASE ModelsArrive(p)
  <2>1. PICK stage \in {"post", "over"} :
            /\ flow' = [flow EXCEPT ![p] = stage]
            /\ stranded' = IF stage = "over" THEN stranded \cup {p} ELSE stranded
    BY <1>3 DEF ModelsArrive, GoOn, ReturnEarly
  <2>2. /\ flow[p] = "models" /\ controller' = controller /\ picking' = picking /\ aborted' = aborted
    BY <1>3 DEF ModelsArrive
  <2>3. flow[p] \notin Answered /\ stage \in UnderWay \cup {"over"}
    BY <2>2 DEF Answered, UnderWay, Polling
  <2>4. flow' = [flow EXCEPT ![p] = stage] /\ (stage = "over" => p \in stranded') /\ stranded \subseteq stranded'
    BY <2>1
  <2>5. (controller' = None \/ controller' = controller) /\ aborted' \subseteq aborted \cup ({controller} \ {None})
    BY <2>2
  <2> HIDE DEF UnderWay, Answered
  <2> QED BY <2>2, <2>3, <2>4, <2>5, FlowMoves
<1>4. CASE Expire(p)
  BY <1>4 DEF Expire, PageInv, LoadingIsWork
<1>5. CASE PollAgain(p)
  <2>1. CASE End(p)
    BY <2>1, EndMoves
  <2>2. CASE flow' = [flow EXCEPT ![p] = "get"] /\ UNCHANGED <<aborted, controller, picking, stranded>>
    BY <2>2, FlowMoves DEF UnderWay, Answered, Polling
  <2> QED BY <1>5, <2>1, <2>2 DEF PollAgain
<1>6. CASE PostQueued(p)
  <2>1. flow' = [flow EXCEPT ![p] = "get"] /\ controller' = p /\ UNCHANGED <<aborted, picking, stranded>>
    BY <1>6 DEF PostQueued, PostAnswered
  <2> QED BY <2>1, FlowMoves DEF UnderWay, Answered, Polling
<1>7. CASE Refused(p) \/ PostLost(p) \/ Invalid(p) \/ PollLost(p) \/ PollGivenUp(p)
  BY <1>7, EndMoves
    DEF Refused, PostLost, Invalid, PollLost, PollGivenUp, PostFails, PostInvalid, PollFails, PollCanceled, Simulate
<1>8. CASE PollArrives(p)
  <2>1. CASE End(p)
    BY <2>1, EndMoves
  <2>2. CASE flow' = [flow EXCEPT ![p] = "pause"] /\ UNCHANGED <<aborted, controller, picking, stranded>>
    BY <2>2, FlowMoves DEF UnderWay, Answered, Polling
  <2> QED BY <1>8, <2>1, <2>2 DEF PollArrives, PollAnswered, Polled
<1>9. CASE Pick(p)
  <2>1. /\ UNCHANGED flow /\ controller' = None /\ picking' = picking \cup {p}
        /\ aborted' = IF controller = None THEN aborted ELSE aborted \cup {controller}
    BY <1>9 DEF Pick, Select, CancelPolling
  <2> QED BY <2>1 DEF PageInv, LoadingIsWork
<1>10. CASE PickArrives(p) \/ PickLost(p)
  <2>1. PickEnds(p)
    BY <1>10 DEF PickArrives, PickLost, Selected, SelectFails
  <2> QED BY <2>1 DEF PickEnds, PageInv, LoadingIsWork
<1>11. CASE Server(p)
  BY <1>11 DEF Server, Store, ReadRow, ReadPick, clientVars, PageInv, LoadingIsWork
<1> QED BY <1>2, <1>3, <1>4, <1>5, <1>6, <1>7, <1>8, <1>9, <1>10, <1>11 DEF Browser, Alone

\* The form is never left disabled by a loading flag that nothing will clear, for any
\* number of submissions and selections, but by one that found no model.
THEOREM PageLoadsForWork == PageSpec => []LoadingIsWork
<1>1. PageSpec => []PageInv
  BY InitPage, StepPage, PTL DEF PageSpec
<1>2. PageInv => LoadingIsWork
  BY DEF PageInv
<1> QED BY <1>1, <1>2, PTL

\* What may become of the answers shown for a submission that was cancelled.
\* What AbortedIsQuiet says of one step.
Quiet == \A p \in aborted \ late :
             shown' # shown /\ shown'.of = p /\ p \notin picking => shown'.status = "simulated"

LEMMA StepQuiet == PageInv /\ [PageNext]_pageVars => [Quiet]_pageVars
<1> SUFFICES ASSUME PageInv, NEW q \in Predictions, Browser(q) \/ Server(q),
                    NEW p \in aborted \ late, shown' # shown, shown'.of = p, p \notin picking
             PROVE  shown'.status = "simulated"
  BY DEF PageNext, Quiet
<1> USE DEF Show
<1>1. flow[p] \in Answered
  BY DEF PageInv
<1>2. CASE Submit(q) \/ ModelsArrive(q)
  BY <1>2 DEF Submit, ModelsArrive, GoOn, ReturnEarly
<1>3. CASE Expire(q)
  BY <1>3 DEF Expire
<1>4. CASE PollAgain(q)
  BY <1>4 DEF PollAgain
<1>5. CASE PostQueued(q)
  BY <1>1, <1>5 DEF PostQueued, PostAnswered, Answered, Polling
<1>6. CASE Refused(q) \/ PostLost(q) \/ Invalid(q) \/ PollLost(q) \/ PollGivenUp(q)
  BY <1>6 DEF Refused, PostLost, Invalid, PollLost, PollGivenUp, PostFails, PostInvalid, PollFails, PollCanceled, Simulate
<1>7. CASE PollArrives(q)
  BY <1>7 DEF PollArrives, PollAnswered, Polled
<1>8. CASE Pick(q) \/ PickArrives(q) \/ PickLost(q)
  BY <1>8 DEF Pick, PickArrives, PickLost, Select, Selected, SelectFails, PickEnds
<1>9. CASE Server(q)
  BY <1>9 DEF Server, Store, ReadRow, ReadPick, clientVars
<1> QED BY <1>2, <1>3, <1>4, <1>5, <1>6, <1>7, <1>8, <1>9 DEF Browser, Alone

\* A cancelled submission shows no answer of the server any more, whatever is still
\* under way for it.
THEOREM PageKeepsQuiet == PageSpec => AbortedIsQuiet
<1>1. PageSpec => []PageInv
  BY InitPage, StepPage, PTL DEF PageSpec
<1> QED BY <1>1, StepQuiet, PTL DEF PageSpec, AbortedIsQuiet, Quiet
=============================================================================
