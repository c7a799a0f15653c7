----------------------- MODULE AggregationCacheProofs -----------------------
(***************************************************************************)
(* Theorems about AggregationCache, for every number of batches, readers   *)
(* and cache clears: types, the freshness of what is cached under a        *)
(* version, and the implementation of FreshReads.                          *)
(***************************************************************************)
EXTENDS AggregationCache, TLAPS

-----------------------------------------------------------------------------
(* Types *)

\* Readers and importers keep to their own steps, and a version is used in a key
\* only after it was read.
Placed ==
    /\ \A r \in Readers :
        /\ pc[r] \in ReaderSteps
        /\ pc[r] \in {"lookup", "query", "store"} => memory[r].version # 0
        /\ pc[r] # "tileKey" /\ memory[r].wantsTile => memory[r].tileVersion # 0
    /\ \A b \in Batches :
        /\ pc[b] \in ImporterSteps
        /\ pc[b] = "writeBack" => memory[b].version # 0

TypeInv == TypeOK /\ Placed

LEMMA InitType == Init => TypeInv
  <1> SUFFICES ASSUME Init PROVE TypeInv
    OBVIOUS
  <1>1. Blank \in Memory
    BY DEF Blank, Memory
  <1>2. pc \in [Processes -> ReaderSteps \cup ImporterSteps]
    BY DEF Init, ReaderSteps, ImporterSteps
  <1>3. TypeOK
    <2>1. version \in Nat /\ memory \in [Processes -> Memory]
      BY <1>1, VersionAssumption DEF Init
    <2>2. /\ answer \in [Readers -> SUBSET Batches]
          /\ floor \in [Readers -> SUBSET Batches]
          /\ bumped \in [Batches -> Nat]
      BY DEF Init
    <2> QED BY <1>2, <2>1, <2>2 DEF Init, TypeOK
  <1>4. Placed
    BY ProcessAssumption DEF Init, Placed, Processes, ReaderSteps, ImporterSteps, Blank
  <1> QED BY <1>3, <1>4 DEF TypeInv

\* The entries after a store are entries.
LEMMA PutType ==
    ASSUME NEW kind \in EntryKinds, NEW v \in Nat \ {0}, NEW value \in SUBSET Batches,
           entries \in SUBSET Entries, Put(kind, v, value)
    PROVE  entries' \in SUBSET Entries
  BY DEF Put, Entries

LEMMA VersionRead == TypeOK => GetVersion \in Nat \ {0}
  BY DEF TypeOK, GetVersion

LEMMA InitialiseType ==
    ASSUME TypeInv, NEW p \in Processes, Initialise(p) \/ Create(p)
    PROVE  TypeInv'
  <1> USE DEF TypeInv, TypeOK, Go, cacheVars, readVars, lossVars
  <1>1. CASE Initialise(p)
    <2>1. TypeOK'
      BY <1>1 DEF Initialise, ReaderSteps
    <2>2. Placed'
      BY <1>1, ProcessAssumption
      DEF Initialise, Placed, Processes, ReaderSteps, ImporterSteps
    <2> QED BY <2>1, <2>2
  <1>2. CASE Create(p)
    <2>1. TypeOK'
      BY <1>2 DEF Create, ReaderSteps
    <2>2. Placed'
      BY <1>2, ProcessAssumption DEF Create, Placed, Processes, ReaderSteps, ImporterSteps
    <2> QED BY <2>1, <2>2
  <1> QED BY <1>1, <1>2

LEMMA ReaderType ==
    ASSUME TypeInv, NEW r \in Readers,
           ReaderStep(r) \/ \E tile \in BOOLEAN : Begin(r, tile)
    PROVE  TypeInv'
  <1> USE DEF TypeInv, TypeOK, Go, cacheVars, readVars, lossVars, Processes
  <1>m. memory[r] \in Memory /\ Blank \in Memory
    BY DEF Blank, Memory
  <1>v. GetVersion \in Nat \ {0}
    BY VersionRead
  <1>p. r \in Processes /\ r \notin Batches
    BY ProcessAssumption
  <1>1. CASE \E tile \in BOOLEAN : Begin(r, tile)
    <2>1. TypeOK'
      BY <1>1, <1>m DEF Begin, Announced, Memory, ReaderSteps, Blank
    <2>2. Placed'
      BY <1>1, <1>p DEF Begin, Placed, ReaderSteps, Blank
    <2> QED BY <2>1, <2>2
  <1>2. CASE TileKey(r)
    <2>1. TypeOK'
      BY <1>2, <1>m, <1>v DEF TileKey, Memory, ReaderSteps
    <2>2. Placed'
      BY <1>2, <1>p, <1>v DEF TileKey, Placed, Memory, ReaderSteps
    <2> QED BY <2>1, <2>2
  <1>3. CASE TileHit(r)
    <2>1. TypeOK'
      BY <1>3, <1>m DEF TileHit, Finish, At, Entries, ReaderSteps
    <2>2. Placed'
      BY <1>3, <1>p DEF TileHit, Finish, Placed, Blank, ReaderSteps
    <2> QED BY <2>1, <2>2
  <1>4. CASE TileMiss(r)
    BY <1>4, <1>p DEF TileMiss, Placed, ReaderSteps
  <1>5. CASE Initialise(r) \/ Create(r)
    BY <1>5, <1>p, InitialiseType
  <1>6. CASE ReadVersion(r)
    <2>1. TypeOK'
      BY <1>6, <1>m, <1>v DEF ReadVersion, Memory, ReaderSteps
    <2>2. Placed'
      BY <1>6, <1>p, <1>v DEF ReadVersion, Placed, Memory, ReaderSteps
    <2> QED BY <2>1, <2>2
  <1>7. CASE Hit(r)
    <2>1. TypeOK'
      BY <1>7, <1>m DEF Hit, At, Entries, Memory, ReaderSteps
    <2>2. Placed'
      BY <1>7, <1>p DEF Hit, Placed, Memory, ReaderSteps
    <2> QED BY <2>1, <2>2
  <1>8. CASE Miss(r)
    BY <1>8, <1>p DEF Miss, Placed, ReaderSteps
  <1>9. CASE Query(r)
    <2>1. TypeOK'
      BY <1>9, <1>m DEF Query, Memory, ReaderSteps
    <2>2. Placed'
      BY <1>9, <1>p DEF Query, Placed, Memory, ReaderSteps
    <2> QED BY <2>1, <2>2
  <1>10. CASE StoreAggregate(r)
    <2>1. memory[r].version \in Nat \ {0} /\ memory[r].loaded \in SUBSET Batches
      BY <1>10, <1>m DEF StoreAggregate, Placed, Memory
    <2>2. entries' \in SUBSET Entries
      BY <1>10, <2>1, PutType DEF StoreAggregate, EntryKinds
    <2> QED BY <1>10, <1>p, <2>2 DEF StoreAggregate, Placed, ReaderSteps
  <1>11. CASE Respond(r)
    <2>1. memory[r].loaded \in SUBSET Batches
      BY <1>m DEF Memory
    <2>2. ASSUME memory[r].wantsTile PROVE memory[r].tileVersion \in Nat \ {0}
      BY <1>11, <1>m, <2>2 DEF Respond, Placed, Memory
    <2>3. entries' \in SUBSET Entries
      BY <1>11, <2>1, <2>2, PutType DEF Respond, EntryKinds
    <2>4. TypeOK'
      BY <1>11, <1>m, <2>1, <2>3 DEF Respond, Finish, ReaderSteps
    <2>5. Placed'
      BY <1>11, <1>p DEF Respond, Finish, Placed, Blank, ReaderSteps
    <2> QED BY <2>4, <2>5
  <1> QED
    BY <1>1, <1>2, <1>3, <1>4, <1>5, <1>6, <1>7, <1>8, <1>9, <1>10, <1>11
    DEF ReaderStep

LEMMA ImporterType ==
    ASSUME TypeInv, NEW b \in Batches, Insert(b) \/ BumpStep(b) \/ Crash(b)
    PROVE  TypeInv'
  <1> USE DEF TypeInv, TypeOK, Go, cacheVars, readVars, lossVars, Processes
  <1>m. memory[b] \in Memory /\ Blank \in Memory
    BY DEF Blank, Memory
  <1>v. GetVersion \in Nat \ {0}
    BY VersionRead
  <1>p. b \in Processes /\ b \notin Readers
    BY ProcessAssumption
  <1>1. CASE Insert(b)
    BY <1>1, <1>p DEF Insert, Placed, ReaderSteps, ImporterSteps
  <1>2. CASE Initialise(b) \/ Create(b)
    BY <1>2, <1>p, InitialiseType
  <1>3. CASE Increment(b)
    BY <1>3, <1>p DEF Increment, Placed, ImporterSteps
  <1>4. CASE IncrementFails(b)
    BY <1>4, <1>p DEF IncrementFails, Placed, ImporterSteps
  <1>5. CASE ReadBack(b)
    <2>1. TypeOK'
      BY <1>5, <1>m, <1>v DEF ReadBack, Memory, ImporterSteps
    <2>2. Placed'
      BY <1>5, <1>p, <1>m, <1>v DEF ReadBack, Placed, Memory, ImporterSteps
    <2> QED BY <2>1, <2>2
  <1>6. CASE WriteBack(b)
    <2>1. TypeOK'
      BY <1>6, <1>m DEF WriteBack, Memory, ImporterSteps
    <2>2. Placed'
      BY <1>6, <1>p DEF WriteBack, Placed, ImporterSteps
    <2> QED BY <2>1, <2>2
  <1>7. CASE Crash(b)
    <2>1. TypeOK'
      BY <1>7, <1>m DEF Crash, ImporterSteps
    <2>2. Placed'
      BY <1>7, <1>p DEF Crash, Placed, ImporterSteps
    <2> QED BY <2>1, <2>2
  <1> QED
    BY <1>1, <1>2, <1>3, <1>4, <1>5, <1>6, <1>7 DEF BumpStep

LEMMA StoreType ==
    ASSUME TypeInv, Clear \/ \E kind \in EntryKinds, v \in Versions : Expire(kind, v)
    PROVE  TypeInv'
  <1>1. Placed'
    BY DEF Clear, Expire, TypeInv, Placed, readVars
  <1>2. CASE Clear
    BY <1>1, <1>2 DEF Clear, TypeInv, TypeOK, readVars
  <1>3. CASE \E kind \in EntryKinds, v \in Versions : Expire(kind, v)
    <2>1. entries' \subseteq entries
      BY <1>3 DEF Expire
    <2> QED BY <1>1, <1>3, <2>1 DEF Expire, TypeInv, TypeOK, readVars, lossVars
  <1> QED BY <1>2, <1>3

LEMMA NextType == TypeInv /\ [Next]_vars => TypeInv'
  <1> SUFFICES ASSUME TypeInv, [Next]_vars PROVE TypeInv'
    OBVIOUS
  <1>1. CASE UNCHANGED vars
    BY <1>1 DEF vars, cacheVars, readVars, lossVars, TypeInv, TypeOK, Placed
  <1> QED BY <1>1, ReaderType, ImporterType, StoreType DEF Next

\* Every reachable state is type correct; in particular no entry is ever stored
\* under a version that was not read.
THEOREM TypeCorrect == Spec => []TypeOK
  <1>1. TypeInv => TypeOK
    BY DEF TypeInv
  <1> QED BY <1>1, InitType, NextType, PTL DEF Spec

-----------------------------------------------------------------------------
(* Freshness *)

\* What holds even when the version is lost: announced batches are stored, and
\* nothing is cached or held that is not.
StoredInv ==
    /\ \A b \in Batches :
        /\ pc[b] # "waiting" => b \in crimes
        /\ bumped[b] # 0 => pc[b] = "announced"
    /\ \A e \in entries : e.value \subseteq crimes
    /\ \A r \in Readers : memory[r].loaded \subseteq crimes

\* The version never falls behind a bump, is present when it is incremented, and
\* is never made up.
VersionInv ==
    /\ \A b \in Batches :
        /\ bumped[b] <= GetVersion
        /\ pc[b] \notin {"readBack", "writeBack"}
    /\ \A p \in Processes : pc[p] = "version" => version # 0

EntryInv(e) ==
    /\ e.version <= GetVersion
    /\ AnnouncedBy(e.version) \subseteq e.value

\* What a reader holds is as fresh as the version it read, and that version is
\* as fresh as the reader's start.
ReaderInv(r) ==
    /\ memory[r].version <= GetVersion
    /\ memory[r].tileVersion <= GetVersion
    /\ floor[r] \subseteq Announced
    /\ pc[r] = "tileLookup" => floor[r] \subseteq AnnouncedBy(memory[r].tileVersion)
    /\ pc[r] \in {"lookup", "query", "store"} =>
        /\ floor[r] \subseteq AnnouncedBy(memory[r].version)
        /\ memory[r].tileVersion <= memory[r].version
    /\ pc[r] = "store" => AnnouncedBy(memory[r].version) \subseteq memory[r].loaded
    /\ pc[r] = "respond" =>
        /\ floor[r] \subseteq memory[r].loaded
        /\ AnnouncedBy(memory[r].tileVersion) \subseteq memory[r].loaded

FreshInv ==
    /\ VersionInv
    /\ \A e \in entries : EntryInv(e)
    /\ \A r \in Readers : ReaderInv(r)

Inv == TypeInv /\ StoredInv /\ (degraded \/ FreshInv)

\* What was announced by a version is not changed by a step that keeps the
\* promise: the versions already written stay as they are.
Stable ==
    /\ GetVersion <= GetVersion'
    /\ Announced \subseteq Announced'
    /\ \A v \in Nat : v <= GetVersion => AnnouncedBy(v)' = AnnouncedBy(v)

LEMMA SameVersions ==
    ASSUME TypeOK, UNCHANGED <<version, bumped>>
    PROVE  Stable
  BY DEF TypeOK, Stable, GetVersion, AnnouncedBy, Announced

\* A later version announces no less, and the current one everything.
LEMMA AnnouncedGrows ==
    ASSUME TypeOK, NEW v \in Nat, NEW w \in Nat, v <= w
    PROVE  AnnouncedBy(v) \subseteq AnnouncedBy(w)
  BY DEF TypeOK, AnnouncedBy

LEMMA AllAnnounced ==
    ASSUME TypeOK, VersionInv
    PROVE  AnnouncedBy(GetVersion) = Announced
  BY VersionRead DEF TypeOK, VersionInv, AnnouncedBy, Announced

\* Readers and entries that a stable step does not touch stay fresh.
LEMMA ReaderKept ==
    ASSUME TypeInv, TypeInv', Stable, NEW r \in Readers, ReaderInv(r),
           pc'[r] = pc[r], memory'[r] = memory[r], floor'[r] = floor[r]
    PROVE  ReaderInv(r)'
  <1>1. memory[r] \in Memory /\ GetVersion \in Nat
    BY VersionRead DEF TypeInv, TypeOK, Processes
  <1>2. memory[r].version \in Nat /\ memory[r].tileVersion \in Nat
    BY <1>1 DEF Memory
  <1>3. GetVersion' \in Nat
    BY DEF TypeInv, TypeOK, GetVersion
  <1>4. /\ memory[r].version <= GetVersion
        /\ memory[r].tileVersion <= GetVersion
    BY DEF ReaderInv
  <1>5. /\ AnnouncedBy(memory[r].version)' = AnnouncedBy(memory[r].version)
        /\ AnnouncedBy(memory[r].tileVersion)' = AnnouncedBy(memory[r].tileVersion)
    <2>1. \A v \in Nat : v <= GetVersion => AnnouncedBy(v)' = AnnouncedBy(v)
      BY DEF Stable
    <2> QED BY <1>2, <1>4, <2>1 DEF AnnouncedBy
  <1>6. /\ memory[r].version <= GetVersion'
        /\ memory[r].tileVersion <= GetVersion'
    BY <1>1, <1>2, <1>3, <1>4 DEF Stable
  <1> QED
    BY <1>5, <1>6 DEF ReaderInv, Stable

LEMMA EntryKept ==
    ASSUME TypeInv, TypeInv', Stable, NEW e \in entries, EntryInv(e)
    PROVE  EntryInv(e)'
  <1>1. e.version \in Nat /\ GetVersion \in Nat /\ GetVersion' \in Nat
    BY VersionRead DEF TypeInv, TypeOK, Entries, GetVersion
  <1>2. AnnouncedBy(e.version)' = AnnouncedBy(e.version)
    BY <1>1 DEF Stable, EntryInv
  <1> QED BY <1>1, <1>2 DEF EntryInv, Stable

\* A step that keeps the versions, leaves other readers alone and stores nothing
\* stale keeps freshness.
LEMMA FreshStep ==
    ASSUME TypeInv, TypeInv', FreshInv, Stable, VersionInv',
           NEW r \in Readers, ReaderInv(r)',
           \A s \in Readers \ {r} :
               pc'[s] = pc[s] /\ memory'[s] = memory[s] /\ floor'[s] = floor[s],
           \A e \in entries' : e \in entries \/ EntryInv(e)'
    PROVE  FreshInv'
  <1>1. \A s \in Readers : ReaderInv(s)'
    BY ReaderKept DEF FreshInv
  <1>2. \A e \in entries' : EntryInv(e)'
    BY EntryKept DEF FreshInv
  <1> QED BY <1>1, <1>2 DEF FreshInv

\* The same for a step of an importer or of the store.
LEMMA FreshElsewhere ==
    ASSUME TypeInv, TypeInv', FreshInv, Stable, VersionInv', entries' \subseteq entries,
           \A s \in Readers :
               pc'[s] = pc[s] /\ memory'[s] = memory[s] /\ floor'[s] = floor[s]
    PROVE  FreshInv'
  <1>1. \A s \in Readers : ReaderInv(s)'
    BY ReaderKept DEF FreshInv
  <1>2. \A e \in entries' : EntryInv(e)'
    BY EntryKept DEF FreshInv
  <1> QED BY <1>1, <1>2 DEF FreshInv

LEMMA InitFresh == Init => Inv
  <1> SUFFICES ASSUME Init PROVE Inv
    OBVIOUS
  <1>1. TypeInv
    BY InitType
  <1>2. \A r \in Readers : r \notin Batches /\ memory[r] = Blank /\ pc[r] = "idle"
    BY ProcessAssumption DEF Init, Processes
  <1>3. \A b \in Batches : pc[b] = "waiting" /\ bumped[b] = 0
    BY ProcessAssumption DEF Init, Processes
  <1>4. GetVersion = 1
    BY VersionAssumption DEF Init, GetVersion
  <1>e. entries = {} /\ (\A r \in Readers : floor[r] = {}) /\ \A p \in Processes : pc[p] # "version"
    BY DEF Init
  <1>b. Blank.loaded = {} /\ Blank.version = 0 /\ Blank.tileVersion = 0
    BY DEF Blank
  <1>5. StoredInv
    BY <1>2, <1>3, <1>e, <1>b DEF StoredInv
  <1>6. VersionInv
    BY <1>3, <1>4, <1>e DEF VersionInv
  <1>7. \A r \in Readers : ReaderInv(r)
    BY <1>2, <1>4, <1>e, <1>b DEF ReaderInv
  <1> QED
    BY <1>1, <1>5, <1>6, <1>7, <1>e DEF Inv, FreshInv

-----------------------------------------------------------------------------
(* What is stored *)

LEMMA StoredNext ==
    ASSUME TypeInv, StoredInv, [Next]_vars
    PROVE  StoredInv'
  <1> USE DEF StoredInv, Go, cacheVars, readVars, lossVars, Processes
  <1>t. /\ pc \in [Processes -> ReaderSteps \cup ImporterSteps]
        /\ memory \in [Processes -> Memory]
        /\ bumped \in [Batches -> Nat]
        /\ Blank.loaded = {}
        /\ \A p \in Processes : memory[p] \in Memory
    BY DEF TypeInv, TypeOK, Blank
  <1>1. ASSUME NEW p \in Processes, Initialise(p) \/ Create(p)
        PROVE  StoredInv'
    BY <1>1, <1>t DEF Initialise, Create
  <1>2. ASSUME NEW r \in Readers, ReaderStep(r) \/ \E tile \in BOOLEAN : Begin(r, tile)
        PROVE  StoredInv'
    <2>p. r \in Processes /\ r \notin Batches
      BY <1>2, ProcessAssumption
    <2>m. memory[r].loaded \subseteq crimes
      BY <1>2
    <2>1. CASE \E tile \in BOOLEAN : Begin(r, tile)
      BY <2>1, <2>p, <1>t DEF Begin, Blank
    <2>2. CASE TileKey(r)
      BY <2>2, <2>p, <2>m, <1>t DEF TileKey, Memory
    <2>3. CASE TileHit(r)
      BY <2>3, <2>p, <1>t DEF TileHit, Finish
    <2>4. CASE TileMiss(r)
      BY <2>4, <2>p, <1>t DEF TileMiss
    <2>5. CASE ReadVersion(r)
      BY <2>5, <2>p, <2>m, <1>t DEF ReadVersion, Memory
    <2>6. CASE Hit(r)
      <3>1. PICK e \in entries : memory' = [memory EXCEPT ![r].loaded = e.value]
        BY <2>6 DEF Hit, At
      <3>2. e.value \subseteq crimes
        OBVIOUS
      <3> QED BY <3>1, <3>2, <2>6, <2>p, <1>t DEF Hit, Memory
    <2>7. CASE Miss(r)
      BY <2>7, <2>p, <1>t DEF Miss
    <2>8. CASE Query(r)
      BY <2>8, <2>p, <1>t DEF Query, Memory
    <2>9. CASE StoreAggregate(r)
      BY <2>9, <2>p, <2>m, <1>t DEF StoreAggregate, Put
    <2>10. CASE Respond(r)
      <3>1. \A e \in entries' : e.value \subseteq crimes
        BY <2>10, <2>m DEF Respond, Put
      <3> QED BY <2>10, <3>1, <2>p, <1>t DEF Respond, Finish
    <2> QED
      BY <1>1, <1>2, <2>p, <2>1, <2>2, <2>3, <2>4, <2>5, <2>6, <2>7, <2>8, <2>9, <2>10
      DEF ReaderStep
  <1>3. ASSUME NEW b \in Batches, Insert(b) \/ BumpStep(b) \/ Crash(b)
        PROVE  StoredInv'
    <2>p. b \in Processes /\ b \notin Readers
      BY <1>3, ProcessAssumption
    <2>1. CASE Insert(b)
      BY <2>1, <2>p, <1>t DEF Insert
    <2>2. CASE Increment(b)
      BY <2>2, <2>p, <1>t DEF Increment
    <2>3. CASE IncrementFails(b)
      BY <2>3, <2>p, <1>t DEF IncrementFails
    <2>4. CASE ReadBack(b)
      BY <2>4, <2>p, <1>t DEF ReadBack
    <2>5. CASE WriteBack(b)
      BY <2>5, <2>p, <1>t DEF WriteBack
    <2>6. CASE Crash(b)
      BY <2>6, <2>p, <1>t DEF Crash
    <2> QED
      BY <1>1, <1>3, <2>p, <2>1, <2>2, <2>3, <2>4, <2>5, <2>6 DEF BumpStep
  <1>4. CASE Clear
    BY <1>4 DEF Clear
  <1>5. CASE \E kind \in EntryKinds, v \in Versions : Expire(kind, v)
    BY <1>5 DEF Expire
  <1>6. CASE UNCHANGED vars
    BY <1>6 DEF vars
  <1> QED BY <1>2, <1>3, <1>4, <1>5, <1>6 DEF Next

-----------------------------------------------------------------------------
(* What is cached is fresh *)

\* A step of a reader.
LEMMA ReaderFresh ==
    ASSUME TypeInv, TypeInv', StoredInv, FreshInv, ~degraded', NEW r \in Readers,
           ReaderStep(r) \/ \E tile \in BOOLEAN : Begin(r, tile)
    PROVE  FreshInv'
  <1> USE DEF Go, cacheVars, readVars, lossVars
  <1>t. /\ pc \in [Processes -> ReaderSteps \cup ImporterSteps]
        /\ memory \in [Processes -> Memory]
        /\ floor \in [Readers -> SUBSET Batches]
        /\ r \in Processes /\ r \notin Batches
        /\ \A s \in Readers : s \in Processes
        /\ \A b \in Batches : b \in Processes
    BY ProcessAssumption DEF TypeInv, TypeOK, Processes
  <1>m. /\ memory[r].version \in Nat
        /\ memory[r].tileVersion \in Nat
        /\ memory[r] \in Memory
    BY <1>t DEF Memory
  <1>v. GetVersion \in Nat \ {0}
    BY VersionRead DEF TypeInv
  <1>a. AnnouncedBy(GetVersion) = Announced
    BY AllAnnounced DEF TypeInv, FreshInv
  <1>i. VersionInv /\ ReaderInv(r) /\ \A e \in entries : EntryInv(e)
    BY DEF FreshInv
  <1>b. Blank.version = 0 /\ Blank.tileVersion = 0 /\ Blank.loaded = {}
    BY DEF Blank
  <1>1. CASE \E tile \in BOOLEAN : Begin(r, tile)
    <2>1. Stable
      BY <1>1, SameVersions DEF Begin, TypeInv
    <2>2. VersionInv'
      BY <1>1, <1>t, <1>i DEF Begin, VersionInv, GetVersion
    <2>3. /\ memory'[r].version = 0 /\ memory'[r].tileVersion = 0
          /\ pc'[r] \in {"tileKey", "init"} /\ floor'[r] = Announced
          /\ Announced' = Announced /\ GetVersion' = GetVersion
      BY <1>1, <1>t, <1>b DEF Begin, Announced, GetVersion, Blank
    <2>4. ReaderInv(r)'
      BY <2>3, <1>v DEF ReaderInv
    <2> QED BY <1>1, <1>t, <2>1, <2>2, <2>4, FreshStep DEF Begin
  <1>2. CASE TileKey(r)
    <2>1. Stable
      BY <1>2, SameVersions DEF TileKey, TypeInv
    <2>2. VersionInv'
      BY <1>2, <1>t, <1>i DEF TileKey, VersionInv, GetVersion
    <2>3. /\ memory'[r].version = memory[r].version
          /\ memory'[r].tileVersion = GetVersion
          /\ pc'[r] = "tileLookup" /\ floor'[r] = floor[r]
          /\ Announced' = Announced /\ GetVersion' = GetVersion
          /\ AnnouncedBy(GetVersion)' = AnnouncedBy(GetVersion)
      BY <1>2, <1>t, <1>m DEF TileKey, Announced, AnnouncedBy, GetVersion, Memory
    <2>4. ReaderInv(r)'
      BY <2>3, <1>a, <1>i, <1>v DEF ReaderInv, AnnouncedBy
    <2> QED BY <1>2, <1>t, <2>1, <2>2, <2>4, FreshStep DEF TileKey
  <1>3. CASE TileHit(r)
    <2>1. Stable
      BY <1>3, SameVersions DEF TileHit, TypeInv
    <2>2. VersionInv'
      BY <1>3, <1>t, <1>i DEF TileHit, VersionInv, GetVersion
    <2>3. /\ memory'[r].version = 0 /\ memory'[r].tileVersion = 0
          /\ pc'[r] = "idle" /\ floor'[r] = {}
          /\ GetVersion' = GetVersion
      BY <1>3, <1>t, <1>b DEF TileHit, Finish, GetVersion
    <2>4. ReaderInv(r)'
      BY <2>3, <1>v DEF ReaderInv
    <2> QED BY <1>3, <1>t, <2>1, <2>2, <2>4, FreshStep DEF TileHit, Finish
  <1>4. CASE TileMiss(r)
    <2>1. Stable
      BY <1>4, SameVersions DEF TileMiss, TypeInv
    <2>2. VersionInv'
      BY <1>4, <1>t, <1>i DEF TileMiss, VersionInv, GetVersion
    <2>3. /\ memory' = memory /\ pc'[r] = "init" /\ floor' = floor
          /\ Announced' = Announced /\ GetVersion' = GetVersion
      BY <1>4, <1>t DEF TileMiss, Announced, GetVersion
    <2>4. ReaderInv(r)'
      BY <2>3, <1>i DEF ReaderInv
    <2> QED BY <1>4, <1>t, <2>1, <2>2, <2>4, FreshStep DEF TileMiss
  <1>5. CASE Initialise(r)
    <2>1. Stable
      BY <1>5, SameVersions DEF Initialise, TypeInv
    <2>2. VersionInv'
      BY <1>5, <1>t, <1>i DEF Initialise, VersionInv, GetVersion
    <2>3. /\ memory' = memory /\ pc'[r] \in {"create", "version"} /\ floor' = floor
          /\ Announced' = Announced /\ GetVersion' = GetVersion
      BY <1>5, <1>t DEF Initialise, Announced, GetVersion
    <2>4. ReaderInv(r)'
      BY <2>3, <1>i DEF ReaderInv
    <2> QED BY <1>5, <1>t, <2>1, <2>2, <2>4, FreshStep DEF Initialise
  <1>6. CASE Create(r)
    <2>0. ~(version > 1) /\ version \in Nat /\ version' = 1
      BY <1>6 DEF Create, TypeInv, TypeOK
    <2>1. GetVersion' = GetVersion /\ version' = 1
      BY <2>0 DEF GetVersion
    <2>2. Stable
      BY <1>6, <1>v, <2>1 DEF Create, Stable, Announced, AnnouncedBy
    <2>3. VersionInv'
      BY <1>6, <1>t, <1>i, <2>1 DEF Create, VersionInv
    <2>4. /\ memory' = memory /\ pc'[r] = "version" /\ floor' = floor
          /\ Announced' = Announced
      BY <1>6, <1>t DEF Create, Announced
    <2>5. ReaderInv(r)'
      BY <2>1, <2>4, <1>i DEF ReaderInv
    <2> QED BY <1>6, <1>t, <2>2, <2>3, <2>5, FreshStep DEF Create
  <1>7. CASE ReadVersion(r)
    <2>1. Stable
      BY <1>7, SameVersions DEF ReadVersion, TypeInv
    <2>2. VersionInv'
      BY <1>7, <1>t, <1>i DEF ReadVersion, VersionInv, GetVersion
    <2>3. /\ memory'[r].version = GetVersion
          /\ memory'[r].tileVersion = memory[r].tileVersion
          /\ pc'[r] = "lookup" /\ floor'[r] = floor[r]
          /\ Announced' = Announced /\ GetVersion' = GetVersion
          /\ AnnouncedBy(GetVersion)' = AnnouncedBy(GetVersion)
      BY <1>7, <1>t, <1>m DEF ReadVersion, Announced, AnnouncedBy, GetVersion, Memory
    <2>4. ReaderInv(r)'
      BY <2>3, <1>a, <1>i, <1>v DEF ReaderInv, AnnouncedBy
    <2> QED BY <1>7, <1>t, <2>1, <2>2, <2>4, FreshStep DEF ReadVersion
  <1>8. CASE Hit(r)
    <2>1. Stable
      BY <1>8, SameVersions DEF Hit, TypeInv
    <2>2. VersionInv'
      BY <1>8, <1>t, <1>i DEF Hit, VersionInv, GetVersion
    <2>3. PICK e \in entries : /\ e.version = memory[r].version
                               /\ memory' = [memory EXCEPT ![r].loaded = e.value]
      BY <1>8 DEF Hit, At
    <2>4. /\ memory'[r].version = memory[r].version
          /\ memory'[r].tileVersion = memory[r].tileVersion
          /\ memory'[r].loaded = e.value
          /\ pc[r] = "lookup" /\ pc'[r] = "respond" /\ floor'[r] = floor[r]
          /\ Announced' = Announced /\ GetVersion' = GetVersion
          /\ AnnouncedBy(memory[r].tileVersion)' = AnnouncedBy(memory[r].tileVersion)
      BY <1>8, <1>t, <1>m, <2>3 DEF Hit, Announced, AnnouncedBy, GetVersion, Memory
    <2>5. AnnouncedBy(memory[r].version) \subseteq e.value
      BY <2>3, <1>i DEF EntryInv
    <2>6. AnnouncedBy(memory[r].tileVersion) \subseteq AnnouncedBy(memory[r].version)
      BY <2>4, <1>i, <1>m, AnnouncedGrows DEF ReaderInv, TypeInv
    <2>7. ReaderInv(r)'
      BY <2>4, <2>5, <2>6, <1>i DEF ReaderInv, AnnouncedBy
    <2> QED BY <1>8, <1>t, <2>1, <2>2, <2>7, FreshStep DEF Hit
  <1>9. CASE Miss(r)
    <2>1. Stable
      BY <1>9, SameVersions DEF Miss, TypeInv
    <2>2. VersionInv'
      BY <1>9, <1>t, <1>i DEF Miss, VersionInv, GetVersion
    <2>3. /\ memory' = memory /\ pc[r] = "lookup" /\ pc'[r] = "query" /\ floor' = floor
          /\ Announced' = Announced /\ GetVersion' = GetVersion
          /\ AnnouncedBy(memory[r].version)' = AnnouncedBy(memory[r].version)
      BY <1>9, <1>t DEF Miss, Announced, AnnouncedBy, GetVersion
    <2>4. ReaderInv(r)'
      BY <2>3, <1>i DEF ReaderInv
    <2> QED BY <1>9, <1>t, <2>1, <2>2, <2>4, FreshStep DEF Miss
  <1>10. CASE Query(r)
    <2>1. Stable
      BY <1>10, SameVersions DEF Query, TypeInv
    <2>2. VersionInv'
      BY <1>10, <1>t, <1>i DEF Query, VersionInv, GetVersion
    <2>3. /\ memory'[r].version = memory[r].version
          /\ memory'[r].tileVersion = memory[r].tileVersion
          /\ memory'[r].loaded = crimes
          /\ pc[r] = "query" /\ pc'[r] = "store" /\ floor'[r] = floor[r]
          /\ Announced' = Announced /\ GetVersion' = GetVersion
          /\ AnnouncedBy(memory[r].version)' = AnnouncedBy(memory[r].version)
      BY <1>10, <1>t, <1>m DEF Query, Announced, AnnouncedBy, GetVersion, Memory
    <2>4. AnnouncedBy(memory[r].version) \subseteq crimes
      BY <1>m DEF AnnouncedBy, StoredInv
    <2>5. ReaderInv(r)'
      BY <2>3, <2>4, <1>i DEF ReaderInv, AnnouncedBy
    <2> QED BY <1>10, <1>t, <2>1, <2>2, <2>5, FreshStep DEF Query
  <1>11. CASE StoreAggregate(r)
    <2>1. Stable
      BY <1>11, SameVersions DEF StoreAggregate, TypeInv
    <2>2. VersionInv'
      BY <1>11, <1>t, <1>i DEF StoreAggregate, VersionInv, GetVersion
    <2>3. /\ memory' = memory /\ pc[r] = "store" /\ pc'[r] = "respond" /\ floor' = floor
          /\ Announced' = Announced /\ GetVersion' = GetVersion
          /\ AnnouncedBy(memory[r].version)' = AnnouncedBy(memory[r].version)
          /\ AnnouncedBy(memory[r].tileVersion)' = AnnouncedBy(memory[r].tileVersion)
      BY <1>11, <1>t DEF StoreAggregate, Announced, AnnouncedBy, GetVersion
    <2>4. AnnouncedBy(memory[r].tileVersion) \subseteq AnnouncedBy(memory[r].version)
      BY <2>3, <1>i, <1>m, AnnouncedGrows DEF ReaderInv, TypeInv
    <2>5. ReaderInv(r)'
      BY <2>3, <2>4, <1>i DEF ReaderInv
    <2>6. ASSUME NEW e \in entries', e \notin entries PROVE EntryInv(e)'
      <3>1. e.version = memory[r].version /\ e.value = memory[r].loaded
        BY <1>11, <2>6 DEF StoreAggregate, Put
      <3> QED BY <3>1, <2>3, <1>i DEF EntryInv, ReaderInv, AnnouncedBy
    <2> QED BY <1>11, <1>t, <2>1, <2>2, <2>5, <2>6, FreshStep DEF StoreAggregate
  <1>12. CASE Respond(r)
    <2>1. Stable
      BY <1>12, SameVersions DEF Respond, TypeInv
    <2>2. VersionInv'
      BY <1>12, <1>t, <1>i DEF Respond, Finish, VersionInv, GetVersion
    <2>3. /\ memory'[r].version = 0 /\ memory'[r].tileVersion = 0
          /\ pc[r] = "respond" /\ pc'[r] = "idle" /\ floor'[r] = {}
          /\ GetVersion' = GetVersion
          /\ \A v \in Nat : AnnouncedBy(v)' = AnnouncedBy(v)
      BY <1>12, <1>t, <1>b DEF Respond, Finish, GetVersion, AnnouncedBy
    <2>4. ReaderInv(r)'
      BY <2>3, <1>v DEF ReaderInv
    <2>5. ASSUME NEW e \in entries', e \notin entries PROVE EntryInv(e)'
      <3>1. e.version = memory[r].tileVersion /\ e.value = memory[r].loaded
        BY <1>12, <2>5 DEF Respond, Put
      <3>2. AnnouncedBy(memory[r].tileVersion) \subseteq memory[r].loaded
        BY <2>3, <1>i DEF ReaderInv
      <3> QED BY <3>1, <3>2, <2>3, <1>i, <1>m DEF EntryInv, ReaderInv
    <2> QED BY <1>12, <1>t, <2>1, <2>2, <2>4, <2>5, FreshStep DEF Respond, Finish
  <1> QED
    BY <1>1, <1>2, <1>3, <1>4, <1>5, <1>6, <1>7, <1>8, <1>9, <1>10, <1>11, <1>12
    DEF ReaderStep

\* A step of an importer.
LEMMA ImporterFresh ==
    ASSUME TypeInv, TypeInv', StoredInv, FreshInv, ~degraded', NEW b \in Batches,
           Insert(b) \/ BumpStep(b) \/ Crash(b)
    PROVE  FreshInv'
  <1> USE DEF Go, cacheVars, readVars, lossVars
  <1>t. /\ pc \in [Processes -> ReaderSteps \cup ImporterSteps]
        /\ memory \in [Processes -> Memory]
        /\ bumped \in [Batches -> Nat]
        /\ b \in Processes /\ b \notin Readers
        /\ \A s \in Readers : s \in Processes
        /\ \A c \in Batches : c \in Processes
    BY ProcessAssumption DEF TypeInv, TypeOK, Processes
  <1>v. GetVersion \in Nat \ {0} /\ version \in Nat
    BY VersionRead DEF TypeInv, TypeOK
  <1>i. VersionInv
    BY DEF FreshInv
  <1>1. CASE Insert(b)
    <2>1. Stable
      BY <1>1, SameVersions DEF Insert, TypeInv
    <2>2. VersionInv'
      BY <1>1, <1>t, <1>i DEF Insert, VersionInv, GetVersion
    <2> QED BY <1>1, <1>t, <2>1, <2>2, FreshElsewhere DEF Insert
  <1>2. CASE Initialise(b)
    <2>1. Stable
      BY <1>2, SameVersions DEF Initialise, TypeInv
    <2>2. VersionInv'
      BY <1>2, <1>t, <1>i DEF Initialise, VersionInv, GetVersion
    <2> QED BY <1>2, <1>t, <2>1, <2>2, FreshElsewhere DEF Initialise
  <1>3. CASE Create(b)
    <2>1. ~(version > 1) /\ version \in Nat /\ version' = 1
      BY <1>3 DEF Create, TypeInv, TypeOK
    <2>2. GetVersion' = GetVersion
      BY <2>1 DEF GetVersion
    <2>3. Stable
      BY <1>3, <1>v, <2>2 DEF Create, Stable, Announced, AnnouncedBy
    <2>4. VersionInv'
      BY <1>3, <1>t, <1>i, <2>1, <2>2 DEF Create, VersionInv
    <2> QED BY <1>3, <1>t, <2>3, <2>4, FreshElsewhere DEF Create
  <1>4. CASE Increment(b)
    <2>1. /\ GetVersion = version /\ GetVersion' = version + 1
          /\ bumped' = [bumped EXCEPT ![b] = version + 1]
          /\ version' = version + 1
      BY <1>4, <1>v DEF Increment, GetVersion
    <2>2. bumped[b] = 0
      BY <1>4 DEF Increment, StoredInv
    <2>3. \A c \in Batches : bumped[c] <= version /\ bumped[c] \in Nat
      BY <1>i, <1>t, <2>1 DEF VersionInv
    <2>4. Announced \subseteq Announced'
      BY <1>t, <2>1, <2>2 DEF Announced
    <2>5. ASSUME NEW v \in Nat, v <= version PROVE AnnouncedBy(v)' = AnnouncedBy(v)
      BY <1>t, <1>v, <2>1, <2>2, <2>5 DEF AnnouncedBy
    <2>6. Stable
      BY <1>v, <2>1, <2>4, <2>5 DEF Stable
    <2>7. VersionInv'
      <3>1. \A c \in Batches : bumped'[c] <= version + 1
        BY <1>t, <1>v, <2>1, <2>3
      <3> QED BY <1>4, <1>t, <1>v, <1>i, <2>1, <3>1 DEF Increment, VersionInv
    <2> QED BY <1>4, <1>t, <2>6, <2>7, FreshElsewhere DEF Increment
  <1>5. CASE IncrementFails(b)
    BY <1>5, <1>t, <1>i DEF IncrementFails, VersionInv
  <1>6. CASE ReadBack(b)
    BY <1>6, <1>t, <1>i DEF ReadBack, VersionInv
  <1>7. CASE WriteBack(b)
    BY <1>7 DEF WriteBack
  <1>8. CASE Crash(b)
    <2>1. Stable
      BY <1>8, SameVersions DEF Crash, TypeInv
    <2>2. VersionInv'
      BY <1>8, <1>t, <1>i DEF Crash, VersionInv, GetVersion
    <2> QED BY <1>8, <1>t, <2>1, <2>2, FreshElsewhere DEF Crash
  <1> QED
    BY <1>1, <1>2, <1>3, <1>4, <1>5, <1>6, <1>7, <1>8 DEF BumpStep

LEMMA InvNext == Inv /\ [Next]_vars => Inv'
  <1> SUFFICES ASSUME Inv, [Next]_vars PROVE Inv'
    OBVIOUS
  <1>1. TypeInv /\ TypeInv' /\ StoredInv /\ StoredInv'
    BY NextType, StoredNext DEF Inv
  <1>2. ASSUME ~degraded' PROVE FreshInv'
    <2>1. ~degraded
      <3>1. CASE UNCHANGED vars
        BY <1>2, <3>1 DEF vars, lossVars
      <3>2. CASE \E r \in Readers : ReaderStep(r) \/ \E tile \in BOOLEAN : Begin(r, tile)
        BY <1>2, <3>2
        DEF ReaderStep, Begin, TileKey, TileHit, TileMiss, Initialise, Create, ReadVersion,
            Hit, Miss, Query, StoreAggregate, Respond, lossVars
      <3>3. CASE \E b \in Batches : Insert(b) \/ BumpStep(b) \/ Crash(b)
        BY <1>2, <3>3
        DEF BumpStep, Insert, Initialise, Create, Increment, IncrementFails, ReadBack,
            WriteBack, Crash, lossVars
      <3>4. CASE Clear \/ \E kind \in EntryKinds, v \in Versions : Expire(kind, v)
        BY <1>2, <3>4 DEF Clear, Expire, lossVars
      <3> QED BY <3>1, <3>2, <3>3, <3>4 DEF Next
    <2>2. FreshInv
      BY <2>1 DEF Inv
    <2>3. ASSUME NEW kind \in EntryKinds, NEW v \in Versions, Expire(kind, v)
          PROVE  FreshInv'
      <3>1. Stable
        BY <1>1, <2>3, SameVersions DEF Expire, TypeInv
      <3>2. VersionInv'
        BY <2>2, <2>3 DEF Expire, FreshInv, VersionInv, GetVersion
      <3>3. entries' \subseteq entries
        BY <2>3 DEF Expire
      <3> QED BY <1>1, <2>2, <2>3, <3>1, <3>2, <3>3, FreshElsewhere DEF Expire, readVars
    <2>4. CASE Clear
      BY <1>2, <2>4 DEF Clear
    <2>5. CASE UNCHANGED vars
      <3>1. Stable
        BY <1>1, <2>5, SameVersions DEF vars, cacheVars, TypeInv
      <3>2. VersionInv'
        BY <2>2, <2>5 DEF vars, cacheVars, FreshInv, VersionInv, GetVersion
      <3> QED BY <1>1, <2>2, <2>5, <3>1, <3>2, FreshElsewhere DEF vars, cacheVars, readVars
    <2> QED
      BY <1>1, <1>2, <2>2, <2>3, <2>4, <2>5, ReaderFresh, ImporterFresh DEF Next
  <1> QED BY <1>1, <1>2 DEF Inv

LEMMA Invariance == Spec => []Inv
  BY InitFresh, InvNext, PTL DEF Spec

\* What is cached under a version counts every batch announced by that version,
\* whatever readers, importers and expiries do in between.
THEOREM EntriesAreFresh == Spec => []EntriesReflectVersion
  <1>1. Inv => EntriesReflectVersion
    BY DEF Inv, FreshInv, EntryInv, EntriesReflectVersion
  <1> QED BY <1>1, Invariance, PTL

-----------------------------------------------------------------------------
(* The caches implement FreshReads *)

Reading == {r \in Readers : pc[r] # "idle"}

LEMMA InitPromise == Init => Promise!Init
  <1> SUFFICES ASSUME Init PROVE Promise!Init
    OBVIOUS
  <1>1. Announced = {}
    BY DEF Init, Announced
  <1>2. Reading = {}
    BY DEF Init, Reading, Processes
  <1> QED BY <1>1, <1>2 DEF Init, Promise!Init, Reading

LEMMA NextPromise == Inv /\ Inv' /\ [Next]_vars => [Promise!Next]_(Promise!vars)
  <1> SUFFICES ASSUME Inv, Inv', [Next]_vars PROVE [Promise!Next]_(Promise!vars)
    OBVIOUS
  <1> USE DEF Go, cacheVars, readVars, lossVars, Reading
  <1>t. /\ pc \in [Processes -> ReaderSteps \cup ImporterSteps]
        /\ memory \in [Processes -> Memory]
        /\ bumped \in [Batches -> Nat]
        /\ floor \in [Readers -> SUBSET Batches]
        /\ answer \in [Readers -> SUBSET Batches]
        /\ entries \in SUBSET Entries
        /\ \A r \in Readers : r \in Processes /\ r \notin Batches
        /\ \A b \in Batches : b \in Processes
    BY ProcessAssumption DEF Inv, TypeInv, TypeOK, Processes
  <1>0. ASSUME UNCHANGED <<crimes, Announced, Reading, floor, answer, degraded>>
        PROVE  UNCHANGED Promise!vars
    BY <1>0 DEF Promise!vars
  <1>1. ASSUME NEW r \in Readers, NEW tile \in BOOLEAN, Begin(r, tile)
        PROVE  Promise!Begin(r)
    <2>1. Reading' = Reading \cup {r} /\ r \notin Reading
      BY <1>1, <1>t DEF Begin
    <2>2. Announced' = Announced
      BY <1>1 DEF Begin, Announced
    <2> QED BY <1>1, <2>1, <2>2 DEF Begin, Promise!Begin
  <1>2. ASSUME NEW r \in Readers, TileHit(r) \/ Respond(r)
        PROVE  \E value \in SUBSET Batches : Promise!Answer(r, value)
    <2>1. Reading' = Reading \ {r} /\ r \in Reading
      BY <1>2, <1>t DEF TileHit, Respond, Finish
    <2>2. Announced' = Announced /\ crimes' = crimes /\ degraded' = degraded
      BY <1>2 DEF TileHit, Respond, Announced
    <2>3. floor' = [floor EXCEPT ![r] = {}]
      BY <1>2 DEF TileHit, Respond, Finish
    <2>4. CASE TileHit(r)
      <3>1. PICK e \in At("tile", memory[r].tileVersion) :
              answer' = [answer EXCEPT ![r] = e.value]
        BY <2>4 DEF TileHit
      <3>2. e.value \in SUBSET Batches /\ e.value \subseteq crimes
        BY <1>t DEF Inv, StoredInv, At, Entries
      <3>3. degraded \/ floor[r] \subseteq e.value
        BY <2>4 DEF TileHit, Inv, FreshInv, ReaderInv, EntryInv, At
      <3> QED BY <2>1, <2>2, <2>3, <3>1, <3>2, <3>3 DEF Promise!Answer
    <2>5. CASE Respond(r)
      <3>1. memory[r].loaded \in SUBSET Batches
        BY <1>t DEF Memory
      <3>2. memory[r].loaded \subseteq crimes
        BY DEF Inv, StoredInv
      <3>3. degraded \/ floor[r] \subseteq memory[r].loaded
        BY <2>5 DEF Respond, Inv, FreshInv, ReaderInv
      <3>4. answer' = [answer EXCEPT ![r] = memory[r].loaded]
        BY <2>5 DEF Respond
      <3> QED BY <2>1, <2>2, <2>3, <3>1, <3>2, <3>3, <3>4 DEF Promise!Answer
    <2> QED BY <1>2, <2>4, <2>5
  <1>3. ASSUME NEW r \in Readers,
               \/ TileKey(r) \/ TileMiss(r) \/ ReadVersion(r) \/ Hit(r) \/ Miss(r)
               \/ Query(r) \/ StoreAggregate(r)
        PROVE  UNCHANGED Promise!vars
    <2>1. Reading' = Reading
      BY <1>3, <1>t DEF TileKey, TileMiss, ReadVersion, Hit, Miss, Query, StoreAggregate
    <2>2. UNCHANGED <<crimes, bumped, floor, answer, degraded>>
      BY <1>3 DEF TileKey, TileMiss, ReadVersion, Hit, Miss, Query, StoreAggregate
    <2> QED BY <1>0, <2>1, <2>2 DEF Announced
  <1>4. ASSUME NEW p \in Processes, Initialise(p)
        PROVE  UNCHANGED Promise!vars
    <2>1. Reading' = Reading
      BY <1>4, <1>t DEF Initialise
    <2>2. UNCHANGED <<crimes, bumped, floor, answer, degraded>>
      BY <1>4 DEF Initialise
    <2> QED BY <1>0, <2>1, <2>2 DEF Announced
  <1>5. ASSUME NEW p \in Processes, Create(p)
        PROVE  Promise!Degrade \/ UNCHANGED Promise!vars
    <2>1. Reading' = Reading
      BY <1>5, <1>t DEF Create
    <2>2. UNCHANGED <<crimes, bumped, floor, answer>>
      BY <1>5 DEF Create
    <2>3. degraded' = TRUE \/ degraded' = degraded
      BY <1>5 DEF Create, Inv, TypeInv, TypeOK
    <2>4. Announced' = Announced
      BY <2>2 DEF Announced
    <2> QED BY <1>0, <2>1, <2>2, <2>3, <2>4 DEF Promise!Degrade
  <1>6. ASSUME NEW b \in Batches, Insert(b)
        PROVE  Promise!Store(b)
    <2>1. Reading' = Reading
      BY <1>6, <1>t DEF Insert
    <2>2. Announced' = Announced
      BY <1>6 DEF Insert, Announced
    <2> QED BY <1>6, <2>1, <2>2 DEF Insert, Promise!Store
  <1>7. ASSUME NEW b \in Batches, Increment(b)
        PROVE  Promise!Announce(b)
    <2>1. Reading' = Reading
      BY <1>7, <1>t DEF Increment
    <2>2. version + 1 # 0 /\ bumped' = [bumped EXCEPT ![b] = version + 1]
      BY <1>7 DEF Increment, Inv, TypeInv, TypeOK
    <2>3. Announced' = Announced \cup {b}
      BY <2>2, <1>t DEF Announced
    <2>4. b \in crimes
      BY <1>7 DEF Increment, Inv, StoredInv
    <2> QED BY <1>7, <2>1, <2>3, <2>4 DEF Increment, Promise!Announce
  <1>8. ASSUME NEW b \in Batches, WriteBack(b)
        PROVE  Promise!AnnounceDegraded(b)
    <2>1. Reading' = Reading
      BY <1>8, <1>t DEF WriteBack
    <2>2. /\ memory[b].version # 0
          /\ bumped' = [bumped EXCEPT ![b] = memory[b].version]
      BY <1>8 DEF WriteBack, Inv, TypeInv, Placed
    <2>3. Announced' = Announced \cup {b}
      BY <2>2, <1>t DEF Announced
    <2>4. b \in crimes
      BY <1>8 DEF WriteBack, Inv, StoredInv
    <2> QED BY <1>8, <2>1, <2>3, <2>4 DEF WriteBack, Promise!AnnounceDegraded
  <1>9. ASSUME NEW b \in Batches, IncrementFails(b) \/ ReadBack(b) \/ Crash(b)
        PROVE  UNCHANGED Promise!vars
    <2>1. Reading' = Reading
      BY <1>9, <1>t DEF IncrementFails, ReadBack, Crash
    <2>2. UNCHANGED <<crimes, bumped, floor, answer, degraded>>
      BY <1>9 DEF IncrementFails, ReadBack, Crash
    <2> QED BY <1>0, <2>1, <2>2 DEF Announced
  <1>10. ASSUME NEW kind \in EntryKinds, NEW v \in Versions, Expire(kind, v)
         PROVE  UNCHANGED Promise!vars
    <2>1. Reading' = Reading
      BY <1>10 DEF Expire
    <2>2. UNCHANGED <<crimes, bumped, floor, answer, degraded>>
      BY <1>10 DEF Expire
    <2> QED BY <1>0, <2>1, <2>2 DEF Announced
  <1>11. CASE Clear
    <2>1. Reading' = Reading
      BY <1>11 DEF Clear
    <2>2. Announced' = Announced
      BY <1>11 DEF Clear, Announced
    <2>3. degraded' = TRUE /\ UNCHANGED <<crimes, floor, answer>>
      BY <1>11 DEF Clear
    <2> QED BY <2>1, <2>2, <2>3 DEF Promise!Degrade, Promise!Next
  <1>12. CASE UNCHANGED vars
    <2>1. Reading' = Reading
      BY <1>12 DEF vars
    <2>2. UNCHANGED <<crimes, bumped, floor, answer, degraded>>
      BY <1>12 DEF vars
    <2> QED BY <1>0, <2>1, <2>2 DEF Announced
  <1>13. \A p \in Readers \cup Batches : p \in Processes
    BY DEF Processes
  <1> QED
    BY <1>1, <1>2, <1>3, <1>4, <1>5, <1>6, <1>7, <1>8, <1>9, <1>10, <1>11, <1>12, <1>13
    DEF Next, ReaderStep, BumpStep, Promise!Next

\* Both caches together keep the promise of FreshReads: a read that begins after a
\* bump counts the batch, unless the version was lost.
THEOREM CachesAreFresh == Spec => Fresh
  BY InitPromise, NextPromise, Invariance, PTL DEF Spec, Fresh, Promise!Spec
=============================================================================
