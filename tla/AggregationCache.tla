-------------------------- MODULE AggregationCache --------------------------
(***************************************************************************)
(* The cached crime aggregates: H3AggregationService caches one query's    *)
(* result under a key that holds a version number, HeatmapTileController   *)
(* caches the tile built from it under a key that holds the same number,   *)
(* and the police import bumps the number after it has inserted a batch    *)
(* (flushBuffer).  The number itself is a cache entry, created on demand   *)
(* by a read followed by a write.                                          *)
(*                                                                         *)
(* Queries do not share entries, so the model follows one query and the    *)
(* one tile made from it.  A result is the set of batches it counts.       *)
(***************************************************************************)
EXTENDS Naturals, FiniteSets

CONSTANTS
    Batches,         \* batches of crimes; each is inserted by one importer
    Readers,         \* requests for hexes, tiles, exports and the like
    InitialVersion,  \* 0 when the version key was never created, else 1
    MaxClears        \* bound: how often the cache is cleared

ASSUME VersionAssumption == InitialVersion \in {0, 1}
ASSUME ClearsAssumption == MaxClears \in Nat
ASSUME ProcessAssumption == Batches \cap Readers = {}

Processes == Batches \cup Readers

EntryKinds == {"aggregate", "tile"}
Entries == [kind: EntryKinds, version: Nat \ {0}, value: SUBSET Batches]

\* What a process holds between two accesses: whether it is a tile request, the
\* version in its tile key, the version it read for the aggregates, and them.
Memory == [wantsTile: BOOLEAN, tileVersion: Nat, version: Nat, loaded: SUBSET Batches]
Blank == [wantsTile |-> FALSE, tileVersion |-> 0, version |-> 0, loaded |-> {}]

\* The next cache or database access of a process.
ReaderSteps == {"idle", "tileKey", "tileLookup", "init", "create", "version",
                "lookup", "query", "store", "respond"}
ImporterSteps == {"waiting", "init", "create", "version", "readBack", "writeBack",
                  "announced", "lost"}

VARIABLES
    crimes,      \* batches in the table "crimes"
    version,     \* the entry h3_aggregations:version, 0 when absent
    entries,     \* cached aggregates and tiles
    pc,          \* next step of each reader and importer
    memory,      \* local variables of each reader and importer
    answer,      \* what each reader answered, while it has not begun again
    floor,       \* history: batches announced when each reader began
    bumped,      \* history: version written by each batch's bump, 0 before it
    degraded,    \* history: the version has gone back, or a bump had to make
                 \* one up because the entry was gone
    clears

readVars == <<answer, floor>>
cacheVars == <<version, entries>>
lossVars == <<degraded, clears>>
vars == <<crimes, cacheVars, pc, memory, readVars, bumped, lossVars>>

Init ==
    /\ crimes = {}
    /\ version = InitialVersion
    /\ entries = {}
    /\ pc = [p \in Processes |-> IF p \in Readers THEN "idle" ELSE "waiting"]
    /\ memory = [p \in Processes |-> Blank]
    /\ answer = [r \in Readers |-> {}]
    /\ floor = [r \in Readers |-> {}]
    /\ bumped = [b \in Batches |-> 0]
    /\ degraded = FALSE
    /\ clears = 0

Go(p, from, to) ==
    /\ pc[p] = from
    /\ pc' = [pc EXCEPT ![p] = to]

\* Batches whose bump wrote version v or an earlier one.
AnnouncedBy(v) == {b \in Batches : bumped[b] \in 1 .. v}
Announced == {b \in Batches : bumped[b] # 0}

\* Cache::get(CACHE_VERSION_KEY, 1)
GetVersion == IF version = 0 THEN 1 ELSE version

At(kind, v) == {e \in entries : e.kind = kind /\ e.version = v}

Put(kind, v, value) ==
    entries' = (entries \ At(kind, v)) \cup {[kind |-> kind, version |-> v, value |-> value]}

-----------------------------------------------------------------------------
(* initialiseCacheVersion, called by readers and importers alike *)

\* rememberForever reads the entry and, when it is absent, writes 1: two accesses.
Initialise(p) ==
    /\ Go(p, "init", IF version = 0 THEN "create" ELSE "version")
    /\ UNCHANGED <<crimes, cacheVars, memory, readVars, bumped, lossVars>>

Create(p) ==
    /\ Go(p, "create", "version")
    /\ version' = 1
    /\ degraded' = (degraded \/ version > 1)
    /\ UNCHANGED <<crimes, entries, memory, readVars, bumped, clears>>

-----------------------------------------------------------------------------
(* Readers *)

\* A request arrives, for a tile or for the aggregates themselves.
Begin(r, tile) ==
    /\ Go(r, "idle", IF tile THEN "tileKey" ELSE "init")
    /\ memory' = [memory EXCEPT ![r] = [Blank EXCEPT !.wantsTile = tile]]
    /\ floor' = [floor EXCEPT ![r] = Announced]
    /\ answer' = [answer EXCEPT ![r] = {}]
    /\ UNCHANGED <<crimes, cacheVars, bumped, lossVars>>

\* The request is over and its locals are gone.
Finish(r) ==
    /\ memory' = [memory EXCEPT ![r] = Blank]
    /\ floor' = [floor EXCEPT ![r] = {}]

\* The tile's own key: the version is read without initialising it.
TileKey(r) ==
    /\ Go(r, "tileKey", "tileLookup")
    /\ memory' = [memory EXCEPT ![r].tileVersion = GetVersion]
    /\ UNCHANGED <<crimes, cacheVars, readVars, bumped, lossVars>>

TileHit(r) ==
    /\ Go(r, "tileLookup", "idle")
    /\ \E e \in At("tile", memory[r].tileVersion) : answer' = [answer EXCEPT ![r] = e.value]
    /\ Finish(r)
    /\ UNCHANGED <<crimes, cacheVars, bumped, lossVars>>

TileMiss(r) ==
    /\ At("tile", memory[r].tileVersion) = {}
    /\ Go(r, "tileLookup", "init")
    /\ UNCHANGED <<crimes, cacheVars, memory, readVars, bumped, lossVars>>

\* getCacheVersion, and with it the key of the aggregates.
ReadVersion(r) ==
    /\ Go(r, "version", "lookup")
    /\ memory' = [memory EXCEPT ![r].version = GetVersion]
    /\ UNCHANGED <<crimes, cacheVars, readVars, bumped, lossVars>>

Hit(r) ==
    /\ Go(r, "lookup", "respond")
    /\ \E e \in At("aggregate", memory[r].version) : memory' = [memory EXCEPT ![r].loaded = e.value]
    /\ UNCHANGED <<crimes, cacheVars, readVars, bumped, lossVars>>

Miss(r) ==
    /\ At("aggregate", memory[r].version) = {}
    /\ Go(r, "lookup", "query")
    /\ UNCHANGED <<crimes, cacheVars, memory, readVars, bumped, lossVars>>

\* runAggregateQuery
Query(r) ==
    /\ Go(r, "query", "store")
    /\ memory' = [memory EXCEPT ![r].loaded = crimes]
    /\ UNCHANGED <<crimes, cacheVars, readVars, bumped, lossVars>>

\* Mutant: the key is built when the result is stored.
StoreUnderLatest(r) ==
    /\ Go(r, "store", "respond")
    /\ Put("aggregate", GetVersion, memory[r].loaded)
    /\ UNCHANGED <<crimes, version, memory, readVars, bumped, lossVars>>

StoreAggregate(r) ==
    /\ Go(r, "store", "respond")
    /\ Put("aggregate", memory[r].version, memory[r].loaded)
    /\ UNCHANGED <<crimes, version, memory, readVars, bumped, lossVars>>

\* The tile is cached under the version read first; the answer is sent.
Respond(r) ==
    /\ Go(r, "respond", "idle")
    /\ answer' = [answer EXCEPT ![r] = memory[r].loaded]
    /\ IF memory[r].wantsTile THEN Put("tile", memory[r].tileVersion, memory[r].loaded)
                              ELSE UNCHANGED entries
    /\ Finish(r)
    /\ UNCHANGED <<crimes, version, bumped, lossVars>>

ReaderStep(r) ==
    \/ TileKey(r) \/ TileHit(r) \/ TileMiss(r) \/ Initialise(r) \/ Create(r)
    \/ ReadVersion(r) \/ Hit(r) \/ Miss(r) \/ Query(r) \/ StoreAggregate(r) \/ Respond(r)

-----------------------------------------------------------------------------
(* flushBuffer and bumpCacheVersion *)

Insert(b) ==
    /\ Go(b, "waiting", "init")
    /\ crimes' = crimes \cup {b}
    /\ UNCHANGED <<cacheVars, memory, readVars, bumped, lossVars>>

\* Mutant: the increment is lost.
IncrementLost(b) ==
    /\ version # 0
    /\ Go(b, "version", "announced")
    /\ bumped' = [bumped EXCEPT ![b] = version]
    /\ UNCHANGED <<crimes, cacheVars, memory, readVars, lossVars>>

\* Cache::increment, atomic in the database store.
Increment(b) ==
    /\ version # 0
    /\ Go(b, "version", "announced")
    /\ version' = version + 1
    /\ bumped' = [bumped EXCEPT ![b] = version + 1]
    /\ UNCHANGED <<crimes, entries, memory, readVars, lossVars>>

\* ... which returns false when the entry is absent.
IncrementFails(b) ==
    /\ version = 0
    /\ Go(b, "version", "readBack")
    /\ UNCHANGED <<crimes, cacheVars, memory, readVars, bumped, lossVars>>

ReadBack(b) ==
    /\ Go(b, "readBack", "writeBack")
    /\ memory' = [memory EXCEPT ![b].version = GetVersion + 1]
    /\ UNCHANGED <<crimes, cacheVars, readVars, bumped, lossVars>>

WriteBack(b) ==
    /\ Go(b, "writeBack", "announced")
    /\ version' = memory[b].version
    /\ bumped' = [bumped EXCEPT ![b] = memory[b].version]
    /\ degraded' = TRUE
    /\ memory' = [memory EXCEPT ![b] = Blank]
    /\ UNCHANGED <<crimes, entries, readVars, clears>>

\* The importer dies after the insert.  A rerun finds the rows of the batch
\* in the table, has nothing to insert and does not bump.
Crash(b) ==
    /\ pc[b] \in {"init", "create", "version", "readBack", "writeBack"}
    /\ pc' = [pc EXCEPT ![b] = "lost"]
    /\ memory' = [memory EXCEPT ![b] = Blank]
    /\ UNCHANGED <<crimes, cacheVars, readVars, bumped, lossVars>>

BumpStep(b) ==
    Initialise(b) \/ Create(b) \/ Increment(b) \/ IncrementFails(b) \/ ReadBack(b) \/ WriteBack(b)

-----------------------------------------------------------------------------
(* The cache store *)

\* Mutant: aggregates are cached forever.
ExpireTilesOnly(kind, v) ==
    /\ kind = "tile"
    /\ At(kind, v) # {}
    /\ entries' = entries \ At(kind, v)
    /\ UNCHANGED <<crimes, version, pc, memory, readVars, bumped, lossVars>>

\* An entry outlives its 10 (aggregates) or 5 (tiles) minutes.
Expire(kind, v) ==
    /\ At(kind, v) # {}
    /\ entries' = entries \ At(kind, v)
    /\ UNCHANGED <<crimes, version, pc, memory, readVars, bumped, lossVars>>

\* cache:clear
Clear ==
    /\ clears < MaxClears
    /\ clears' = clears + 1
    /\ version' = 0
    /\ entries' = {}
    /\ degraded' = TRUE
    /\ UNCHANGED <<crimes, pc, memory, readVars, bumped>>

\* A bump adds one to a version, or to the default.
Versions == 1 .. (Cardinality(Batches) + 1)

Next ==
    \/ \E r \in Readers : ReaderStep(r) \/ \E tile \in BOOLEAN : Begin(r, tile)
    \/ \E b \in Batches : Insert(b) \/ BumpStep(b) \/ Crash(b)
    \/ \E kind \in EntryKinds, v \in Versions : Expire(kind, v)
    \/ Clear

Spec == Init /\ [][Next]_vars

\* A request and an import that have begun go on, and entries expire: both
\* remember() calls pass a time to live.
Fairness ==
    /\ \A r \in Readers : WF_vars(ReaderStep(r))
    /\ \A b \in Batches : WF_vars(BumpStep(b))
    /\ \A kind \in EntryKinds, v \in Versions : WF_vars(Expire(kind, v))

FairSpec == Spec /\ Fairness

-----------------------------------------------------------------------------
(* Properties *)

TypeOK ==
    /\ crimes \in SUBSET Batches
    /\ version \in Nat
    /\ entries \in SUBSET Entries
    /\ pc \in [Processes -> ReaderSteps \cup ImporterSteps]
    /\ memory \in [Processes -> Memory]
    /\ answer \in [Readers -> SUBSET Batches]
    /\ floor \in [Readers -> SUBSET Batches]
    /\ bumped \in [Batches -> Nat]
    /\ degraded \in BOOLEAN
    /\ clears \in Nat

\* An aggregate or a tile cached under a version counts every batch that was
\* announced by that version or an earlier one, however long its reader took
\* between reading the version, querying and storing.
EntriesReflectVersion ==
    degraded \/ \A e \in entries : AnnouncedBy(e.version) \subseteq e.value

\* The caches implement FreshReads: reads that begin after a bump see what the
\* bump announced, through both caches.
Promise == INSTANCE FreshReads WITH
    stored <- crimes,
    announced <- Announced,
    reading <- {r \in Readers : pc[r] # "idle"}

Fresh == Promise!Spec

\* A batch that was inserted is in every cached entry from some time on, even if
\* its importer died before the bump or the version was lost.
EventuallySeen ==
    \A b \in Batches :
        b \in crimes ~> []\A e \in entries : b \in e.value

\* bumpCacheVersion: "Increment the cache version so downstream caches pick up
\* fresh aggregates."  A read that begins after a bump sees the batch.
BumpTakesEffect ==
    [][\A r \in Readers :
        pc[r] # "idle" /\ pc'[r] = "idle" => floor[r] \subseteq answer'[r]]_vars
=============================================================================
