--------------------------- MODULE CrimeIngestion ---------------------------
(***************************************************************************)
(* PoliceCrimeIngestionService::ingest for one month: download of the      *)
(* archive into a partial file that every ingest of the month shares and   *)
(* resumes, verification, rename to a file of its own, and import of the   *)
(* rows in buffered chunks.  Several ingests may run at once (queued jobs, *)
(* the command, the MCP tool), and any of them may be killed.              *)
(*                                                                         *)
(* The archive is a sequence of blocks, tagged with the version published  *)
(* when they were served.  A path names a file and a rename or an unlink   *)
(* does not close the handles of other ingests, as on the deployment's     *)
(* file system.                                                            *)
(***************************************************************************)
EXTENDS Integers, Sequences, FiniteSets

CONSTANTS
    Ingests,     \* calls of ingest(), queued or not
    DryRuns,     \* those that may have dry_run set
    Servers,     \* what the archive server may offer
    Size,        \* blocks in an archive
    MaxVersions, \* bound: how often the month is published
    Rows,        \* identifiers of the rows, in the order of the archive
    Invalid,     \* a row without a month or coordinates
    ChunkSize,   \* rows per insert
    Known,       \* crimes in the table before
    NoIngest,    \* a crime that is not in the table
    Earlier,     \* a crime that was in the table before
    MaxFaults,   \* bound: failed requests, cut connections, failed bumps
    MaxKills     \* bound: ingests killed

ASSUME SizeAssumption == Size \in Nat \ {0} /\ ChunkSize \in Nat \ {0} /\ MaxVersions \in Nat \ {0}
ASSUME BoundsAssumption == MaxFaults \in Nat /\ MaxKills \in Nat
ASSUME IngestsAssumption == IsFiniteSet(Ingests)
ASSUME RowsAssumption == Rows \in Seq({Rows[k] : k \in DOMAIN Rows})
ASSUME DryRunAssumption == DryRuns \subseteq Ingests
ASSUME NoIngestAssumption == NoIngest \notin Ingests /\ Earlier \notin Ingests /\ NoIngest # Earlier
ASSUME ServersAssumption ==
    Servers \subseteq [ranges: {"none", "bytes", "ignored"}, \* Accept-Ranges, and whether it is true
                       sized: BOOLEAN,                       \* Content-Length
                       digest: {"none", "published"}]        \* a SHA-256 or MD5 header

Crimes == {Rows[k] : k \in DOMAIN Rows} \ {Invalid}
ASSUME KnownAssumption == Known \subseteq Crimes

Files == 1 .. (Cardinality(Ingests) + 1)
NoFile == 0
Hole == <<0, 0>>
Whole(v) == [k \in 1 .. Size |-> <<v, k>>]

Status == {"none", "running", "completed", "failed"}
ImportSteps == {"read", "lookup", "insert"}
Steps == {"idle", "head", "inspect", "get", "open", "write", "verify", "check", "rename",
          "complete", "fail", "done", "dead"} \cup ImportSteps

\* Locals of downloadArchive: the version of the expected checksum, the bytes found
\* in the partial file, the file that is open (or, later, the final archive), and
\* the version and next block of the body.
NoDownload == [expect |-> 0, existing |-> 0, file |-> NoFile, body |-> 0, next |-> 0]

\* Locals of importArchive and flushBuffer: the next row, the buffer, what is left of
\* it after the look-up, and the counts recorded in the run.
NoImport == [row |-> 1, buffer |-> {}, fresh |-> {}, detected |-> 0, expected |-> 0]

VARIABLES
    server, version, \* the archive server and the version it serves
    dry,             \* ingests with dry_run
    link,            \* the file that the .zip.part path names
    content,         \* blocks of each file
    inserter,        \* the ingest that inserted each crime
    status,          \* status of each crime_ingestion_runs row
    pc, dl, im,      \* where each ingest is, and its locals
    torn,            \* history: ingests whose archive another one wrote into or replaced
                     \* after its verification
    overlapped,      \* history: ingests that ran at the same time as another one
    disturbed,       \* history: ingests that met a failure or a new version, or were
                     \* killed
    resumed,         \* history: ingests that began with a partial file on the disk
    faults, kills

argumentVars == <<server, dry>>
serverVars == <<argumentVars, version>>
diskVars == <<link, content>>
historyVars == <<torn, overlapped, disturbed, resumed>>
boundVars == <<faults, kills>>
vars == <<serverVars, diskVars, inserter, status, pc, dl, im, historyVars, boundVars>>

Init ==
    /\ server \in Servers
    /\ dry \in SUBSET DryRuns
    /\ version = 1
    /\ link = NoFile
    /\ content = [f \in Files |-> <<>>]
    /\ inserter = [c \in Crimes |-> IF c \in Known THEN Earlier ELSE NoIngest]
    /\ status = [i \in Ingests |-> "none"]
    /\ pc = [i \in Ingests |-> "idle"]
    /\ dl = [i \in Ingests |-> NoDownload]
    /\ im = [i \in Ingests |-> NoImport]
    /\ torn = {} /\ overlapped = {} /\ disturbed = {} /\ resumed = {}
    /\ faults = 0 /\ kills = 0

Active == {i \in Ingests : pc[i] \notin {"idle", "done", "dead"}}
Stored == {c \in Crimes : inserter[c] # NoIngest}

Go(i, from, to) ==
    /\ pc[i] = from
    /\ pc' = [pc EXCEPT ![i] = to]

Fault(i) ==
    /\ faults < MaxFaults
    /\ faults' = faults + 1
    /\ disturbed' = disturbed \cup {i}
    /\ UNCHANGED <<torn, overlapped, resumed, kills>>

NoFault == UNCHANGED <<historyVars, boundVars>>

\* Ingests that have verified file f, or the path when it names f or names no file yet.
Verified(f) ==
    {q \in Ingests : \/ pc[q] \in {"check", "rename"} /\ link \in {f, NoFile}
                     \/ pc[q] \in ImportSteps /\ dl[q].file = f}

\* The disk after a step: files that no path and no ingest holds are gone.
Settle(c) ==
    content' = [f \in Files |->
        IF f = link' \/ \E i \in Ingests : dl'[i].file = f THEN c[f] ELSE <<>>]

\* The partial file is unlinked, or it stays.
Unlink == link' = NoFile /\ Settle(content)
Keep == UNCHANGED diskVars

Partial == IF link = NoFile THEN <<>> ELSE content[link]

\* (int) of a missing Content-Length is 0: header() returns an empty string, not null.
ExpectedSize == IF server.sized THEN Size ELSE 0

-----------------------------------------------------------------------------
(* ingest and downloadArchive *)

Start(i) ==
    /\ Go(i, "idle", "head")
    /\ status' = [status EXCEPT ![i] = "running"]
    /\ overlapped' = IF Active = {} THEN overlapped ELSE overlapped \cup Active \cup {i}
    /\ resumed' = IF Partial = <<>> THEN resumed ELSE resumed \cup {i}
    /\ UNCHANGED <<serverVars, diskVars, inserter, dl, im, torn, disturbed, boundVars>>

\* fetchArchiveMetadata, twice; a HEAD that fails to the end throws.
Metadata(i) ==
    /\ \/ Go(i, "head", "inspect") /\ dl' = [dl EXCEPT ![i].expect = version] /\ NoFault
       \/ Go(i, "head", "fail") /\ Fault(i) /\ UNCHANGED dl
    /\ UNCHANGED <<serverVars, diskVars, inserter, status, im>>

\* A partial file that cannot be resumed, or is longer than the archive, is dropped.
Inspect(i) ==
    LET existing == Len(Partial)
        drop == existing > 0 /\ (server.ranges = "none" \/ existing > ExpectedSize)
    IN  /\ Go(i, "inspect", "get")
        /\ dl' = [dl EXCEPT ![i].existing = IF drop THEN 0 ELSE existing]
        /\ IF drop THEN Unlink ELSE Keep
        /\ UNCHANGED <<serverVars, inserter, status, im, historyVars, boundVars>>

\* The GET.  retry() throws on every answer that is not a success, so that a 416
\* ends the ingest before the code that would drop the partial file is reached.
Get(i) ==
    LET ranged == server.ranges # "none" /\ dl[i].existing > 0
        honoured == ranged /\ server.ranges = "bytes"
    IN  /\ \/ /\ honoured => dl[i].existing < Size
              /\ Go(i, "get", "open")
              /\ dl' = [dl EXCEPT ![i].body = version,
                                  ![i].next = IF honoured THEN dl[i].existing + 1 ELSE 1,
                                  ![i].existing = IF honoured THEN @ ELSE 0]
              /\ IF ranged /\ ~honoured THEN Unlink ELSE Keep
              /\ NoFault
           \/ /\ honoured /\ dl[i].existing >= Size
              /\ Go(i, "get", "fail")
              /\ UNCHANGED <<dl, diskVars>>
              /\ NoFault
           \/ /\ Go(i, "get", "fail")
              /\ UNCHANGED <<dl, diskVars>>
              /\ Fault(i)
        /\ UNCHANGED <<serverVars, inserter, status, im>>

\* fopen, to append when there was something to resume, and else to write anew.
Open(i) ==
    LET appending == dl[i].existing > 0
        fresh == CHOOSE f \in Files : f # link /\ \A q \in Ingests : dl[q].file # f
    IN  /\ Go(i, "open", "write")
        /\ link' = IF link = NoFile THEN fresh ELSE link
        /\ dl' = [dl EXCEPT ![i].file = link']
        /\ Settle([content EXCEPT ![link'] = IF appending THEN @ ELSE <<>>])
        /\ torn' = IF appending /\ link # NoFile THEN torn ELSE torn \cup Verified(link')
        /\ UNCHANGED <<serverVars, inserter, status, im, overlapped, disturbed, resumed, boundVars>>

\* c with block b at position k; a gap before it reads as zeros.
Written(c, k, b) ==
    [n \in 1 .. (IF k > Len(c) THEN k ELSE Len(c)) |->
        IF n = k THEN b ELSE IF n <= Len(c) THEN c[n] ELSE Hole]

\* One block arrives and is written, at the end or at the position of the handle;
\* after the last one the handle is closed.
Write(i) ==
    LET block == <<dl[i].body, dl[i].next>>
        last == dl[i].next = Size
        Into(c) == IF dl[i].existing > 0 THEN Append(c, block) ELSE Written(c, dl[i].next, block)
    IN  /\ Go(i, "write", IF last THEN "verify" ELSE "write")
        /\ dl' = [dl EXCEPT ![i].next = @ + 1, ![i].file = IF last THEN NoFile ELSE @]
        /\ UNCHANGED link
        /\ Settle([content EXCEPT ![dl[i].file] = Into(@)])
        /\ torn' = torn \cup Verified(dl[i].file)
        /\ UNCHANGED <<serverVars, inserter, status, im, overlapped, disturbed, resumed, boundVars>>

\* The connection is cut: the stream ends, or reading it throws.
Cut(i) ==
    /\ \E to \in {"verify", "fail"} : Go(i, "write", to)
    /\ Fault(i)
    /\ dl' = [dl EXCEPT ![i].file = NoFile]
    /\ UNCHANGED link
    /\ Settle(content)
    /\ UNCHANGED <<serverVars, inserter, status, im>>

\* Mutant: any archive of the right size passes.
VerifySizeOnly(i) ==
    /\ UNCHANGED <<serverVars, inserter, status, im, dl, historyVars, boundVars>>
    /\ Go(i, "verify", IF link = NoFile \/ Len(Partial) < ExpectedSize THEN "fail" ELSE "check")
    /\ Keep

\* Size and checksum of what the path names now; the size may be the one found before
\* the download, from PHP's stat cache.  Without a published checksum the missing
\* Content-MD5 header, an empty string, is compared, and nothing matches.  A short
\* file is kept to be resumed.
Verify(i) ==
    \E size \in {Len(Partial)} \cup ({dl[i].existing} \ {0}) :
        LET short == link = NoFile \/ size < ExpectedSize
            matches == server.digest = "published" /\ Partial = Whole(dl[i].expect)
        IN  /\ Go(i, "verify", IF ~short /\ matches THEN "check" ELSE "fail")
            /\ UNCHANGED <<serverVars, inserter, status, im, dl, historyVars, boundVars>>
            /\ IF short \/ matches THEN Keep ELSE Unlink

\* The zip is consistent when it is the archive of some version.
CheckZip(i) ==
    LET consistent == \E v \in 1 .. MaxVersions : Partial = Whole(v)
    IN  /\ Go(i, "check", IF consistent THEN "rename" ELSE "fail")
        /\ UNCHANGED <<serverVars, inserter, status, im, dl, historyVars, boundVars>>
        /\ IF consistent THEN Keep ELSE Unlink

Rename(i) ==
    /\ Go(i, "rename", IF link = NoFile THEN "fail" ELSE "read")
    /\ dl' = [dl EXCEPT ![i].file = link]
    /\ link' = NoFile
    /\ Settle(content)
    /\ UNCHANGED <<serverVars, inserter, status, im, historyVars, boundVars>>

-----------------------------------------------------------------------------
(* importArchive and flushBuffer *)

\* Identifiers in the rows up to `to` that the ingest has not seen yet.
NewIds(i, to) ==
    {Rows[k] : k \in im[i].row .. to} \ ({Rows[k] : k \in 1 .. im[i].row - 1} \cup {Invalid})

\* The first row that fills the buffer, or else the last row.
ChunkEnds(i) ==
    LET Full(k) == Cardinality(NewIds(i, k)) = ChunkSize
        first == {k \in im[i].row .. Len(Rows) : Full(k) /\ \A n \in im[i].row .. k - 1 : ~Full(n)}
    IN  IF first = {} THEN {Len(Rows)} ELSE first

\* Rows are read until the buffer is full or the archive ends; what remains in the
\* buffer at the end is flushed too.  A file that has been written into may be
\* refused, or its streams may end at any row.
ReadChunk(i) ==
    LET intact == content[dl[i].file] = Whole(dl[i].expect)
    IN  /\ pc[i] = "read"
        /\ \/ \E end \in ChunkEnds(i) : \E to \in im[i].row - 1 .. end :
                /\ intact => to = end
                /\ Go(i, "read", IF NewIds(i, to) = {} THEN "complete" ELSE "lookup")
                /\ im' = [im EXCEPT ![i].row = IF to = end THEN to + 1 ELSE Len(Rows) + 1,
                                    ![i].buffer = NewIds(i, to)]
           \/ ~intact /\ im[i].row = 1 /\ Go(i, "read", "fail") /\ UNCHANGED im
        /\ UNCHANGED <<serverVars, diskVars, inserter, status, dl, historyVars, boundVars>>

\* The counts of a chunk of which `fresh` was not in the table; the buffer is emptied.
Account(i, fresh) ==
    im' = [im EXCEPT ![i].detected = @ + Cardinality(im[i].buffer),
                     ![i].expected = @ + Cardinality(fresh),
                     ![i].buffer = {}, ![i].fresh = {}]

\* Mutant: rows that exist are not filtered out.
LookupNothing(i) ==
    /\ pc[i] = "lookup"
    /\ Go(i, "lookup", "insert")
    /\ im' = [im EXCEPT ![i].fresh = im[i].buffer]
    /\ UNCHANGED <<serverVars, diskVars, inserter, status, dl, historyVars, boundVars>>

Lookup(i) ==
    LET fresh == im[i].buffer \ Stored
    IN  /\ IF i \in dry \/ fresh = {}
           THEN Go(i, "lookup", "read") /\ Account(i, fresh)
           ELSE Go(i, "lookup", "insert") /\ im' = [im EXCEPT ![i].fresh = fresh]
        /\ UNCHANGED <<serverVars, diskVars, inserter, status, dl, historyVars, boundVars>>

\* Mutant: the whole buffer is counted as inserted.
InsertCountAll(i) ==
    /\ Go(i, "insert", "read")
    /\ im[i].fresh \cap Stored = {}
    /\ inserter' = [c \in Crimes |-> IF c \in im[i].fresh THEN i ELSE inserter[c]]
    /\ Account(i, im[i].buffer)
    /\ NoFault
    /\ UNCHANGED <<serverVars, diskVars, status, dl>>

\* One insert statement: the primary key refuses all of it when another ingest has
\* inserted one of the rows since the look-up.  The bump that follows may fail.
Insert(i) ==
    LET fresh == im[i].fresh
        clash == fresh \cap Stored # {}
    IN  /\ inserter' = [c \in Crimes |-> IF c \in fresh /\ ~clash THEN i ELSE inserter[c]]
        /\ \/ clash /\ Go(i, "insert", "fail") /\ UNCHANGED im /\ NoFault
           \/ ~clash /\ Go(i, "insert", "read") /\ Account(i, fresh) /\ NoFault
           \/ ~clash /\ Go(i, "insert", "fail") /\ UNCHANGED im /\ Fault(i)
        /\ UNCHANGED <<serverVars, diskVars, status, dl>>

\* The run ends and its archive is removed.
End(i, from, outcome) ==
    /\ Go(i, from, "done")
    /\ status' = [status EXCEPT ![i] = outcome]
    /\ dl' = [dl EXCEPT ![i] = NoDownload]
    /\ UNCHANGED link
    /\ Settle(content)
    /\ UNCHANGED <<serverVars, inserter, historyVars, boundVars>>

\* Mutant: what is left in the buffer is forgotten.
CompleteEarly(i) == pc[i] \in {"read", "complete"} /\ im[i].row > 1 /\ End(i, pc[i], "completed") /\ UNCHANGED im

\* The counts stay: they are the columns of the run.
Complete(i) == End(i, "complete", "completed") /\ UNCHANGED im

\* Mutant: the exception is rethrown before the run is saved.
FailForgotten(i) == End(i, "fail", status[i]) /\ im' = [im EXCEPT ![i] = NoImport]

Fail(i) == End(i, "fail", "failed") /\ im' = [im EXCEPT ![i] = NoImport]

Step(i) ==
    \/ Metadata(i) \/ Inspect(i) \/ Get(i) \/ Open(i) \/ Write(i) \/ Cut(i) \/ Verify(i)
    \/ CheckZip(i) \/ Rename(i) \/ ReadChunk(i) \/ Lookup(i) \/ Insert(i)
    \/ Complete(i) \/ Fail(i)

-----------------------------------------------------------------------------
(* The environment *)

\* The process is killed; nothing is cleaned up but its handles.
Kill(i) ==
    /\ i \in Active
    /\ kills < MaxKills
    /\ kills' = kills + 1
    /\ pc' = [pc EXCEPT ![i] = "dead"]
    /\ dl' = [dl EXCEPT ![i] = NoDownload]
    /\ im' = [im EXCEPT ![i] = NoImport]
    /\ disturbed' = disturbed \cup {i}
    /\ UNCHANGED link
    /\ Settle(content)
    /\ UNCHANGED <<serverVars, inserter, status, torn, overlapped, resumed, faults>>

\* The archive of the month is published again, with other bytes.
Publish ==
    /\ version < MaxVersions
    /\ version' = version + 1
    /\ disturbed' = disturbed \cup Active
    /\ UNCHANGED <<argumentVars, diskVars, inserter, status, pc, dl, im, torn, overlapped, resumed,
                   boundVars>>

Next ==
    \/ \E i \in Ingests : Start(i) \/ Step(i) \/ Kill(i)
    \/ Publish

Spec == Init /\ [][Next]_vars

\* A live ingest goes on: requests have timeouts and reads return.
Fairness == \A i \in Ingests : WF_vars(Step(i))

FairSpec == Spec /\ Fairness

-----------------------------------------------------------------------------
(* Properties *)

\* Another ingest, which ran at the same time, wrote into the archive of i or put
\* another one in its place after i had verified it.
Torn(i) == i \in torn /\ i \in overlapped

\* What an ingest imports is the archive whose checksum it was told, however often
\* the download was cut, killed, resumed over other versions or shared, and whatever
\* is left on the disk: only an ingest that runs at the same time can spoil it, by a
\* write after the verification, and such a write is the one exception.
ImportsAreVerified ==
    \A i \in Ingests :
        pc[i] \in ImportSteps => Torn(i) \/ content[dl[i].file] = Whole(dl[i].expect)

\* After a run that is recorded as completed, every crime of the archive is in the
\* table, whichever ingest inserted it, unless the run was dry or was torn.
CompletedIsImported ==
    \A i \in Ingests :
        status[i] = "completed" => i \in dry \/ Torn(i) \/ Stored = Crimes

\* The counts of a completed run that was not torn are true: detected is every crime
\* of the archive, and expected is what this very run inserted.  A dry run inserts
\* nothing, and when it ends without another ingest beside it, expected is what a
\* run would insert now.
CountsAreTrue ==
    \A i \in Ingests :
        LET inserted == {c \in Crimes : inserter[c] = i}
        IN  /\ status[i] = "completed" /\ ~Torn(i) =>
                  /\ im[i].detected = Cardinality(Crimes)
                  /\ i \notin dry => im[i].expected = Cardinality(inserted)
            /\ i \in dry => inserted = {}
            /\ i \in dry /\ pc[i] = "complete" /\ i \notin overlapped =>
                  im[i].expected = Cardinality(Crimes \ Stored)

\* An ingest that runs alone, meets no failure and finds no partial file completes,
\* if the server publishes a checksum, whatever earlier ingests left in the table.
CleanIngestCompletes ==
    \A i \in Ingests :
        status[i] = "failed" =>
            i \in overlapped \cup disturbed \cup resumed \/ server.digest = "none"

\* Every run that is not killed ends as completed or failed.
RunsEnd ==
    \A i \in Ingests :
        status[i] = "running" ~> status[i] \in {"completed", "failed"} \/ pc[i] = "dead"

\* README of the backend: "resilient downloader".  An ingest that runs alone and
\* meets no failure completes, also when it resumes what a killed one has left.
ResumedIngestCompletes ==
    \A i \in Ingests : status[i] = "failed" => i \in overlapped \cup disturbed
=============================================================================
