------------------------ MODULE CrimeIngestionProofs ------------------------
(***************************************************************************)
(* Theorems about CrimeIngestion, for any number of ingests, any archive,  *)
(* any archive server and any chunk size: but for runs that an ingest at   *)
(* the same time has torn, what is imported is the archive that was        *)
(* promised, and a completed run has imported all of it and counts it      *)
(* right; and an ingest that nothing disturbs completes.                   *)
(***************************************************************************)
EXTENDS CrimeIngestion, SequenceTheorems, FiniteSetTheorems, FunctionTheorems, TLAPS
-----------------------------------------------------------------------------
(* Types *)

Block == Nat \X Nat
Downloads == [expect: Nat, existing: Nat, file: Files \cup {NoFile}, body: Nat, next: Nat]
Imports == [row: Nat \ {0}, buffer: SUBSET Crimes, fresh: SUBSET Crimes, detected: Nat, expected: Nat]

TypeInv ==
    /\ version \in 1 .. MaxVersions
    /\ dry \subseteq Ingests
    /\ link \in Files \cup {NoFile}
    /\ content \in [Files -> Seq(Block)]
    /\ inserter \in [Crimes -> Ingests \cup {NoIngest, Earlier}]
    /\ status \in [Ingests -> Status]
    /\ pc \in [Ingests -> Steps]
    /\ dl \in [Ingests -> Downloads]
    /\ im \in [Ingests -> Imports]
    /\ torn \subseteq Ingests

LEMMA FilesAreNumbered == Files \subseteq Nat \ {NoFile} /\ IsFiniteSet(Files) /\ Cardinality(Files) = Cardinality(Ingests) + 1
<1>1. Cardinality(Ingests) \in Nat
  BY IngestsAssumption, FS_CardinalityType
<1> DEFINE n == Cardinality(Ingests) + 1
<1>2. IsFiniteSet(1 .. n) /\ Cardinality(1 .. n) = IF 1 > n THEN 0 ELSE n - 1 + 1
  BY <1>1, FS_Interval
<1>3. Cardinality(1 .. n) = n
  BY <1>1, <1>2
<1> QED BY <1>1, <1>2, <1>3 DEF Files, NoFile

LEMMA CrimesAreFinite == IsFiniteSet(Crimes) /\ \A S \in SUBSET Crimes : IsFiniteSet(S) /\ Cardinality(S) \in Nat
<1>1. Len(Rows) \in Nat /\ DOMAIN Rows = 1 .. Len(Rows)
  BY RowsAssumption, LenProperties
<1> DEFINE all == {Rows[k] : k \in DOMAIN Rows}
           f == [k \in DOMAIN Rows |-> Rows[k]]
<1>2. f \in Surjection(DOMAIN Rows, all)
  BY Fun_IsSurj
<1>3. IsFiniteSet(all)
  BY <1>1, <1>2, FS_Interval, FS_Surjection
<1>4. IsFiniteSet(Crimes)
  BY <1>3, FS_Difference DEF Crimes
<1> QED BY <1>4, FS_Subset, FS_CardinalityType

\* A file that no path and no ingest holds is always there to be opened.
LEMMA FreshFile ==
    ASSUME TypeInv, link = NoFile
    PROVE  \E f \in Files : f # link /\ \A q \in Ingests : dl[q].file # f
<1> DEFINE held == {dl[q].file : q \in Ingests}
           file == [q \in Ingests |-> dl[q].file]
<1>1. file \in Surjection(Ingests, held)
  BY Fun_IsSurj
<1>2. IsFiniteSet(held) /\ Cardinality(held) <= Cardinality(Ingests)
  BY <1>1, IngestsAssumption, FS_Surjection
<1>3. Cardinality(held) \in Nat /\ Cardinality(Ingests) \in Nat
  BY <1>2, IngestsAssumption, FS_CardinalityType
<1> HIDE DEF held
<1>4. ASSUME Files \subseteq held PROVE FALSE
  <2>1. Cardinality(Files) <= Cardinality(held)
    BY <1>2, <1>4, FS_Subset
  <2> QED BY <1>2, <1>3, <2>1, FilesAreNumbered
<1> QED BY <1>4, FilesAreNumbered DEF held

LEMMA SettleType ==
    ASSUME NEW c \in [Files -> Seq(Block)], Settle(c)
    PROVE  /\ content' \in [Files -> Seq(Block)]
           /\ link' \in Files => content'[link'] = c[link']
           /\ \A i \in Ingests : dl'[i].file \in Files => content'[dl'[i].file] = c[dl'[i].file]
<1>1. <<>> \in Seq(Block)
  BY EmptySeq
<1>2. content' = [f \in Files |-> IF f = link' \/ \E i \in Ingests : dl'[i].file = f THEN c[f] ELSE <<>>]
  BY DEF Settle
<1>3. \A f \in Files : content'[f] \in Seq(Block)
  BY <1>1, <1>2
<1>4. content' \in [Files -> Seq(Block)]
  BY <1>2, <1>3
<1>5. \A f \in Files : f = link' => content'[f] = c[f]
  BY <1>2
<1>6. \A f \in Files : \A i \in Ingests : dl'[i].file = f => content'[f] = c[f]
  BY <1>2
<1> QED BY <1>4, <1>5, <1>6

LEMMA WrittenType ==
    ASSUME NEW c \in Seq(Block), NEW k \in Nat, NEW b \in Block
    PROVE  Written(c, k, b) \in Seq(Block)
<1>1. Len(c) \in Nat /\ \A n \in 1 .. Len(c) : c[n] \in Block
  BY LenProperties, ElementOfSeq
<1>2. Hole \in Block
  BY DEF Hole, Block
<1> DEFINE m == IF k > Len(c) THEN k ELSE Len(c)
<1>3. m \in Nat
  BY <1>1
<1>4. Written(c, k, b) = [n \in 1 .. m |-> IF n = k THEN b ELSE IF n <= Len(c) THEN c[n] ELSE Hole]
  BY DEF Written
<1>5. \A n \in 1 .. m : (IF n = k THEN b ELSE IF n <= Len(c) THEN c[n] ELSE Hole) \in Block
  BY <1>1, <1>2
<1> HIDE DEF m
<1>6. Written(c, k, b) \in [1 .. m -> Block]
  BY <1>4, <1>5
<1> QED BY <1>3, <1>6, SeqDef

LEMMA GoType ==
    ASSUME TypeInv, NEW i \in Ingests, NEW from, NEW to \in Steps, Go(i, from, to)
    PROVE  /\ pc' \in [Ingests -> Steps] /\ pc[i] = from /\ pc'[i] = to
           /\ \A j \in Ingests \ {i} : pc'[j] = pc[j]
BY DEF TypeInv, Go

LEMMA PartialType == TypeInv => Partial \in Seq(Block) /\ Len(Partial) \in Nat
<1> SUFFICES ASSUME TypeInv PROVE Partial \in Seq(Block) /\ Len(Partial) \in Nat
  OBVIOUS
<1>1. <<>> \in Seq(Block)
  BY EmptySeq
<1>2. Partial \in Seq(Block)
  BY <1>1 DEF Partial, TypeInv
<1> QED BY <1>2, LenProperties

\* Leaving or unlinking the partial file keeps the types of the disk.
LEMMA DiskType ==
    ASSUME TypeInv, Keep \/ Unlink
    PROVE  link' \in Files \cup {NoFile} /\ content' \in [Files -> Seq(Block)]
<1>1. CASE Keep
  BY <1>1 DEF Keep, diskVars, TypeInv
<1>2. CASE Unlink
  <2>1. link' = NoFile /\ content \in [Files -> Seq(Block)] /\ Settle(content)
    BY <1>2 DEF Unlink, TypeInv
  <2> QED BY <2>1, SettleType
<1> QED BY <1>1, <1>2

LEMMA DownloadType ==
    ASSUME TypeInv, NEW i \in Ingests,
           Start(i) \/ Metadata(i) \/ Inspect(i) \/ Get(i) \/ Verify(i) \/ CheckZip(i)
    PROVE  TypeInv'
<1> USE DEF Steps, Status, ImportSteps, serverVars, argumentVars, historyVars, boundVars, NoFault, Fault
<1>1. CASE Start(i)
  BY <1>1, GoType DEF Start, TypeInv, diskVars
<1>2. CASE Metadata(i)
  <2>1. pc' \in [Ingests -> Steps]
    BY <1>2, GoType DEF Metadata
  <2>2. dl' \in [Ingests -> Downloads]
    <3>1. version \in Nat /\ dl \in [Ingests -> Downloads]
      BY SizeAssumption DEF TypeInv
    <3>2. dl' = dl \/ dl' = [dl EXCEPT ![i].expect = version]
      BY <1>2 DEF Metadata
    <3>3. dl[i] \in Downloads
      BY <3>1
    <3>4. [dl[i] EXCEPT !.expect = version] \in Downloads
      BY <3>1, <3>3 DEF Downloads
    <3>5. [dl EXCEPT ![i].expect = version] = [dl EXCEPT ![i] = [dl[i] EXCEPT !.expect = version]]
      BY <3>1
    <3> QED BY <3>1, <3>2, <3>4, <3>5
  <2> QED BY <1>2, <2>1, <2>2 DEF Metadata, TypeInv, diskVars
<1>3. CASE Inspect(i)
  <2>1. Len(Partial) \in Nat
    BY PartialType
  <2>2. dl' \in [Ingests -> Downloads]
    <3>1. PICK e \in Nat : dl' = [dl EXCEPT ![i].existing = e]
      BY <1>3, <2>1 DEF Inspect
    <3>2. dl \in [Ingests -> Downloads]
      BY DEF TypeInv
    <3> QED BY <3>1, <3>2 DEF Downloads
  <2>3. pc' \in [Ingests -> Steps] /\ (Keep \/ Unlink)
    BY <1>3, GoType DEF Inspect
  <2> QED BY <1>3, <2>2, <2>3, DiskType DEF Inspect, TypeInv
<1>4. CASE Get(i)
  <2>1. dl[i].existing \in Nat /\ version \in Nat /\ dl \in [Ingests -> Downloads]
    BY DEF TypeInv, Downloads
  <2>2. dl' \in [Ingests -> Downloads]
    BY <1>4, <2>1 DEF Get, Downloads
  <2>3. pc' \in [Ingests -> Steps] /\ (Keep \/ Unlink)
    BY <1>4, GoType DEF Get, Keep, diskVars
  <2> QED BY <1>4, <2>2, <2>3, DiskType DEF Get, TypeInv
<1>5. CASE Verify(i)
  <2>1. pc' \in [Ingests -> Steps] /\ (Keep \/ Unlink)
    BY <1>5, GoType DEF Verify
  <2> QED BY <1>5, <2>1, DiskType DEF Verify, TypeInv
<1>6. CASE CheckZip(i)
  <2>1. pc' \in [Ingests -> Steps] /\ (Keep \/ Unlink)
    BY <1>6, GoType DEF CheckZip
  <2> QED BY <1>6, <2>1, DiskType DEF CheckZip, TypeInv
<1> QED BY <1>1, <1>2, <1>3, <1>4, <1>5, <1>6

\* The files after a block has been written.
LEMMA WriteType ==
    ASSUME TypeInv, NEW i \in Ingests
    PROVE  [content EXCEPT ![dl[i].file] =
                IF dl[i].existing > 0 THEN Append(content[dl[i].file], <<dl[i].body, dl[i].next>>)
                ELSE Written(content[dl[i].file], dl[i].next, <<dl[i].body, dl[i].next>>)]
             \in [Files -> Seq(Block)]
<1> DEFINE file == dl[i].file
           block == <<dl[i].body, dl[i].next>>
           grown == IF dl[i].existing > 0 THEN Append(content[file], block)
                    ELSE Written(content[file], dl[i].next, block)
<1>1. content \in [Files -> Seq(Block)] /\ dl[i].next \in Nat /\ block \in Block
  BY DEF TypeInv, Downloads, Block
<1>2. CASE file \in Files
  <2>1. content[file] \in Seq(Block)
    BY <1>1, <1>2
  <2>2. grown \in Seq(Block)
    BY <1>1, <2>1, WrittenType, AppendProperties
  <2> HIDE DEF grown, file
  <2> QED BY <1>1, <2>2 DEF grown, file
<1>3. CASE file \notin Files
  <2> HIDE DEF grown, file
  <2> QED BY <1>1, <1>3 DEF grown, file
<1> QED BY <1>2, <1>3

LEMMA DiskStepType ==
    ASSUME TypeInv, NEW i \in Ingests, Open(i) \/ Write(i) \/ Cut(i) \/ Rename(i)
    PROVE  TypeInv'
<1> USE DEF Steps, Status, ImportSteps, serverVars, argumentVars, historyVars, boundVars, Fault
<1>0. /\ link \in Files \cup {NoFile} /\ content \in [Files -> Seq(Block)] /\ dl \in [Ingests -> Downloads]
      /\ torn \subseteq Ingests /\ \A f : Verified(f) \subseteq Ingests
  BY DEF TypeInv, Verified
<1>1. CASE Open(i)
  <2> DEFINE fresh == CHOOSE f \in Files : f # link /\ \A q \in Ingests : dl[q].file # f
             c == [content EXCEPT ![link'] = IF dl[i].existing > 0 THEN content[link'] ELSE <<>>]
  <2>1. link' = IF link = NoFile THEN fresh ELSE link
    BY <1>1 DEF Open
  <2>2. link' \in Files
    BY <1>0, <2>1, FreshFile
  <2> HIDE DEF fresh
  <2>3. dl' = [dl EXCEPT ![i].file = link'] /\ Settle(c)
    BY <1>1 DEF Open
  <2>4. dl' \in [Ingests -> Downloads]
    BY <1>0, <2>2, <2>3 DEF Downloads
  <2>5. <<>> \in Seq(Block)
    BY EmptySeq
  <2>6. c \in [Files -> Seq(Block)]
    BY <1>0, <2>2, <2>5
  <2> HIDE DEF c
  <2>7. content' \in [Files -> Seq(Block)]
    BY <2>3, <2>6, SettleType
  <2>8. pc' \in [Ingests -> Steps] /\ torn' \subseteq Ingests
    BY <1>0, <1>1, GoType DEF Open
  <2> QED BY <1>1, <2>2, <2>4, <2>7, <2>8 DEF Open, TypeInv
<1>2. CASE Write(i)
  <2> DEFINE file == dl[i].file
             block == <<dl[i].body, dl[i].next>>
             grown == IF dl[i].existing > 0 THEN Append(content[file], block)
                      ELSE Written(content[file], dl[i].next, block)
             c == [content EXCEPT ![file] = grown]
             left == IF dl[i].next = Size THEN NoFile ELSE file
             d == [dl[i] EXCEPT !.next = dl[i].next + 1, !.file = left]
  <2>1. /\ dl[i] \in Downloads /\ dl[i].next \in Nat /\ block \in Block
        /\ left \in Files \cup {NoFile} /\ file \in Files \cup {NoFile}
    BY <1>0 DEF Downloads, Block
  <2>2. /\ dl' = [dl EXCEPT ![i] = d] /\ Settle(c)
        /\ link' = link /\ torn' = torn \cup Verified(file)
        /\ UNCHANGED <<serverVars, inserter, status, im>>
    BY <1>2 DEF Write
  <2>3. d \in Downloads
    <3>1. \A n \in Nat, f \in Files \cup {NoFile} :
             [[dl[i] EXCEPT !.next = n] EXCEPT !.file = f] \in Downloads
      BY <2>1 DEF Downloads
    <3>2. d = [[dl[i] EXCEPT !.next = dl[i].next + 1] EXCEPT !.file = left]
      OBVIOUS
    <3>3. dl[i].next + 1 \in Nat
      BY <2>1
    <3> HIDE DEF left, file, block, d
    <3> QED BY <2>1, <3>1, <3>2, <3>3
  <2>4. dl' \in [Ingests -> Downloads]
    BY <1>0, <2>2, <2>3
  <2>5. c \in [Files -> Seq(Block)]
    BY WriteType
  <2> HIDE DEF c
  <2>7. content' \in [Files -> Seq(Block)]
    BY <2>2, <2>5, SettleType
  <2>6. pc' \in [Ingests -> Steps]
    BY <1>2, GoType DEF Write
  <2> QED BY <1>0, <2>2, <2>4, <2>6, <2>7 DEF TypeInv
<1>3. CASE Cut(i)
  <2>1. pc' \in [Ingests -> Steps] /\ Settle(content) /\ link' = link
    BY <1>3, GoType DEF Cut
  <2>2. dl' \in [Ingests -> Downloads]
    BY <1>0, <1>3 DEF Cut, Downloads
  <2>3. content' \in [Files -> Seq(Block)]
    BY <1>0, <2>1, SettleType
  <2> QED BY <1>3, <2>1, <2>2, <2>3 DEF Cut, TypeInv
<1>4. CASE Rename(i)
  <2>1. pc' \in [Ingests -> Steps] /\ Settle(content) /\ link' = NoFile
    BY <1>4, GoType DEF Rename
  <2>2. dl' \in [Ingests -> Downloads]
    BY <1>0, <1>4 DEF Rename, Downloads
  <2>3. content' \in [Files -> Seq(Block)]
    BY <1>0, <2>1, SettleType
  <2> QED BY <1>4, <2>1, <2>2, <2>3 DEF Rename, TypeInv
<1> QED BY <1>1, <1>2, <1>3, <1>4

LEMMA ChunkType ==
    ASSUME TypeInv, NEW i \in Ingests
    PROVE  /\ Len(Rows) \in Nat /\ DOMAIN Rows = 1 .. Len(Rows) /\ im[i].row \in Nat \ {0}
           /\ \A end \in ChunkEnds(i) : end \in Nat /\ end <= Len(Rows)
           /\ \A to \in Int : to <= Len(Rows) => NewIds(i, to) \subseteq Crimes
<1>1. Len(Rows) \in Nat /\ DOMAIN Rows = 1 .. Len(Rows)
  BY RowsAssumption, LenProperties
<1>2. im[i].row \in Nat \ {0}
  BY DEF TypeInv, Imports
<1>3. \A end \in ChunkEnds(i) : end \in Nat /\ end <= Len(Rows)
  <2> DEFINE Full(k) == Cardinality(NewIds(i, k)) = ChunkSize
             first == {k \in im[i].row .. Len(Rows) : Full(k) /\ \A n \in im[i].row .. k - 1 : ~Full(n)}
  <2>1. \A end \in first : end \in Nat /\ end <= Len(Rows)
    BY <1>1, <1>2
  <2>2. ChunkEnds(i) = IF first = {} THEN {Len(Rows)} ELSE first
    BY DEF ChunkEnds
  <2> HIDE DEF first
  <2> QED BY <1>1, <2>1, <2>2
<1>4. \A to \in Int : to <= Len(Rows) => NewIds(i, to) \subseteq Crimes
  BY <1>1, <1>2 DEF NewIds, Crimes
<1> QED BY <1>1, <1>2, <1>3, <1>4

LEMMA AccountType ==
    ASSUME TypeInv, NEW i \in Ingests, NEW fresh \in SUBSET Crimes, Account(i, fresh)
    PROVE  /\ im' \in [Ingests -> Imports] /\ \A j \in Ingests \ {i} : im'[j] = im[j]
           /\ im'[i].row = im[i].row /\ im'[i].buffer = {}
           /\ im'[i].detected = im[i].detected + Cardinality(im[i].buffer)
           /\ im'[i].expected = im[i].expected + Cardinality(fresh)
<1>1. im \in [Ingests -> Imports] /\ im[i] \in Imports /\ im[i].buffer \in SUBSET Crimes
  BY DEF TypeInv, Imports
<1> DEFINE d == im[i].detected + Cardinality(im[i].buffer)
           e == im[i].expected + Cardinality(fresh)
<1>2. d \in Nat /\ e \in Nat
  BY <1>1, CrimesAreFinite DEF Imports
<1>3. im' = [im EXCEPT ![i].detected = d, ![i].expected = e, ![i].buffer = {}, ![i].fresh = {}]
  BY DEF Account
<1> HIDE DEF d, e
<1> DEFINE r == [im[i] EXCEPT !.detected = d, !.expected = e, !.buffer = {}, !.fresh = {}]
<1>4. r = [[[[im[i] EXCEPT !.detected = d] EXCEPT !.expected = e] EXCEPT !.buffer = {}] EXCEPT !.fresh = {}]
  OBVIOUS
<1>5. im' = [im EXCEPT ![i] = r]
  BY <1>3
<1> HIDE DEF r
<1>6. r \in Imports /\ r.row = im[i].row /\ r.buffer = {} /\ r.detected = d /\ r.expected = e
  BY <1>1, <1>2, <1>4 DEF Imports
<1> QED BY <1>1, <1>5, <1>6 DEF d, e

\* A chunk that has been read, or the refusal of the archive.
LEMMA ReadChunkStep ==
    ASSUME TypeInv, NEW i \in Ingests, ReadChunk(i)
    PROVE  /\ pc[i] = "read" /\ pc' \in [Ingests -> Steps] /\ \A j \in Ingests \ {i} : pc'[j] = pc[j]
           /\ im' \in [Ingests -> Imports] /\ \A j \in Ingests \ {i} : im'[j] = im[j]
           /\ im'[i].detected = im[i].detected /\ im'[i].expected = im[i].expected
           /\ \/ /\ pc'[i] = "fail" /\ im' = im /\ content[dl[i].file] # Whole(dl[i].expect)
              \/ \E end \in ChunkEnds(i) : \E to \in im[i].row - 1 .. end :
                    /\ content[dl[i].file] = Whole(dl[i].expect) => to = end
                    /\ im'[i].buffer = NewIds(i, to) /\ im'[i].buffer \subseteq Crimes
                    /\ im'[i].row = IF to = end THEN to + 1 ELSE Len(Rows) + 1
                    /\ pc'[i] = IF im'[i].buffer = {} THEN "complete" ELSE "lookup"
<1>1. /\ pc[i] = "read" /\ im \in [Ingests -> Imports] /\ im[i] \in Imports
      /\ pc \in [Ingests -> Steps] /\ {"complete", "lookup", "fail"} \subseteq Steps
  BY DEF ReadChunk, TypeInv, Steps, ImportSteps
<1>2. CASE content[dl[i].file] # Whole(dl[i].expect) /\ Go(i, "read", "fail") /\ UNCHANGED im
  BY <1>1, <1>2, GoType
<1>3. ASSUME NEW end \in ChunkEnds(i), NEW to \in im[i].row - 1 .. end,
             content[dl[i].file] = Whole(dl[i].expect) => to = end,
             Go(i, "read", IF NewIds(i, to) = {} THEN "complete" ELSE "lookup"),
             im' = [im EXCEPT ![i].row = IF to = end THEN to + 1 ELSE Len(Rows) + 1,
                              ![i].buffer = NewIds(i, to)]
      PROVE  /\ pc' \in [Ingests -> Steps] /\ \A j \in Ingests \ {i} : pc'[j] = pc[j]
             /\ im' \in [Ingests -> Imports] /\ \A j \in Ingests \ {i} : im'[j] = im[j]
             /\ im'[i].detected = im[i].detected /\ im'[i].expected = im[i].expected
             /\ im'[i].buffer = NewIds(i, to) /\ im'[i].buffer \subseteq Crimes
             /\ im'[i].row = IF to = end THEN to + 1 ELSE Len(Rows) + 1
             /\ pc'[i] = IF im'[i].buffer = {} THEN "complete" ELSE "lookup"
  <2> DEFINE n == IF to = end THEN to + 1 ELSE Len(Rows) + 1
             new == NewIds(i, to)
             r == [im[i] EXCEPT !.row = n, !.buffer = new]
  <2>1. n \in Nat \ {0} /\ new \subseteq Crimes
    BY <1>3, ChunkType
  <2>2. im' = [im EXCEPT ![i] = r]
    BY <1>3
  <2> HIDE DEF n, new
  <2>3. r = [[im[i] EXCEPT !.row = n] EXCEPT !.buffer = new]
    OBVIOUS
  <2> HIDE DEF r
  <2>4. /\ r \in Imports /\ r.row = n /\ r.buffer = new /\ r.detected = im[i].detected
        /\ r.expected = im[i].expected
    BY <1>1, <2>1, <2>3 DEF Imports
  <2>5. im' \in [Ingests -> Imports] /\ im'[i] = r /\ \A j \in Ingests \ {i} : im'[j] = im[j]
    BY <1>1, <2>2, <2>4
  <2> DEFINE goal == IF new = {} THEN "complete" ELSE "lookup"
  <2>6. /\ pc' \in [Ingests -> Steps] /\ \A j \in Ingests \ {i} : pc'[j] = pc[j]
        /\ pc'[i] = goal
    <3>1. Go(i, "read", goal)
      BY <1>3 DEF new
    <3>2. goal \in Steps
      BY <1>1
    <3> HIDE DEF goal
    <3> QED BY <3>1, <3>2, GoType
  <2> QED BY <2>1, <2>4, <2>5, <2>6 DEF n, new
<1>4. CASE \E end \in ChunkEnds(i) : \E to \in im[i].row - 1 .. end :
            /\ content[dl[i].file] = Whole(dl[i].expect) => to = end
            /\ Go(i, "read", IF NewIds(i, to) = {} THEN "complete" ELSE "lookup")
            /\ im' = [im EXCEPT ![i].row = IF to = end THEN to + 1 ELSE Len(Rows) + 1,
                               ![i].buffer = NewIds(i, to)]
  <2>1. PICK end \in ChunkEnds(i) : \E to \in im[i].row - 1 .. end :
            /\ content[dl[i].file] = Whole(dl[i].expect) => to = end
            /\ Go(i, "read", IF NewIds(i, to) = {} THEN "complete" ELSE "lookup")
            /\ im' = [im EXCEPT ![i].row = IF to = end THEN to + 1 ELSE Len(Rows) + 1,
                               ![i].buffer = NewIds(i, to)]
    BY <1>4
  <2>2. PICK to \in im[i].row - 1 .. end :
            /\ content[dl[i].file] = Whole(dl[i].expect) => to = end
            /\ Go(i, "read", IF NewIds(i, to) = {} THEN "complete" ELSE "lookup")
            /\ im' = [im EXCEPT ![i].row = IF to = end THEN to + 1 ELSE Len(Rows) + 1,
                               ![i].buffer = NewIds(i, to)]
    BY <2>1
  <2>3. /\ im'[i].buffer = NewIds(i, to) /\ im'[i].buffer \subseteq Crimes
        /\ im'[i].row = IF to = end THEN to + 1 ELSE Len(Rows) + 1
        /\ pc'[i] = IF im'[i].buffer = {} THEN "complete" ELSE "lookup"
        /\ pc' \in [Ingests -> Steps] /\ \A j \in Ingests \ {i} : pc'[j] = pc[j]
        /\ im' \in [Ingests -> Imports] /\ \A j \in Ingests \ {i} : im'[j] = im[j]
        /\ im'[i].detected = im[i].detected /\ im'[i].expected = im[i].expected
    BY <1>3, <2>2
  <2> QED BY <1>1, <2>2, <2>3
<1>5. CASE content[dl[i].file] # Whole(dl[i].expect) /\ Go(i, "read", "fail") /\ UNCHANGED im
  BY <1>1, <1>2, <1>5
<1> QED BY <1>4, <1>5 DEF ReadChunk

LEMMA ImportType ==
    ASSUME TypeInv, NEW i \in Ingests, ReadChunk(i) \/ Lookup(i) \/ Insert(i)
    PROVE  TypeInv'
<1> USE DEF serverVars, argumentVars, diskVars, historyVars, boundVars
<1>1. /\ im \in [Ingests -> Imports] /\ im[i].buffer \in SUBSET Crimes /\ im[i].fresh \in SUBSET Crimes
      /\ {"read", "insert", "fail"} \subseteq Steps
  BY DEF TypeInv, Imports, Steps, ImportSteps
<1>2. CASE ReadChunk(i)
  <2>1. UNCHANGED <<serverVars, diskVars, inserter, status, dl, historyVars>>
    BY <1>2 DEF ReadChunk
  <2> QED BY <1>2, <2>1, ReadChunkStep DEF TypeInv
<1>3. CASE Lookup(i)
  <2> DEFINE fresh == im[i].buffer \ Stored
  <2>1. fresh \in SUBSET Crimes
    BY <1>1
  <2>2. /\ pc' \in [Ingests -> Steps] /\ (Account(i, fresh) \/ im' = [im EXCEPT ![i].fresh = fresh])
        /\ UNCHANGED <<serverVars, diskVars, inserter, status, dl, historyVars>>
    BY <1>1, <1>3, GoType DEF Lookup
  <2> HIDE DEF fresh
  <2>3. im' \in [Ingests -> Imports]
    <3>1. CASE Account(i, fresh)
      BY <2>1, <3>1, AccountType
    <3>2. CASE im' = [im EXCEPT ![i].fresh = fresh]
      BY <1>1, <2>1, <3>2 DEF Imports
    <3> QED BY <2>2, <3>1, <3>2
  <2> QED BY <2>2, <2>3 DEF TypeInv
<1>4. CASE Insert(i)
  <2>1. pc' \in [Ingests -> Steps] /\ (im' = im \/ Account(i, im[i].fresh))
    BY <1>1, <1>4, GoType DEF Insert
  <2>2. im' \in [Ingests -> Imports]
    BY <1>1, <2>1, AccountType
  <2>3. inserter' \in [Crimes -> Ingests \cup {NoIngest, Earlier}]
    BY <1>4 DEF Insert, TypeInv
  <2>4. UNCHANGED <<serverVars, diskVars, status, dl, torn>>
    BY <1>4 DEF Insert, NoFault, Fault
  <2> QED BY <2>1, <2>2, <2>3, <2>4 DEF TypeInv
<1> QED BY <1>2, <1>3, <1>4

LEMMA EndType ==
    ASSUME TypeInv, NEW i \in Ingests, Complete(i) \/ Fail(i) \/ Kill(i)
    PROVE  TypeInv'
<1> USE DEF serverVars, argumentVars, historyVars, boundVars
<1>1. NoImport \in Imports /\ NoDownload \in Downloads
  BY DEF NoImport, Imports, NoDownload, Downloads
<1>2. content \in [Files -> Seq(Block)] /\ link \in Files \cup {NoFile}
  BY DEF TypeInv
<1>3. /\ pc' \in [Ingests -> Steps] /\ link' = link /\ Settle(content)
      /\ dl' = [dl EXCEPT ![i] = NoDownload]
      /\ im' = im \/ im' = [im EXCEPT ![i] = NoImport]
      /\ status' = status \/ \E s \in Status : status' = [status EXCEPT ![i] = s]
      /\ UNCHANGED <<serverVars, inserter, torn>>
  <2>1. CASE Complete(i)
    BY <2>1, GoType DEF Complete, End, Steps, Status
  <2>2. CASE Fail(i)
    BY <2>2, GoType DEF Fail, End, Steps, Status
  <2>3. CASE Kill(i)
    BY <2>3 DEF Kill, Steps, TypeInv
  <2> QED BY <2>1, <2>2, <2>3
<1>4. content' \in [Files -> Seq(Block)]
  BY <1>2, <1>3, SettleType
<1>5. dl' \in [Ingests -> Downloads] /\ im' \in [Ingests -> Imports] /\ status' \in [Ingests -> Status]
  BY <1>1, <1>3 DEF TypeInv
<1> QED BY <1>3, <1>4, <1>5 DEF TypeInv

LEMMA NextType == TypeInv /\ [Next]_vars => TypeInv'
<1> USE DEF serverVars, argumentVars, diskVars, historyVars, boundVars
<1>1. CASE UNCHANGED vars
  BY <1>1 DEF vars, TypeInv
<1>2. ASSUME TypeInv, Publish PROVE TypeInv'
  BY <1>2, SizeAssumption DEF Publish, TypeInv
<1> QED BY <1>1, <1>2, DownloadType, DiskStepType, ImportType, EndType DEF Next, Step

LEMMA InitType == Init => TypeInv
<1> SUFFICES ASSUME Init PROVE TypeInv
  OBVIOUS
<1>1. NoImport \in Imports /\ NoDownload \in Downloads /\ <<>> \in Seq(Block)
  BY EmptySeq DEF NoImport, Imports, NoDownload, Downloads
<1>2. content \in [Files -> Seq(Block)]
  BY <1>1 DEF Init
<1>3. inserter \in [Crimes -> Ingests \cup {NoIngest, Earlier}]
  BY DEF Init
<1>4. version \in 1 .. MaxVersions /\ dry \subseteq Ingests
  BY SizeAssumption, DryRunAssumption DEF Init
<1> QED BY <1>1, <1>2, <1>3, <1>4 DEF Init, TypeInv, Status, Steps

LEMMA TypeInvariant == Spec => []TypeInv
BY InitType, NextType, PTL DEF Spec

-----------------------------------------------------------------------------
(* Ingests that run at the same time *)

\* Two active ingests are known to overlap, and an ingest is torn by another only.
AloneInv ==
    /\ torn \subseteq overlapped
    /\ \A i, j \in Active : i # j => i \in overlapped

LEMMA StartAlone ==
    ASSUME TypeInv, AloneInv, NEW i \in Ingests, Start(i)
    PROVE  AloneInv'
<1>1. /\ torn' = torn /\ pc' = [pc EXCEPT ![i] = "head"] /\ pc[i] = "idle"
      /\ overlapped' = IF Active = {} THEN overlapped ELSE overlapped \cup Active \cup {i}
  BY DEF Start, Go
<1>2. Active' = Active \cup {i} /\ i \notin Active
  BY <1>1 DEF Active, TypeInv
<1> QED BY <1>1, <1>2 DEF AloneInv

\* A step of an active ingest that is not its start.
LEMMA StepAlone ==
    ASSUME TypeInv, AloneInv, NEW i \in Ingests, Step(i) \/ Kill(i)
    PROVE  AloneInv'
<1> USE DEF NoFault, Fault, historyVars, ImportSteps
<1>1. pc[i] \notin {"idle", "done", "dead"} /\ \A j \in Ingests \ {i} : pc'[j] = pc[j]
  <2>1. CASE Metadata(i) \/ Inspect(i) \/ Get(i) \/ Open(i) \/ Write(i) \/ Cut(i)
    BY <2>1 DEF Metadata, Inspect, Get, Open, Write, Cut, Go, TypeInv
  <2>2. CASE Verify(i) \/ CheckZip(i) \/ Rename(i) \/ ReadChunk(i) \/ Lookup(i) \/ Insert(i)
    BY <2>2 DEF Verify, CheckZip, Rename, ReadChunk, Lookup, Insert, Go, TypeInv
  <2>3. CASE Complete(i) \/ Fail(i) \/ Kill(i)
    BY <2>3 DEF Complete, Fail, End, Kill, Go, Active, TypeInv
  <2> QED BY <2>1, <2>2, <2>3 DEF Step
<1>2. /\ overlapped' = overlapped
      /\ torn' = torn \/ (pc[i] \in {"open", "write"} /\ \E f : torn' = torn \cup Verified(f))
  <2>1. CASE Metadata(i) \/ Inspect(i) \/ Get(i)
    BY <2>1 DEF Metadata, Inspect, Get
  <2>2. CASE Open(i)
    BY <2>2 DEF Open, Go
  <2>3. CASE Write(i)
    BY <2>3 DEF Write, Go
  <2>4. CASE Cut(i) \/ Verify(i) \/ CheckZip(i) \/ Rename(i)
    BY <2>4 DEF Cut, Verify, CheckZip, Rename
  <2>5. CASE ReadChunk(i) \/ Lookup(i) \/ Insert(i)
    BY <2>5 DEF ReadChunk, Lookup, Insert
  <2>6. CASE Complete(i) \/ Fail(i) \/ Kill(i)
    BY <2>6 DEF Complete, Fail, End, Kill
  <2> QED BY <2>1, <2>2, <2>3, <2>4, <2>5, <2>6 DEF Step
<1>3. i \in Active /\ Active' \subseteq Active
  BY <1>1 DEF Active
<1>4. pc[i] \in {"open", "write"} => \A f : Verified(f) \subseteq Active \ {i}
  BY DEF Verified, Active
<1>5. Active \ {i} \subseteq overlapped
  BY <1>3 DEF AloneInv
<1>6. torn' \subseteq overlapped'
  BY <1>2, <1>4, <1>5 DEF AloneInv
<1> HIDE DEF Active
<1> QED BY <1>2, <1>3, <1>6 DEF AloneInv

LEMMA NextAlone == TypeInv /\ AloneInv /\ [Next]_vars => AloneInv'
<1>1. ASSUME AloneInv, UNCHANGED vars \/ Publish PROVE AloneInv'
  <2>1. UNCHANGED <<pc, torn, overlapped>>
    BY <1>1 DEF vars, historyVars, Publish
  <2> QED BY <1>1, <2>1 DEF AloneInv, Active
<1> QED BY <1>1, StartAlone, StepAlone DEF Next

LEMMA AloneHolds == Spec => []AloneInv
<1>1. Init => AloneInv
  BY DEF Init, AloneInv, Active
<1> QED BY <1>1, TypeInvariant, NextAlone, PTL DEF Spec

-----------------------------------------------------------------------------
(* Verified archives *)

Checked == {"check", "rename"}

\* While no other ingest has written into it, or replaced it, the archive an ingest
\* has verified is under the path until it has a name of its own, and then there.
VerifiedInv ==
    \A i \in Ingests \ torn :
        /\ pc[i] \in Checked /\ link # NoFile => content[link] = Whole(dl[i].expect)
        /\ pc[i] \in ImportSteps =>
              dl[i].file \in Files /\ content[dl[i].file] = Whole(dl[i].expect)

\* What a step of one ingest may do to the archives the others have verified.
KeepsArchives(i) ==
    /\ torn \subseteq torn'
    /\ \A j \in Ingests \ {i} : pc'[j] = pc[j] /\ dl'[j] = dl[j]
    /\ \A j \in Ingests \ (torn' \cup {i}) :
          /\ pc[j] \in Checked => link' = NoFile \/ (link' = link /\ content'[link] = content[link])
          /\ pc[j] \in ImportSteps => content'[dl[j].file] = content[dl[j].file]

LEMMA VerifiedStep ==
    ASSUME VerifiedInv, NEW i \in Ingests, KeepsArchives(i),
           i \notin torn' /\ pc'[i] \in Checked /\ link' # NoFile => content'[link'] = Whole(dl'[i].expect),
           i \notin torn' /\ pc'[i] \in ImportSteps =>
              dl'[i].file \in Files /\ content'[dl'[i].file] = Whole(dl'[i].expect)
    PROVE  VerifiedInv'
<1> SUFFICES ASSUME NEW j \in Ingests, j \notin torn'
             PROVE  /\ pc'[j] \in Checked /\ link' # NoFile => content'[link'] = Whole(dl'[j].expect)
                    /\ pc'[j] \in ImportSteps =>
                          dl'[j].file \in Files /\ content'[dl'[j].file] = Whole(dl'[j].expect)
  BY DEF VerifiedInv, Whole
<1>1. CASE j = i
  BY <1>1
<1>2. CASE j # i
  BY <1>2 DEF VerifiedInv, KeepsArchives
<1> QED BY <1>1, <1>2

\* Leaving or unlinking the path leaves archives that were verified as they were.
LEMMA DiskKeeps ==
    ASSUME TypeInv, VerifiedInv, NEW i \in Ingests, Keep \/ Unlink, torn' = torn,
           \A j \in Ingests \ {i} : pc'[j] = pc[j] /\ dl'[j] = dl[j]
    PROVE  KeepsArchives(i)
<1>1. CASE Keep
  BY <1>1 DEF Keep, diskVars, KeepsArchives
<1>2. CASE Unlink
  <2>1. link' = NoFile /\ Settle(content) /\ content \in [Files -> Seq(Block)]
    BY <1>2 DEF Unlink, TypeInv
  <2>2. \A j \in Ingests : dl'[j].file \in Files => content'[dl'[j].file] = content[dl'[j].file]
    BY <2>1, SettleType
  <2>3. \A j \in Ingests \ (torn \cup {i}) : pc[j] \in ImportSteps => dl[j].file \in Files
    BY DEF VerifiedInv
  <2> QED BY <2>1, <2>2, <2>3 DEF KeepsArchives
<1> QED BY <1>1, <1>2

LEMMA DownloadVerified ==
    ASSUME TypeInv, VerifiedInv, NEW i \in Ingests,
           Start(i) \/ Metadata(i) \/ Inspect(i) \/ Get(i) \/ Verify(i) \/ CheckZip(i)
    PROVE  VerifiedInv'
<1> USE DEF Steps, ImportSteps, Checked
<1>1. /\ torn' = torn /\ (Keep \/ Unlink)
      /\ \A j \in Ingests \ {i} : pc'[j] = pc[j] /\ dl'[j] = dl[j]
  <2>1. \A j \in Ingests \ {i} : pc'[j] = pc[j]
    BY DEF Start, Metadata, Inspect, Get, Verify, CheckZip, Go, TypeInv
  <2>2. \A j \in Ingests \ {i} : dl'[j] = dl[j]
    BY DEF Start, Metadata, Inspect, Get, Verify, CheckZip, TypeInv
  <2>3. torn' = torn
    BY DEF Start, Metadata, Inspect, Get, Verify, CheckZip, NoFault, Fault, historyVars
  <2>4. Keep \/ Unlink
    BY DEF Start, Metadata, Inspect, Get, Verify, CheckZip, Keep, diskVars
  <2> QED BY <2>1, <2>2, <2>3, <2>4
<1>2. KeepsArchives(i)
  BY <1>1, DiskKeeps
<1>3. CASE Start(i) \/ Metadata(i) \/ Inspect(i) \/ Get(i)
  <2>1. pc'[i] \in {"head", "inspect", "fail", "get", "open"}
    BY <1>3, GoType DEF Start, Metadata, Inspect, Get
  <2> QED BY <1>2, <2>1, VerifiedStep
<1>4. CASE Verify(i)
  <2>1. dl' = dl /\ (pc'[i] = "fail" \/ (pc'[i] = "check" /\ Keep /\ Partial = Whole(dl[i].expect)))
    BY <1>4, GoType DEF Verify
  <2>2. pc'[i] = "check" /\ link' # NoFile => content'[link'] = Whole(dl'[i].expect)
    BY <2>1 DEF Keep, diskVars, Partial
  <2> QED BY <1>2, <2>1, <2>2, VerifiedStep
<1>5. CASE CheckZip(i)
  <2>1. dl' = dl /\ pc[i] = "check" /\ (pc'[i] = "fail" \/ (pc'[i] = "rename" /\ Keep))
    BY <1>5, GoType DEF CheckZip
  <2>2. i \notin torn' /\ pc'[i] = "rename" /\ link' # NoFile => content'[link'] = Whole(dl'[i].expect)
    BY <1>1, <2>1 DEF Keep, diskVars, VerifiedInv
  <2> QED BY <1>2, <2>1, <2>2, VerifiedStep
<1> QED BY <1>3, <1>4, <1>5

LEMMA DiskVerified ==
    ASSUME TypeInv, VerifiedInv, NEW i \in Ingests, Open(i) \/ Write(i) \/ Cut(i) \/ Rename(i)
    PROVE  VerifiedInv'
<1> USE DEF Steps, ImportSteps, Checked
<1>0. /\ link \in Files \cup {NoFile} /\ content \in [Files -> Seq(Block)] /\ dl \in [Ingests -> Downloads]
      /\ NoFile \notin Files
      /\ \A j \in Ingests \ torn : pc[j] \in ImportSteps => dl[j].file \in Files
  BY FilesAreNumbered DEF TypeInv, VerifiedInv
<1>1. \A j \in Ingests \ {i} : pc'[j] = pc[j] /\ dl'[j] = dl[j]
  <2>1. \A j \in Ingests \ {i} : pc'[j] = pc[j]
    BY DEF Open, Write, Cut, Rename, Go, TypeInv
  <2>2. \A j \in Ingests \ {i} : dl'[j] = dl[j]
    BY DEF Open, Write, Cut, Rename, TypeInv
  <2> QED BY <2>1, <2>2
\* What the step writes into one file, or into none.
<1>2. ASSUME NEW c \in [Files -> Seq(Block)], Settle(c), NEW f,
             \A g \in Files \ {f} : c[g] = content[g],
             torn \subseteq torn', c = content \/ Verified(f) \subseteq torn',
             \/ link' = link \/ link' = NoFile \/ {j \in Ingests : pc[j] \in Checked} \subseteq torn',
             link' = link \/ link' = NoFile \/ link = NoFile
      PROVE  KeepsArchives(i)
  <2>1. /\ link' \in Files => content'[link'] = c[link']
        /\ \A j \in Ingests : dl'[j].file \in Files => content'[dl'[j].file] = c[dl'[j].file]
    BY <1>2, SettleType
  <2>2. ASSUME NEW j \in Ingests, j \notin torn', j # i, pc[j] \in Checked
        PROVE  link' = NoFile \/ (link' = link /\ content'[link] = content[link])
    <3>1. link' = NoFile \/ link' = link
      BY <1>2, <2>2
    <3>2. CASE link' = link /\ link # NoFile
      <4>1. content'[link] = c[link]
        BY <1>0, <2>1, <3>2
      <4>2. link # f \/ c = content
        BY <1>2, <2>2, <3>2 DEF Verified
      <4> QED BY <1>0, <1>2, <3>2, <4>1, <4>2
    <3> QED BY <3>1, <3>2
  <2>3. ASSUME NEW j \in Ingests, j \notin torn', j # i, pc[j] \in ImportSteps
        PROVE  content'[dl[j].file] = content[dl[j].file]
    <3>1. dl[j].file \in Files /\ dl'[j] = dl[j]
      BY <1>0, <1>1, <1>2, <2>3
    <3>2. dl[j].file # f \/ c = content
      BY <1>2, <2>3 DEF Verified
    <3> QED BY <1>2, <2>1, <3>1, <3>2
  <2> QED BY <1>1, <1>2, <2>2, <2>3 DEF KeepsArchives
<1>3. CASE Open(i)
  <2> DEFINE fresh == CHOOSE f \in Files : f # link /\ \A q \in Ingests : dl[q].file # f
             c == [content EXCEPT ![link'] = IF dl[i].existing > 0 THEN content[link'] ELSE <<>>]
             appending == dl[i].existing > 0
  <2>1. link' = IF link = NoFile THEN fresh ELSE link
    BY <1>3 DEF Open
  <2>2. link' \in Files
    BY <1>0, <2>1, FreshFile
  <2> HIDE DEF fresh
  <2>3. /\ pc'[i] = "write" /\ Settle(c)
        /\ torn' = IF appending /\ link # NoFile THEN torn ELSE torn \cup Verified(link')
    BY <1>3, GoType DEF Open
  <2>4. <<>> \in Seq(Block)
    BY EmptySeq
  <2>5. c \in [Files -> Seq(Block)] /\ (\A g \in Files \ {link'} : c[g] = content[g])
    BY <1>0, <2>2, <2>4
  <2>6. appending => c = content
    BY <1>0, <2>2
  <2> HIDE DEF c
  <2>7. link = NoFile => {j \in Ingests : pc[j] \in Checked} \subseteq torn'
    BY <2>3 DEF Verified
  <2>8. KeepsArchives(i)
    BY <1>2, <2>1, <2>3, <2>5, <2>6, <2>7
  <2> QED BY <2>3, <2>8, VerifiedStep
<1>4. CASE Write(i)
  <2> DEFINE file == dl[i].file
             block == <<dl[i].body, dl[i].next>>
             grown == IF dl[i].existing > 0 THEN Append(content[file], block)
                      ELSE Written(content[file], dl[i].next, block)
             c == [content EXCEPT ![file] = grown]
  <2>1. /\ pc'[i] \in {"write", "verify"} /\ Settle(c) /\ link' = link
        /\ torn' = torn \cup Verified(file)
    BY <1>4, GoType DEF Write
  <2>2. c \in [Files -> Seq(Block)]
    BY <1>0, <1>4, WriteType
  <2>3. \A g \in Files \ {file} : c[g] = content[g]
    BY <1>0
  <2> HIDE DEF c, file
  <2>4. KeepsArchives(i)
    BY <1>2, <2>1, <2>2, <2>3
  <2> QED BY <2>1, <2>4, VerifiedStep
<1>5. CASE Cut(i)
  <2>1. pc'[i] \in {"verify", "fail"} /\ Settle(content) /\ link' = link /\ torn' = torn
    BY <1>5, GoType DEF Cut, Fault
  <2>2. KeepsArchives(i)
    BY <1>0, <1>2, <2>1
  <2> QED BY <2>1, <2>2, VerifiedStep
<1>6. CASE Rename(i)
  <2>1. /\ pc[i] = "rename" /\ Settle(content) /\ link' = NoFile /\ torn' = torn
        /\ pc'[i] = (IF link = NoFile THEN "fail" ELSE "read")
        /\ dl' = [dl EXCEPT ![i].file = link]
    BY <1>6, GoType DEF Rename, historyVars
  <2>2. KeepsArchives(i)
    BY <1>0, <1>2, <2>1
  <2>3. dl'[i].file = link /\ dl'[i].expect = dl[i].expect
    BY <1>0, <2>1 DEF Downloads
  <2>4. dl'[i].file \in Files => content'[dl'[i].file] = content[dl'[i].file]
    BY <1>0, <2>1, SettleType
  <2>5. i \notin torn' /\ pc'[i] = "read" =>
            dl'[i].file \in Files /\ content'[dl'[i].file] = Whole(dl'[i].expect)
    BY <1>0, <2>1, <2>3, <2>4 DEF VerifiedInv
  <2> QED BY <2>1, <2>2, <2>5, VerifiedStep
<1> QED BY <1>3, <1>4, <1>5, <1>6

LEMMA EndVerified ==
    ASSUME TypeInv, VerifiedInv, NEW i \in Ingests, Complete(i) \/ Fail(i) \/ Kill(i)
    PROVE  VerifiedInv'
<1>1. /\ link \in Files \cup {NoFile} /\ content \in [Files -> Seq(Block)] /\ NoFile \notin Files
      /\ \A j \in Ingests \ torn : pc[j] \in ImportSteps => dl[j].file \in Files
  BY FilesAreNumbered DEF TypeInv, VerifiedInv
<1>2. /\ pc'[i] \in {"done", "dead"} /\ link' = link /\ torn' = torn /\ Settle(content)
      /\ \A j \in Ingests \ {i} : pc'[j] = pc[j] /\ dl'[j] = dl[j]
  BY DEF Complete, Fail, End, Kill, Go, TypeInv, historyVars
<1>3. /\ link \in Files => content'[link] = content[link]
      /\ \A j \in Ingests : dl'[j].file \in Files => content'[dl'[j].file] = content[dl'[j].file]
  BY <1>1, <1>2, SettleType
<1>4. KeepsArchives(i)
  BY <1>1, <1>2, <1>3 DEF KeepsArchives
<1> QED BY <1>2, <1>4, VerifiedStep DEF Checked, ImportSteps

LEMMA NextVerified == TypeInv /\ VerifiedInv /\ [Next]_vars => VerifiedInv'
<1> SUFFICES ASSUME TypeInv, VerifiedInv, [Next]_vars PROVE VerifiedInv'
  OBVIOUS
<1>1. CASE UNCHANGED vars
  BY <1>1 DEF vars, diskVars, historyVars, VerifiedInv, Whole
<1>2. CASE Publish
  BY <1>2 DEF Publish, diskVars, VerifiedInv, Whole
<1>3. ASSUME NEW i \in Ingests, ReadChunk(i) \/ Lookup(i) \/ Insert(i) PROVE VerifiedInv'
  <2>1. UNCHANGED <<link, content, dl, torn>>
    BY <1>3 DEF ReadChunk, Lookup, Insert, NoFault, Fault, diskVars, historyVars
  <2>3. pc[i] \in ImportSteps /\ pc'[i] \notin Checked
    <3>1. CASE ReadChunk(i)
      BY <3>1, ReadChunkStep DEF ImportSteps, Checked
    <3>2. CASE Lookup(i)
      BY <3>2, GoType DEF Lookup, ImportSteps, Checked, Steps
    <3>3. CASE Insert(i)
      BY <3>3, GoType DEF Insert, ImportSteps, Checked, Steps
    <3> QED BY <1>3, <3>1, <3>2, <3>3
  <2>2. \A j \in Ingests \ {i} : pc'[j] = pc[j]
    BY <1>3 DEF ReadChunk, Lookup, Insert, Go, TypeInv
  <2> QED BY <2>1, <2>2, <2>3 DEF VerifiedInv, Whole
<1> QED BY <1>1, <1>2, <1>3, DownloadVerified, DiskVerified, EndVerified DEF Next, Step

\* Whatever the number of ingests of a month that share, resume, drop and replace the
\* partial file, what each of them imports is the archive whose checksum it was told,
\* unless an ingest that ran at the same time wrote into its file or replaced it after
\* its verification: nothing that earlier or killed ingests left can spoil it.
THEOREM ImportsAlwaysVerified == Spec => []ImportsAreVerified
<1>1. Init => VerifiedInv
  BY DEF Init, VerifiedInv, Checked, ImportSteps
<1>2. AloneInv /\ VerifiedInv => ImportsAreVerified
  BY DEF AloneInv, VerifiedInv, ImportsAreVerified, Torn
<1> QED BY <1>1, <1>2, AloneHolds, TypeInvariant, NextVerified, PTL DEF Spec

-----------------------------------------------------------------------------
(* What an import has read, stored and counted *)

Before == {"idle", "head", "inspect", "get", "open", "write", "verify", "check", "rename"}
Seen(i) == {Rows[k] : k \in 1 .. im[i].row - 1} \ {Invalid}
InsertedBy(i) == {c \in Crimes : inserter[c] = i}

\* The rows read so far are in the table, except for the chunk at hand, and the counts
\* of the run say so.
Accounted(i) ==
    /\ i \notin torn =>
          /\ im[i].buffer \subseteq Seen(i) /\ Seen(i) \subseteq Crimes
          /\ im[i].detected = Cardinality(Seen(i) \ im[i].buffer)
          /\ pc[i] \notin {"lookup", "insert"} => im[i].buffer = {}
          /\ pc[i] \notin ImportSteps => Seen(i) = Crimes
          /\ i \notin dry => Seen(i) \ im[i].buffer \subseteq Stored
          /\ i \notin dry /\ pc[i] = "insert" => im[i].buffer \subseteq Stored \cup im[i].fresh
    /\ i \notin dry => im[i].expected = Cardinality(InsertedBy(i))

LedgerOf(i) ==
    /\ status[i] = "completed" => pc[i] = "done"
    /\ pc[i] \in Before => im[i] = NoImport /\ InsertedBy(i) = {}
    /\ pc[i] \in ImportSteps \cup {"complete"} \/ status[i] = "completed" => Accounted(i)

Ledger == \A i \in Ingests : LedgerOf(i)

\* What a step of one ingest leaves to the others.
LeavesOthers(i) ==
    /\ torn \subseteq torn' /\ dry' = dry /\ Stored \subseteq Stored'
    /\ \A j \in Ingests \ {i} :
          /\ pc'[j] = pc[j] /\ im'[j] = im[j] /\ status'[j] = status[j]
          /\ InsertedBy(j)' = InsertedBy(j)

LEMMA LedgerStep ==
    ASSUME Ledger, NEW i \in Ingests, LeavesOthers(i), LedgerOf(i)'
    PROVE  Ledger'
<1> SUFFICES ASSUME NEW j \in Ingests, j # i PROVE LedgerOf(j)'
  BY DEF Ledger
<1>1. /\ torn \subseteq torn' /\ dry' = dry /\ Stored \subseteq Stored'
      /\ pc'[j] = pc[j] /\ im'[j] = im[j] /\ status'[j] = status[j]
      /\ InsertedBy(j)' = InsertedBy(j)
  BY DEF LeavesOthers
<1>2. LedgerOf(j)
  BY DEF Ledger
<1>3. Seen(j)' = Seen(j)
  BY <1>1 DEF Seen
<1>4. Accounted(j) => Accounted(j)'
  BY <1>1, <1>3 DEF Accounted
<1> QED BY <1>1, <1>2, <1>4 DEF LedgerOf

\* A step that inserts nothing and changes the locals of one ingest only.
LEMMA OthersLeft ==
    ASSUME TypeInv, NEW i \in Ingests, torn \subseteq torn', UNCHANGED <<dry, inserter>>,
           \A j \in Ingests \ {i} : pc'[j] = pc[j] /\ im'[j] = im[j] /\ status'[j] = status[j]
    PROVE  /\ LeavesOthers(i)
           /\ Stored' = Stored /\ \A j \in Ingests : InsertedBy(j)' = InsertedBy(j)
<1>1. Stored' = Stored /\ \A j \in Ingests : InsertedBy(j)' = InsertedBy(j)
  BY DEF Stored, InsertedBy
<1> QED BY <1>1 DEF LeavesOthers

LEMMA DownloadLedger ==
    ASSUME TypeInv, Ledger, NEW i \in Ingests,
           \/ Start(i) \/ Metadata(i) \/ Inspect(i) \/ Get(i) \/ Open(i) \/ Write(i) \/ Cut(i)
           \/ Verify(i) \/ CheckZip(i) \/ Rename(i)
    PROVE  Ledger'
<1> USE DEF Before, ImportSteps
<1>1. /\ pc[i] \in Before /\ pc'[i] \in Before \cup {"fail", "read"}
      /\ \A j \in Ingests \ {i} : pc'[j] = pc[j]
  <2>1. CASE Start(i) \/ Metadata(i) \/ Inspect(i) \/ Get(i)
    BY <2>1, GoType DEF Start, Metadata, Inspect, Get, Steps
  <2>2. CASE Open(i)
    BY <2>2, GoType DEF Open, Steps
  <2>3. CASE Write(i)
    BY <2>3, GoType DEF Write, Steps
  <2>4. CASE Cut(i)
    BY <2>4, GoType DEF Cut, Steps
  <2>5. CASE Verify(i) \/ CheckZip(i) \/ Rename(i)
    BY <2>5, GoType DEF Verify, CheckZip, Rename, Steps
  <2> QED BY <2>1, <2>2, <2>3, <2>4, <2>5
<1>2. /\ UNCHANGED <<dry, inserter, im>> /\ torn \subseteq torn'
      /\ (status' = status \/ status' = [status EXCEPT ![i] = "running"])
  <2> USE DEF serverVars, argumentVars, historyVars, NoFault, Fault
  <2>1. CASE Start(i) \/ Metadata(i) \/ Inspect(i) \/ Get(i)
    BY <2>1 DEF Start, Metadata, Inspect, Get
  <2>2. CASE Open(i) \/ Write(i) \/ Cut(i)
    BY <2>2 DEF Open, Write, Cut
  <2>3. CASE Verify(i) \/ CheckZip(i) \/ Rename(i)
    BY <2>3 DEF Verify, CheckZip, Rename
  <2> QED BY <2>1, <2>2, <2>3
<1>3. /\ status[i] # "completed" /\ im[i] = NoImport /\ InsertedBy(i) = {}
  BY <1>1 DEF Ledger, LedgerOf
<1>4. status'[i] # "completed" /\ im'[i] = NoImport /\ \A j \in Ingests \ {i} : status'[j] = status[j]
  BY <1>2, <1>3 DEF TypeInv
<1>5. LeavesOthers(i) /\ InsertedBy(i)' = {}
  BY <1>1, <1>2, <1>3, <1>4, OthersLeft
<1>6. Seen(i)' = {} /\ im'[i].buffer = {} /\ im'[i].detected = 0 /\ im'[i].expected = 0
  BY <1>4 DEF Seen, NoImport
<1>7. Cardinality({}) = 0
  BY FS_EmptySet
<1>8. pc'[i] = "read" => Accounted(i)'
  BY <1>5, <1>6, <1>7 DEF Accounted
<1>9. LedgerOf(i)'
  BY <1>1, <1>4, <1>5, <1>8 DEF LedgerOf
<1> QED BY <1>5, <1>9, LedgerStep

\* Rows of an intact archive: a chunk adds its new rows, and one without new rows is
\* the last.
LEMMA ChunkAdds ==
    ASSUME TypeInv, NEW i \in Ingests, NEW end \in ChunkEnds(i), im[i].row - 1 <= end
    PROVE  /\ {Rows[k] : k \in 1 .. end} \ {Invalid} = Seen(i) \cup NewIds(i, end)
           /\ Seen(i) \cap NewIds(i, end) = {}
           /\ NewIds(i, end) = {} => {Rows[k] : k \in 1 .. end} \ {Invalid} = Crimes
<1>1. im[i].row \in Nat \ {0} /\ end \in Nat /\ DOMAIN Rows = 1 .. Len(Rows) /\ Len(Rows) \in Nat
  BY ChunkType
<1>2. \A k \in 1 .. end : k \in 1 .. im[i].row - 1 \/ k \in im[i].row .. end
  BY <1>1
<1>3. \A k \in (1 .. im[i].row - 1) \cup (im[i].row .. end) : k \in 1 .. end
  BY <1>1
<1>4. {Rows[k] : k \in 1 .. end} \ {Invalid} = Seen(i) \cup NewIds(i, end)
  BY <1>2, <1>3 DEF Seen, NewIds
<1>5. Seen(i) \cap NewIds(i, end) = {}
  BY DEF Seen, NewIds
<1>6. NewIds(i, end) = {} => end = Len(Rows)
  <2> DEFINE Full(k) == Cardinality(NewIds(i, k)) = ChunkSize
             first == {k \in im[i].row .. Len(Rows) : Full(k) /\ \A n \in im[i].row .. k - 1 : ~Full(n)}
  <2>1. ChunkEnds(i) = IF first = {} THEN {Len(Rows)} ELSE first
    BY DEF ChunkEnds
  <2>2. end \in first => Cardinality(NewIds(i, end)) = ChunkSize
    OBVIOUS
  <2>3. Cardinality({}) = 0
    BY FS_EmptySet
  <2> HIDE DEF first
  <2> QED BY <2>1, <2>2, <2>3, SizeAssumption
<1>7. NewIds(i, end) = {} => {Rows[k] : k \in 1 .. end} \ {Invalid} = Crimes
  BY <1>1, <1>6 DEF Crimes
<1> QED BY <1>4, <1>5, <1>7

LEMMA ReadLedger ==
    ASSUME TypeInv, VerifiedInv, Ledger, NEW i \in Ingests, ReadChunk(i)
    PROVE  Ledger'
<1> USE DEF Before, ImportSteps
<1>1. /\ pc[i] = "read" /\ \A j \in Ingests \ {i} : pc'[j] = pc[j] /\ im'[j] = im[j]
      /\ UNCHANGED <<dry, inserter, status, torn>>
      /\ im'[i].detected = im[i].detected /\ im'[i].expected = im[i].expected
  BY ReadChunkStep DEF ReadChunk, serverVars, argumentVars, historyVars
<1>2. LeavesOthers(i) /\ Stored' = Stored /\ InsertedBy(i)' = InsertedBy(i)
  BY <1>1, OthersLeft
<1>3. status[i] # "completed" /\ Accounted(i)
  BY <1>1 DEF Ledger, LedgerOf
<1>4. CASE pc'[i] = "fail"
  BY <1>1, <1>2, <1>3, <1>4, LedgerStep DEF LedgerOf
<1>5. ASSUME NEW end \in ChunkEnds(i), NEW to \in im[i].row - 1 .. end,
             content[dl[i].file] = Whole(dl[i].expect) => to = end,
             im'[i].buffer = NewIds(i, to), im'[i].buffer \subseteq Crimes,
             im'[i].row = IF to = end THEN to + 1 ELSE Len(Rows) + 1,
             pc'[i] = IF im'[i].buffer = {} THEN "complete" ELSE "lookup"
      PROVE  Ledger'
  <2>1. pc'[i] \in {"complete", "lookup"}
    BY <1>5
  <2>2. ASSUME i \notin torn
        PROVE  /\ Seen(i)' = Seen(i) \cup im'[i].buffer /\ Seen(i) \cap im'[i].buffer = {}
               /\ im'[i].buffer = {} => Seen(i)' = Crimes
    <3>1. to = end
      BY <1>1, <1>5, <2>2 DEF VerifiedInv
    <3>2. end \in Nat /\ im[i].row \in Nat \ {0} /\ im[i].row - 1 <= end /\ im'[i].row - 1 = end
      BY <1>5, <3>1, ChunkType
    <3>3. Seen(i)' = {Rows[k] : k \in 1 .. end} \ {Invalid}
      BY <3>2 DEF Seen
    <3> QED BY <1>5, <3>1, <3>2, <3>3, ChunkAdds
  <2>3. ASSUME i \notin torn
        PROVE  /\ im[i].detected = Cardinality(Seen(i)) /\ Seen(i)' \subseteq Crimes
               /\ i \notin dry => Seen(i) \subseteq Stored
               /\ Seen(i)' \ im'[i].buffer = Seen(i)
    <3>1. im[i].buffer = {} /\ Seen(i) \ {} = Seen(i)
      BY <1>1, <1>3, <2>3 DEF Accounted
    <3> QED BY <1>3, <1>5, <2>2, <2>3, <3>1 DEF Accounted
  <2>4. Accounted(i)'
    <3>1. i \notin dry' => im'[i].expected = Cardinality(InsertedBy(i)')
      BY <1>1, <1>2, <1>3 DEF Accounted
    <3>2. ASSUME i \notin torn'
          PROVE  /\ im'[i].buffer \subseteq Seen(i)' /\ Seen(i)' \subseteq Crimes
                 /\ im'[i].detected = Cardinality(Seen(i)' \ im'[i].buffer)
                 /\ pc'[i] \notin {"lookup", "insert"} => im'[i].buffer = {}
                 /\ pc'[i] \notin ImportSteps => Seen(i)' = Crimes
                 /\ i \notin dry' => Seen(i)' \ im'[i].buffer \subseteq Stored'
      BY <1>1, <1>2, <1>5, <2>1, <2>2, <2>3, <3>2
    <3> QED BY <2>1, <3>1, <3>2 DEF Accounted
  <2>5. LedgerOf(i)'
    BY <1>1, <1>3, <2>1, <2>4 DEF LedgerOf
  <2> QED BY <1>2, <2>5, LedgerStep
<1> QED BY <1>4, <1>5, ReadChunkStep

\* Counting a chunk whose rows that were not in the table are now there.
LEMMA AccountLedger ==
    ASSUME TypeInv, NEW i \in Ingests, NEW fresh \in SUBSET Crimes, Account(i, fresh),
           pc[i] \in ImportSteps, Accounted(i), pc'[i] = "read", UNCHANGED <<dry, torn>>,
           Stored \subseteq Stored', i \notin dry \cup torn => im[i].buffer \subseteq Stored',
           i \notin dry => /\ InsertedBy(i)' = InsertedBy(i) \cup fresh
                           /\ InsertedBy(i) \cap fresh = {}
    PROVE  Accounted(i)'
<1> USE DEF ImportSteps
<1>1. /\ im'[i].row = im[i].row /\ im'[i].buffer = {}
      /\ im'[i].detected = im[i].detected + Cardinality(im[i].buffer)
      /\ im'[i].expected = im[i].expected + Cardinality(fresh)
      /\ im[i].buffer \in SUBSET Crimes
  BY AccountType DEF TypeInv, Imports
<1>2. Seen(i)' = Seen(i)
  BY <1>1 DEF Seen
<1>3. ASSUME NEW S \in SUBSET Crimes, NEW T \in SUBSET Crimes, S \cap T = {}
      PROVE  Cardinality(S \cup T) = Cardinality(S) + Cardinality(T)
  <2>1. IsFiniteSet(S) /\ IsFiniteSet(T) /\ Cardinality(S) \in Nat /\ Cardinality(T) \in Nat
    BY CrimesAreFinite
  <2>2. Cardinality(S \cup T) = Cardinality(S) + Cardinality(T) - Cardinality(S \cap T)
    BY <2>1, FS_Union
  <2>3. Cardinality(S \cap T) = 0
    BY <1>3, FS_EmptySet
  <2> QED BY <2>1, <2>2, <2>3
<1>4. ASSUME i \notin dry' PROVE im'[i].expected = Cardinality(InsertedBy(i)')
  <2>1. InsertedBy(i) \in SUBSET Crimes
    BY DEF InsertedBy
  <2>2. Cardinality(InsertedBy(i) \cup fresh) = Cardinality(InsertedBy(i)) + Cardinality(fresh)
    BY <1>3, <1>4, <2>1
  <2> QED BY <1>1, <1>4, <2>2 DEF Accounted
<1>5. ASSUME i \notin torn'
      PROVE  /\ im'[i].detected = Cardinality(Seen(i)' \ im'[i].buffer)
             /\ i \notin dry' => Seen(i)' \ im'[i].buffer \subseteq Stored'
  <2>1. /\ im[i].buffer \subseteq Seen(i) /\ Seen(i) \subseteq Crimes
        /\ im[i].detected = Cardinality(Seen(i) \ im[i].buffer)
        /\ i \notin dry => Seen(i) \ im[i].buffer \subseteq Stored
    BY <1>5 DEF Accounted
  <2>2. Cardinality((Seen(i) \ im[i].buffer) \cup im[i].buffer)
           = Cardinality(Seen(i) \ im[i].buffer) + Cardinality(im[i].buffer)
    BY <1>1, <1>3, <2>1
  <2>3. (Seen(i) \ im[i].buffer) \cup im[i].buffer = Seen(i) /\ Seen(i) \ {} = Seen(i)
    BY <2>1
  <2>4. im'[i].detected = Cardinality(Seen(i)' \ im'[i].buffer)
    BY <1>1, <1>2, <2>1, <2>2, <2>3
  <2>5. i \notin dry' => Seen(i)' \ im'[i].buffer \subseteq Stored'
    BY <1>1, <1>2, <1>5, <2>1
  <2> QED BY <2>4, <2>5
<1> QED BY <1>1, <1>2, <1>4, <1>5 DEF Accounted

LEMMA LookupLedger ==
    ASSUME TypeInv, Ledger, NEW i \in Ingests, Lookup(i)
    PROVE  Ledger'
<1> USE DEF Before, ImportSteps
<1> DEFINE fresh == im[i].buffer \ Stored
<1>1. /\ UNCHANGED <<dry, inserter, status, torn>> /\ pc[i] = "lookup" /\ im \in [Ingests -> Imports]
      /\ \/ /\ pc'[i] = "read" /\ Account(i, fresh) /\ (i \in dry \/ fresh = {})
         \/ pc'[i] = "insert" /\ im' = [im EXCEPT ![i].fresh = fresh]
      /\ \A j \in Ingests \ {i} : pc'[j] = pc[j]
  BY GoType DEF Lookup, Steps, TypeInv, serverVars, argumentVars, historyVars
<1>2. fresh \in SUBSET Crimes
  BY DEF TypeInv, Imports
<1> HIDE DEF fresh
<1>3. \A j \in Ingests \ {i} : im'[j] = im[j]
  BY <1>1, <1>2, AccountType
<1>4. LeavesOthers(i) /\ Stored' = Stored /\ InsertedBy(i)' = InsertedBy(i)
  BY <1>1, <1>3, OthersLeft
<1>5. status[i] # "completed" /\ Accounted(i)
  BY <1>1 DEF Ledger, LedgerOf
<1>6. CASE pc'[i] = "read"
  <2>1. i \notin dry => fresh = {} /\ im[i].buffer \subseteq Stored
    BY <1>1, <1>6 DEF fresh
  <2>2. Accounted(i)'
    BY <1>1, <1>2, <1>4, <1>5, <1>6, <2>1, AccountLedger
  <2> QED BY <1>1, <1>4, <1>5, <1>6, <2>2, LedgerStep DEF LedgerOf
<1>7. CASE pc'[i] = "insert"
  <2>1. /\ im'[i].row = im[i].row /\ im'[i].buffer = im[i].buffer /\ im'[i].detected = im[i].detected
        /\ im'[i].expected = im[i].expected /\ im'[i].fresh = fresh
    BY <1>1, <1>7 DEF Imports
  <2>2. Seen(i)' = Seen(i)
    BY <2>1 DEF Seen
  <2>3. im[i].buffer \subseteq Stored \cup fresh
    BY DEF fresh
  <2>4. Accounted(i)'
    BY <1>1, <1>4, <1>5, <1>7, <2>1, <2>2, <2>3 DEF Accounted
  <2> QED BY <1>1, <1>4, <1>5, <1>7, <2>4, LedgerStep DEF LedgerOf
<1> QED BY <1>1, <1>6, <1>7

LEMMA InsertLedger ==
    ASSUME TypeInv, Ledger, NEW i \in Ingests, Insert(i)
    PROVE  Ledger'
<1> USE DEF Before, ImportSteps
<1> DEFINE fresh == im[i].fresh
           clash == fresh \cap Stored # {}
<1>1. /\ UNCHANGED <<dry, status, torn>> /\ pc[i] = "insert" /\ fresh \in SUBSET Crimes
      /\ inserter' = [c \in Crimes |-> IF c \in fresh /\ ~clash THEN i ELSE inserter[c]]
      /\ \/ pc'[i] = "fail" /\ im' = im
         \/ pc'[i] = "read" /\ Account(i, fresh) /\ ~clash
      /\ \A j \in Ingests \ {i} : pc'[j] = pc[j]
  BY GoType DEF Insert, Steps, TypeInv, Imports, serverVars, argumentVars, NoFault, Fault, historyVars
<1>2. \A j \in Ingests \ {i} : im'[j] = im[j]
  BY <1>1, AccountType
<1>3. \A c \in Crimes : c \in fresh /\ ~clash => inserter[c] = NoIngest
  BY DEF Stored
<1> HIDE DEF fresh, clash
<1>4. Stored \subseteq Stored' /\ (~clash => fresh \subseteq Stored')
  BY <1>1, NoIngestAssumption DEF Stored
<1>5. \A j \in Ingests \ {i} : InsertedBy(j)' = InsertedBy(j)
  BY <1>1, <1>3, NoIngestAssumption DEF InsertedBy
<1>6. ~clash => InsertedBy(i)' = InsertedBy(i) \cup fresh /\ InsertedBy(i) \cap fresh = {}
  BY <1>1, <1>3, NoIngestAssumption DEF InsertedBy
<1>7. LeavesOthers(i)
  BY <1>1, <1>2, <1>4, <1>5 DEF LeavesOthers
<1>8. status[i] # "completed" /\ Accounted(i)
  BY <1>1 DEF Ledger, LedgerOf
<1>9. CASE pc'[i] = "fail"
  BY <1>1, <1>7, <1>8, <1>9, LedgerStep DEF LedgerOf
<1>10. CASE pc'[i] = "read" /\ Account(i, fresh) /\ ~clash
  <2>1. i \notin dry \cup torn => im[i].buffer \subseteq Stored'
    BY <1>1, <1>4, <1>8, <1>10 DEF Accounted, fresh
  <2>2. Accounted(i)'
    BY <1>1, <1>4, <1>6, <1>8, <1>10, <2>1, AccountLedger
  <2> QED BY <1>1, <1>7, <1>8, <1>10, <2>2, LedgerStep DEF LedgerOf
<1> QED BY <1>1, <1>9, <1>10

LEMMA EndLedger ==
    ASSUME TypeInv, Ledger, NEW i \in Ingests, Complete(i) \/ Fail(i) \/ Kill(i)
    PROVE  Ledger'
<1> USE DEF Before, ImportSteps
<1>1. /\ UNCHANGED <<dry, inserter, torn>>
      /\ \A j \in Ingests \ {i} : pc'[j] = pc[j] /\ im'[j] = im[j] /\ status'[j] = status[j]
  BY DEF Complete, Fail, End, Kill, Go, TypeInv, serverVars, argumentVars, historyVars
<1>2. LeavesOthers(i) /\ Stored' = Stored /\ InsertedBy(i)' = InsertedBy(i)
  BY <1>1, OthersLeft
<1>3. CASE Complete(i)
  <2>1. pc[i] = "complete" /\ pc'[i] = "done" /\ status'[i] = "completed" /\ im' = im
    BY <1>3, GoType DEF Complete, End, TypeInv, Steps
  <2>2. Accounted(i)
    BY <2>1 DEF Ledger, LedgerOf
  <2>3. Accounted(i)'
    BY <1>1, <1>2, <2>1, <2>2 DEF Accounted, Seen
  <2> QED BY <1>2, <2>1, <2>3, LedgerStep DEF LedgerOf
<1>4. CASE Fail(i)
  <2>1. pc'[i] = "done" /\ status'[i] = "failed"
    BY <1>4, GoType DEF Fail, End, TypeInv, Steps
  <2> QED BY <1>2, <2>1, LedgerStep DEF LedgerOf
<1>5. CASE Kill(i)
  <2>1. pc'[i] = "dead" /\ status' = status /\ pc[i] # "done"
    BY <1>5 DEF Kill, Active, TypeInv
  <2>2. status'[i] # "completed"
    BY <2>1 DEF Ledger, LedgerOf
  <2> QED BY <1>2, <2>1, <2>2, LedgerStep DEF LedgerOf
<1> QED BY <1>3, <1>4, <1>5

LEMMA NextLedger == TypeInv /\ VerifiedInv /\ Ledger /\ [Next]_vars => Ledger'
<1> SUFFICES ASSUME TypeInv, VerifiedInv, Ledger, [Next]_vars PROVE Ledger'
  OBVIOUS
<1>1. CASE UNCHANGED vars \/ Publish
  <2>1. UNCHANGED <<dry, inserter, status, pc, im, torn>>
    BY <1>1 DEF vars, Publish, serverVars, argumentVars, historyVars
  <2>2. ASSUME NEW i \in Ingests PROVE LedgerOf(i)'
    <3>1. Seen(i)' = Seen(i) /\ InsertedBy(i)' = InsertedBy(i) /\ Stored' = Stored
      BY <2>1 DEF Seen, InsertedBy, Stored
    <3>2. Accounted(i) => Accounted(i)'
      BY <2>1, <3>1 DEF Accounted
    <3> QED BY <2>1, <3>1, <3>2 DEF Ledger, LedgerOf
  <2> QED BY <2>2 DEF Ledger
<1> QED BY <1>1, DownloadLedger, ReadLedger, LookupLedger, InsertLedger, EndLedger DEF Next, Step

LEMMA LedgerHolds == Spec => []Ledger
<1>1. Init => Ledger
  <2> SUFFICES ASSUME Init, NEW i \in Ingests PROVE LedgerOf(i)
    BY DEF Ledger
  <2>1. pc[i] = "idle" /\ im[i] = NoImport /\ status[i] = "none"
    BY DEF Init
  <2>2. InsertedBy(i) = {}
    BY NoIngestAssumption DEF Init, InsertedBy
  <2> QED BY <2>1, <2>2 DEF LedgerOf, ImportSteps
<1>2. Init => VerifiedInv
  BY DEF Init, VerifiedInv, Checked, ImportSteps
<1> QED BY <1>1, <1>2, TypeInvariant, NextVerified, NextLedger, PTL DEF Spec

\* A dry run inserts nothing.  While no other ingest runs, it counts the rows it has
\* read that are not in the table.
DryOf(i) ==
    i \in dry =>
        /\ InsertedBy(i) = {} /\ pc[i] # "insert"
        /\ pc[i] \in ImportSteps \cup {"complete"} /\ i \notin torn \cup overlapped =>
              im[i].expected = Cardinality((Seen(i) \ im[i].buffer) \ Stored)

DryLedger == \A i \in Ingests : DryOf(i)

\* Two ingests that import at the same time overlap.
LEMMA OthersDry ==
    ASSUME DryLedger, NEW i \in Ingests, NEW j \in Ingests, j # i,
           torn \subseteq torn', overlapped \subseteq overlapped', dry' = dry,
           pc'[j] = pc[j], im'[j] = im[j], InsertedBy(j)' = InsertedBy(j),
           pc[j] \in ImportSteps \cup {"complete"} => Stored' = Stored \/ j \in overlapped
    PROVE  DryOf(j)'
<1>1. Seen(j)' = Seen(j)
  BY DEF Seen
<1> QED BY <1>1 DEF DryLedger, DryOf

\* A step that inserts nothing.
LEMMA QuietDry ==
    ASSUME TypeInv, DryLedger, NEW i \in Ingests, torn \subseteq torn', overlapped \subseteq overlapped',
           UNCHANGED <<dry, inserter>>,
           \A j \in Ingests \ {i} : pc'[j] = pc[j] /\ im'[j] = im[j],
           i \in dry => pc'[i] # "insert",
           i \in dry /\ pc'[i] \in ImportSteps \cup {"complete"} /\ i \notin torn' \cup overlapped' =>
              im'[i].expected = Cardinality((Seen(i)' \ im'[i].buffer) \ Stored)
    PROVE  DryLedger'
<1>1. Stored' = Stored /\ \A j \in Ingests : InsertedBy(j)' = InsertedBy(j)
  BY DEF Stored, InsertedBy
<1>2. DryOf(i)'
  BY <1>1 DEF DryLedger, DryOf
<1>3. \A j \in Ingests \ {i} : DryOf(j)'
  BY <1>1, OthersDry
<1> QED BY <1>2, <1>3 DEF DryLedger

LEMMA DownloadDry ==
    ASSUME TypeInv, Ledger, DryLedger, NEW i \in Ingests,
           \/ Start(i) \/ Metadata(i) \/ Inspect(i) \/ Get(i) \/ Open(i) \/ Write(i) \/ Cut(i)
           \/ Verify(i) \/ CheckZip(i) \/ Rename(i)
    PROVE  DryLedger'
<1> USE DEF Before, ImportSteps
<1>1. pc[i] \in Before /\ pc'[i] \in Before \cup {"fail", "read"} /\ \A j \in Ingests \ {i} : pc'[j] = pc[j]
  <2>1. CASE Start(i) \/ Metadata(i) \/ Inspect(i) \/ Get(i)
    BY <2>1, GoType DEF Start, Metadata, Inspect, Get, Steps
  <2>2. CASE Open(i) \/ Write(i) \/ Cut(i)
    BY <2>2, GoType DEF Open, Write, Cut, Steps
  <2>3. CASE Verify(i) \/ CheckZip(i) \/ Rename(i)
    BY <2>3, GoType DEF Verify, CheckZip, Rename, Steps
  <2> QED BY <2>1, <2>2, <2>3
<1>2. UNCHANGED <<dry, inserter, im>> /\ torn \subseteq torn' /\ overlapped \subseteq overlapped'
  <2> USE DEF serverVars, argumentVars, historyVars, NoFault, Fault
  <2>1. CASE Start(i) \/ Metadata(i) \/ Inspect(i) \/ Get(i)
    BY <2>1 DEF Start, Metadata, Inspect, Get
  <2>2. CASE Open(i) \/ Write(i) \/ Cut(i)
    BY <2>2 DEF Open, Write, Cut
  <2>3. CASE Verify(i) \/ CheckZip(i) \/ Rename(i)
    BY <2>3 DEF Verify, CheckZip, Rename
  <2> QED BY <2>1, <2>2, <2>3
<1>3. im'[i] = NoImport
  BY <1>1, <1>2 DEF Ledger, LedgerOf
<1>4. Seen(i)' = {} /\ im'[i].buffer = {} /\ im'[i].expected = 0
  BY <1>3 DEF Seen, NoImport
<1>5. ({} \ {}) \ Stored = {} /\ Cardinality({}) = 0
  BY FS_EmptySet
<1> QED BY <1>1, <1>2, <1>4, <1>5, QuietDry

\* Of an archive that is intact, reading a chunk leaves behind what was counted.
LEMMA ReadSeen ==
    ASSUME TypeInv, VerifiedInv, Ledger, NEW i \in Ingests, ReadChunk(i), i \notin torn
    PROVE  pc'[i] # "fail" => Seen(i)' \ im'[i].buffer = Seen(i) \ im[i].buffer
<1>1. /\ pc[i] = "read" /\ content[dl[i].file] = Whole(dl[i].expect)
      /\ im[i].buffer = {}
  BY ReadChunkStep DEF VerifiedInv, ImportSteps, Ledger, LedgerOf, Accounted
<1>2. ASSUME NEW end \in ChunkEnds(i), NEW to \in im[i].row - 1 .. end, to = end,
             im'[i].buffer = NewIds(i, to),
             im'[i].row = IF to = end THEN to + 1 ELSE Len(Rows) + 1
      PROVE  Seen(i)' \ im'[i].buffer = Seen(i)
  <2>1. end \in Nat /\ im[i].row \in Nat \ {0} /\ im[i].row - 1 <= end /\ im'[i].row - 1 = end
    BY <1>2, ChunkType
  <2>2. Seen(i)' = {Rows[k] : k \in 1 .. end} \ {Invalid}
    BY <2>1 DEF Seen
  <2> QED BY <1>2, <2>1, <2>2, ChunkAdds
<1>3. pc'[i] # "fail" => Seen(i)' \ im'[i].buffer = Seen(i)
  BY <1>1, <1>2, ReadChunkStep
<1> QED BY <1>1, <1>3

LEMMA ImportDry ==
    ASSUME TypeInv, VerifiedInv, Ledger, DryLedger, NEW i \in Ingests, ReadChunk(i) \/ Lookup(i)
    PROVE  DryLedger'
<1> USE DEF ImportSteps
<1>1. UNCHANGED <<dry, inserter, torn, overlapped>>
  BY DEF ReadChunk, Lookup, serverVars, argumentVars, historyVars
<1>2. CASE ReadChunk(i)
  <2>1. /\ pc[i] = "read" /\ im'[i].expected = im[i].expected
        /\ \A j \in Ingests \ {i} : pc'[j] = pc[j] /\ im'[j] = im[j]
        /\ pc'[i] \in {"fail", "complete", "lookup"}
    BY <1>2, ReadChunkStep
  <2>2. i \in dry /\ i \notin torn \cup overlapped =>
           im[i].expected = Cardinality((Seen(i) \ im[i].buffer) \ Stored)
    BY <2>1 DEF DryLedger, DryOf
  <2>3. i \notin torn /\ pc'[i] # "fail" => Seen(i)' \ im'[i].buffer = Seen(i) \ im[i].buffer
    BY <1>2, ReadSeen
  <2> QED BY <1>1, <2>1, <2>2, <2>3, QuietDry
<1>3. CASE Lookup(i)
  <2> DEFINE fresh == im[i].buffer \ Stored
  <2>1. /\ pc[i] = "lookup" /\ im \in [Ingests -> Imports] /\ fresh \in SUBSET Crimes
        /\ \/ pc'[i] = "read" /\ Account(i, fresh)
           \/ pc'[i] = "insert" /\ im' = [im EXCEPT ![i].fresh = fresh] /\ i \notin dry
        /\ \A j \in Ingests \ {i} : pc'[j] = pc[j]
    BY <1>3, GoType DEF Lookup, Steps, TypeInv, Imports
  <2>2. \A j \in Ingests \ {i} : im'[j] = im[j]
    BY <2>1, AccountType
  <2>3. ASSUME i \in dry, i \notin torn' \cup overlapped'
        PROVE  im'[i].expected = Cardinality((Seen(i)' \ im'[i].buffer) \ Stored)
    <3>1. /\ im[i].buffer \subseteq Seen(i) /\ Seen(i) \subseteq Crimes
          /\ im[i].expected = Cardinality((Seen(i) \ im[i].buffer) \ Stored)
      BY <1>1, <2>1, <2>3 DEF Ledger, LedgerOf, Accounted, DryLedger, DryOf
    <3>2. /\ im'[i].row = im[i].row /\ im'[i].buffer = {}
          /\ im'[i].expected = im[i].expected + Cardinality(fresh)
      BY <2>1, <2>3, AccountType
    <3>3. Seen(i)' = Seen(i)
      BY <3>2 DEF Seen
    <3> DEFINE counted == (Seen(i) \ im[i].buffer) \ Stored
    <3>4. (Seen(i)' \ im'[i].buffer) \ Stored = counted \cup fresh /\ counted \cap fresh = {}
      BY <3>1, <3>2, <3>3
    <3>5. counted \in SUBSET Crimes
      BY <3>1
    <3> HIDE DEF counted, fresh
    <3>6. IsFiniteSet(counted) /\ IsFiniteSet(fresh) /\ Cardinality(counted) \in Nat /\ Cardinality(fresh) \in Nat
      BY <2>1, <3>5, CrimesAreFinite
    <3>7. Cardinality(counted \cup fresh) = Cardinality(counted) + Cardinality(fresh) - Cardinality(counted \cap fresh)
      BY <3>6, FS_Union
    <3>8. Cardinality(counted \cap fresh) = 0
      BY <3>4, FS_EmptySet
    <3>9. im[i].expected = Cardinality(counted)
      BY <3>1 DEF counted
    <3>10. Cardinality((Seen(i)' \ im'[i].buffer) \ Stored) = Cardinality(counted \cup fresh)
      BY <3>4
    <3>11. Cardinality(counted \cup fresh) = im'[i].expected
      BY <3>2, <3>6, <3>7, <3>8, <3>9
    <3> QED BY <3>10, <3>11
  <2> HIDE DEF fresh
  <2> QED BY <1>1, <2>1, <2>2, <2>3, QuietDry
<1> QED BY <1>2, <1>3

LEMMA InsertDry ==
    ASSUME TypeInv, AloneInv, DryLedger, NEW i \in Ingests, Insert(i)
    PROVE  DryLedger'
<1>1. /\ UNCHANGED <<dry, torn, overlapped>> /\ pc[i] = "insert"
      /\ \A j \in Ingests \ {i} : pc'[j] = pc[j] /\ im'[j] = im[j]
      /\ \A c \in Crimes : inserter'[c] \in {inserter[c], i}
      /\ \A c \in Crimes : inserter'[c] # inserter[c] => inserter[c] = NoIngest
  <2>1. im[i].fresh \in SUBSET Crimes
    BY DEF TypeInv, Imports
  <2>2. UNCHANGED <<dry, torn, overlapped>> /\ pc[i] = "insert" /\ \A j \in Ingests \ {i} : pc'[j] = pc[j]
    BY DEF Insert, Go, TypeInv, serverVars, argumentVars, NoFault, Fault, historyVars
  <2>3. im' = im \/ Account(i, im[i].fresh)
    BY DEF Insert
  <2>4. \A j \in Ingests \ {i} : im'[j] = im[j]
    BY <2>1, <2>3, AccountType
  <2>5. inserter' = [c \in Crimes |-> IF c \in im[i].fresh /\ ~(im[i].fresh \cap Stored # {}) THEN i
                                      ELSE inserter[c]]
    BY DEF Insert
  <2>6. \A c \in Crimes : c \in im[i].fresh /\ ~(im[i].fresh \cap Stored # {}) => inserter[c] = NoIngest
    BY DEF Stored
  <2> QED BY <2>2, <2>4, <2>5, <2>6
<1>2. i \notin dry
  BY <1>1 DEF DryLedger, DryOf
<1>3. ASSUME NEW j \in Ingests, j # i PROVE DryOf(j)'
  <2>1. InsertedBy(j)' = InsertedBy(j)
    BY <1>1, <1>3, NoIngestAssumption DEF InsertedBy
  <2>2. pc[j] \in ImportSteps \cup {"complete"} => j \in overlapped
    BY <1>1, <1>3 DEF AloneInv, Active, ImportSteps
  <2> QED BY <1>1, <1>3, <2>1, <2>2, OthersDry
<1>4. DryOf(i)'
  BY <1>1, <1>2 DEF DryOf
<1> QED BY <1>3, <1>4 DEF DryLedger

LEMMA EndDry ==
    ASSUME TypeInv, DryLedger, NEW i \in Ingests, Complete(i) \/ Fail(i) \/ Kill(i)
    PROVE  DryLedger'
<1>1. /\ UNCHANGED <<dry, inserter, torn, overlapped>> /\ pc'[i] \in {"done", "dead"}
      /\ \A j \in Ingests \ {i} : pc'[j] = pc[j] /\ im'[j] = im[j]
  BY DEF Complete, Fail, End, Kill, Go, TypeInv, serverVars, argumentVars, historyVars
<1> QED BY <1>1, QuietDry DEF ImportSteps

LEMMA NextDry ==
    TypeInv /\ AloneInv /\ VerifiedInv /\ Ledger /\ DryLedger /\ [Next]_vars => DryLedger'
<1> SUFFICES ASSUME TypeInv, AloneInv, VerifiedInv, Ledger, DryLedger, [Next]_vars PROVE DryLedger'
  OBVIOUS
<1>1. CASE UNCHANGED vars \/ Publish
  <2>1. UNCHANGED <<dry, inserter, pc, im, torn, overlapped>>
    BY <1>1 DEF vars, Publish, serverVars, argumentVars, historyVars
  <2>2. \A i \in Ingests : Seen(i)' = Seen(i) /\ InsertedBy(i)' = InsertedBy(i) /\ Stored' = Stored
    BY <2>1 DEF Seen, InsertedBy, Stored
  <2> QED BY <2>1, <2>2 DEF DryLedger, DryOf
<1> QED BY <1>1, DownloadDry, ImportDry, InsertDry, EndDry DEF Next, Step

LEMMA DryHolds == Spec => []DryLedger
<1>1. Init => DryLedger
  <2> SUFFICES ASSUME Init, NEW i \in Ingests PROVE DryOf(i)
    BY DEF DryLedger
  <2>1. pc[i] = "idle" /\ InsertedBy(i) = {}
    BY NoIngestAssumption DEF Init, InsertedBy
  <2> QED BY <2>1 DEF DryOf, ImportSteps
<1>2. Init => VerifiedInv
  BY DEF Init, VerifiedInv, Checked, ImportSteps
<1> QED BY <1>1, <1>2, TypeInvariant, AloneHolds, LedgerHolds, NextVerified, NextDry, PTL DEF Spec

\* A run that is recorded as completed and was not a dry run has brought every crime of
\* the archive into the table, whatever other ingests insert meanwhile, unless an ingest
\* that ran at the same time wrote into its archive, or replaced it, once it was verified.
THEOREM CompletedAlwaysImported == Spec => []CompletedIsImported
<1>1. AloneInv /\ Ledger => CompletedIsImported
  <2> SUFFICES ASSUME AloneInv, Ledger, NEW i \in Ingests, status[i] = "completed", i \notin dry \cup torn
               PROVE  Stored = Crimes
    BY DEF AloneInv, Torn, CompletedIsImported
  <2>1. pc[i] = "done" /\ Accounted(i)
    BY DEF Ledger, LedgerOf
  <2>2. Seen(i) = Crimes /\ im[i].buffer = {} /\ Seen(i) \ im[i].buffer \subseteq Stored
    BY <2>1 DEF Accounted, ImportSteps
  <2> QED BY <2>2 DEF Stored
<1> QED BY <1>1, AloneHolds, LedgerHolds, PTL

\* The counts of a completed run that no other one has torn are those of the archive and
\* of its own inserts; a dry run inserts nothing, and one that ends without another
\* ingest beside it has counted what is missing in the table.
THEOREM CountsAlwaysTrue == Spec => []CountsAreTrue
<1>1. AloneInv /\ Ledger /\ DryLedger => CountsAreTrue
  <2> SUFFICES ASSUME AloneInv, Ledger, DryLedger, NEW i \in Ingests
               PROVE  /\ status[i] = "completed" /\ i \notin torn =>
                            /\ im[i].detected = Cardinality(Crimes)
                            /\ i \notin dry => im[i].expected = Cardinality(InsertedBy(i))
                      /\ i \in dry => InsertedBy(i) = {}
                      /\ i \in dry /\ pc[i] = "complete" /\ i \notin overlapped =>
                            im[i].expected = Cardinality(Crimes \ Stored)
    BY DEF AloneInv, Torn, CountsAreTrue, InsertedBy
  <2>1. CASE status[i] = "completed" /\ i \notin torn
    <3>1. pc[i] = "done" /\ Accounted(i)
      BY <2>1 DEF Ledger, LedgerOf
    <3>2. /\ Seen(i) \ im[i].buffer = Crimes
          /\ im[i].detected = Cardinality(Seen(i) \ im[i].buffer)
      BY <2>1, <3>1 DEF Accounted, ImportSteps
    <3> QED BY <2>1, <3>1, <3>2 DEF Accounted, DryLedger, DryOf
  <2>2. CASE i \in dry /\ pc[i] = "complete" /\ i \notin overlapped
    <3>1. i \notin torn /\ Accounted(i)
      BY <2>2 DEF AloneInv, Ledger, LedgerOf
    <3>2. Seen(i) = Crimes /\ im[i].buffer = {}
      BY <2>2, <3>1 DEF Accounted, ImportSteps
    <3>3. (Seen(i) \ im[i].buffer) \ Stored = Crimes \ Stored
      BY <3>2
    <3> QED BY <2>2, <3>1, <3>3, Zenon DEF DryLedger, DryOf, Ledger, LedgerOf
  <2> QED BY <2>1, <2>2 DEF DryLedger, DryOf
<1> QED BY <1>1, AloneHolds, LedgerHolds, DryHolds, PTL

-----------------------------------------------------------------------------
(* Ingests that run alone *)

Prefix(v, n) == [k \in 1 .. n |-> <<v, k>>]

LEMMA Prefixes ==
    ASSUME NEW v \in Nat
    PROVE  /\ Prefix(v, 0) = <<>> /\ Prefix(v, Size) = Whole(v) /\ Len(Whole(v)) = Size
           /\ \A n \in Nat \ {0} : Written(Prefix(v, n - 1), n, <<v, n>>) = Prefix(v, n)
<1>1. \A n \in Nat : Prefix(v, n) \in Seq(Block) /\ Len(Prefix(v, n)) = n
  <2> SUFFICES ASSUME NEW n \in Nat PROVE Prefix(v, n) \in Seq(Block) /\ Len(Prefix(v, n)) = n
    OBVIOUS
  <2>1. Prefix(v, n) \in [1 .. n -> Block]
    BY DEF Prefix, Block
  <2>2. Prefix(v, n) \in Seq(Block)
    BY <2>1, SeqDef
  <2>3. Len(Prefix(v, n)) \in Nat /\ DOMAIN Prefix(v, n) = 1 .. Len(Prefix(v, n))
    BY <2>2, LenProperties
  <2>4. DOMAIN Prefix(v, n) = 1 .. n
    BY DEF Prefix
  <2>5. ASSUME NEW m \in Nat, 1 .. m = 1 .. n PROVE m = n
    <3>1. m > n => m \in 1 .. m /\ m \notin 1 .. n
      OBVIOUS
    <3>2. n > m => n \in 1 .. n /\ n \notin 1 .. m
      OBVIOUS
    <3> QED BY <2>5, <3>1, <3>2
  <2> QED BY <2>2, <2>3, <2>4, <2>5
<1>2. Prefix(v, 0) = <<>>
  BY <1>1, EmptySeq
<1>3. Prefix(v, Size) = Whole(v)
  BY DEF Prefix, Whole
<1>4. ASSUME NEW n \in Nat \ {0} PROVE Written(Prefix(v, n - 1), n, <<v, n>>) = Prefix(v, n)
  <2> DEFINE c == Prefix(v, n - 1)
  <2>1. Len(c) = n - 1 /\ n - 1 \in Nat
    BY <1>1
  <2>2. \A k \in 1 .. n - 1 : c[k] = <<v, k>>
    BY DEF Prefix
  <2> HIDE DEF c
  <2>3. Written(c, n, <<v, n>>) = [m \in 1 .. n |-> IF m = n THEN <<v, n>> ELSE IF m <= Len(c) THEN c[m] ELSE Hole]
    BY <2>1 DEF Written
  <2>4. \A m \in 1 .. n : (IF m = n THEN <<v, n>> ELSE IF m <= Len(c) THEN c[m] ELSE Hole) = <<v, m>>
    BY <2>1, <2>2
  <2>5. Written(c, n, <<v, n>>) = Prefix(v, n)
    BY <2>3, <2>4 DEF Prefix
  <2> QED BY <2>5 DEF c
<1> QED BY <1>1, <1>2, <1>3, <1>4, SizeAssumption

\* Where a download stands that found nothing on the disk and that nobody disturbed.
Progress(i) ==
    /\ pc[i] \in {"head", "inspect", "get", "open"} => Partial = <<>>
    /\ pc[i] \in {"get", "open", "write", "verify"} => dl[i].existing = 0
    /\ pc[i] \notin {"idle", "head", "complete"} => dl[i].expect = version
    /\ pc[i] \in {"open", "write"} => dl[i].body = version /\ dl[i].next \in 1 .. Size
    /\ pc[i] = "open" => dl[i].next = 1
    /\ pc[i] = "write" => /\ link \in Files /\ dl[i].file = link
                          /\ content[link] = Prefix(version, dl[i].next - 1)
    /\ pc[i] \in {"verify", "check", "rename"} => link \in Files /\ content[link] = Whole(version)
    /\ pc[i] \in ImportSteps => dl[i].file \in Files /\ content[dl[i].file] = Whole(version)
    /\ pc[i] = "insert" => im[i].fresh \cap Stored = {}

Clean(i) == i \notin overlapped \cup disturbed \cup resumed /\ server.digest # "none"

Undisturbed(i) ==
    /\ status[i] # "failed" /\ pc[i] # "fail"
    /\ i \in Active => Active = {i} /\ Progress(i)

CleanInv ==
    /\ server \in Servers
    /\ \A i \in Ingests : Clean(i) => Undisturbed(i)

\* Steps of one ingest end the claim of every other active one.
LEMMA OthersClean ==
    ASSUME TypeInv, CleanInv, NEW i \in Ingests, Start(i) \/ Step(i) \/ Kill(i)
    PROVE  /\ server' = server /\ overlapped \subseteq overlapped'
           /\ disturbed \subseteq disturbed' /\ resumed \subseteq resumed'
           /\ \A j \in Ingests \ {i} : pc'[j] = pc[j] /\ status'[j] = status[j]
           /\ \A j \in Ingests \ {i} : Clean(j)' => Clean(j) /\ j \notin Active
           /\ Clean(i)' => Clean(i) /\ (Active' \subseteq {i})
<1> USE DEF serverVars, argumentVars, historyVars, NoFault, Fault
<1>1. /\ server' = server /\ overlapped \subseteq overlapped'
      /\ disturbed \subseteq disturbed' /\ resumed \subseteq resumed'
      /\ \A j \in Ingests \ {i} : pc'[j] = pc[j] /\ status'[j] = status[j]
  <2>1. \A j \in Ingests \ {i} : pc'[j] = pc[j]
    BY DEF Start, Step, Metadata, Inspect, Get, Open, Write, Cut, Verify, CheckZip, Rename, ReadChunk,
           Lookup, Insert, Complete, Fail, End, Kill, Go, TypeInv
  <2>2. CASE Start(i) \/ Kill(i)
    BY <2>1, <2>2 DEF Start, Kill, TypeInv
  <2>3. CASE Metadata(i) \/ Inspect(i) \/ Get(i) \/ Open(i) \/ Write(i) \/ Cut(i)
    BY <2>1, <2>3 DEF Metadata, Inspect, Get, Open, Write, Cut
  <2>4. CASE Verify(i) \/ CheckZip(i) \/ Rename(i) \/ ReadChunk(i) \/ Lookup(i) \/ Insert(i)
    BY <2>1, <2>4 DEF Verify, CheckZip, Rename, ReadChunk, Lookup, Insert
  <2>5. CASE Complete(i) \/ Fail(i)
    BY <2>1, <2>5 DEF Complete, Fail, End, TypeInv
  <2> QED BY <2>2, <2>3, <2>4, <2>5 DEF Step
<1>2. i \in Active \/ (Start(i) /\ pc[i] = "idle")
  <2>1. CASE Start(i) \/ Kill(i)
    BY <2>1 DEF Start, Kill, Go
  <2>2. CASE Step(i)
    BY <2>2 DEF Step, Metadata, Inspect, Get, Open, Write, Cut, Verify, CheckZip, Rename, ReadChunk,
                Lookup, Insert, Complete, Fail, End, Go, Active
  <2> QED BY <2>1, <2>2
<1>3. Start(i) => overlapped' = IF Active = {} THEN overlapped ELSE overlapped \cup Active \cup {i}
  BY DEF Start
<1>4. \A j \in Ingests : Clean(j)' => Clean(j)
  BY <1>1 DEF Clean
<1>5. \A j \in Ingests \ {i} : Clean(j)' => j \notin Active
  BY <1>2, <1>3, <1>4 DEF CleanInv, Undisturbed, Clean, Active
<1>6. Clean(i)' => Active \subseteq {i}
  BY <1>2, <1>3, <1>4 DEF CleanInv, Undisturbed, Clean
<1>7. \A j \in Ingests \ {i} : j \in Active' => j \in Active
  BY <1>1 DEF Active
<1>8. Active' \subseteq Ingests
  BY DEF Active
<1> QED BY <1>1, <1>4, <1>5, <1>6, <1>7, <1>8

LEMMA CleanStep ==
    ASSUME TypeInv, CleanInv, NEW i \in Ingests, Start(i) \/ Step(i) \/ Kill(i),
           Clean(i)' => status'[i] # "failed" /\ pc'[i] # "fail" /\ (i \in Active' => Progress(i)')
    PROVE  CleanInv'
<1>1. ASSUME NEW j \in Ingests, j # i, Clean(j)' PROVE Undisturbed(j)'
  <2>1. Undisturbed(j) /\ j \notin Active /\ pc'[j] = pc[j] /\ status'[j] = status[j]
    BY <1>1, OthersClean DEF CleanInv
  <2> QED BY <2>1 DEF Undisturbed, Active
<1>2. Clean(i)' => Undisturbed(i)'
  BY OthersClean DEF Undisturbed
<1> QED BY <1>1, <1>2, OthersClean DEF CleanInv

LEMMA DownloadClean ==
    ASSUME TypeInv, CleanInv, NEW i \in Ingests,
           Start(i) \/ Metadata(i) \/ Inspect(i) \/ Get(i)
    PROVE  CleanInv'
<1> USE DEF Steps, ImportSteps
<1>0. SUFFICES ASSUME Clean(i)'
               PROVE  status'[i] # "failed" /\ pc'[i] # "fail" /\ (i \in Active' => Progress(i)')
  BY CleanStep DEF Step
<1>1. /\ Clean(i) /\ server' = server /\ server \in Servers /\ version \in Nat
      /\ Undisturbed(i) /\ dl \in [Ingests -> Downloads] /\ i \notin disturbed' \cup resumed'
  BY <1>0, OthersClean, SizeAssumption DEF CleanInv, Step, TypeInv, Clean
<1>2. CASE Start(i)
  <2>1. pc'[i] = "head" /\ status'[i] = "running" /\ UNCHANGED diskVars
    BY <1>2, GoType DEF Start, TypeInv
  <2>2. Partial = <<>>
    BY <1>1, <1>2 DEF Start
  <2> QED BY <2>1, <2>2 DEF Progress, Partial, diskVars
<1>3. CASE Metadata(i)
  <2>1. /\ pc[i] = "head" /\ pc'[i] = "inspect" /\ dl' = [dl EXCEPT ![i].expect = version]
        /\ UNCHANGED <<version, link, content, status>>
    BY <1>1, <1>3, GoType DEF Metadata, Fault, serverVars, diskVars
  <2>2. Progress(i) /\ status[i] # "failed"
    BY <1>1, <2>1 DEF Undisturbed, Active
  <2>3. dl'[i].expect = version
    BY <1>1, <2>1 DEF Downloads
  <2> QED BY <2>1, <2>2, <2>3 DEF Progress, Partial
<1>4. CASE Inspect(i)
  <2>1. pc[i] = "inspect" /\ pc'[i] = "get" /\ UNCHANGED <<version, status>>
    BY <1>4, GoType DEF Inspect, serverVars
  <2>2. Progress(i) /\ status[i] # "failed"
    BY <1>1, <2>1 DEF Undisturbed, Active
  <2>3. Partial = <<>> /\ Len(Partial) = 0
    BY <2>1, <2>2, PartialType, EmptySeq DEF Progress
  <2>4. dl' = [dl EXCEPT ![i].existing = 0] /\ UNCHANGED diskVars
    BY <1>4, <2>3 DEF Inspect, Keep
  <2>5. dl'[i].existing = 0 /\ dl'[i].expect = dl[i].expect
    BY <1>1, <2>4 DEF Downloads
  <2> QED BY <2>1, <2>2, <2>3, <2>4, <2>5 DEF Progress, Partial, diskVars
<1>5. CASE Get(i)
  <2>1. pc[i] = "get" /\ UNCHANGED <<version, status>>
    BY <1>5, GoType DEF Get, serverVars
  <2>2. Progress(i) /\ status[i] # "failed" /\ dl[i].existing = 0 /\ Partial = <<>>
    BY <1>1, <2>1 DEF Undisturbed, Active, Progress
  <2>3. /\ pc'[i] = "open" /\ UNCHANGED diskVars
        /\ dl' = [dl EXCEPT ![i].body = version, ![i].next = 1, ![i].existing = 0]
    BY <1>1, <1>5, <2>2, GoType DEF Get, Fault, Keep
  <2>4. dl'[i].existing = 0 /\ dl'[i].expect = dl[i].expect /\ dl'[i].body = version /\ dl'[i].next = 1
    BY <1>1, <2>3 DEF Downloads
  <2> QED BY <2>1, <2>2, <2>3, <2>4, SizeAssumption DEF Progress, Partial, diskVars
<1> QED BY <1>2, <1>3, <1>4, <1>5

LEMMA WriteClean ==
    ASSUME TypeInv, CleanInv, NEW i \in Ingests, Open(i) \/ Write(i) \/ Cut(i)
    PROVE  CleanInv'
<1> USE DEF Steps, ImportSteps
<1>0. SUFFICES ASSUME Clean(i)'
               PROVE  status'[i] # "failed" /\ pc'[i] # "fail" /\ (i \in Active' => Progress(i)')
  BY CleanStep DEF Step
<1>1. /\ Clean(i) /\ server' = server /\ version \in Nat
      /\ Undisturbed(i) /\ dl \in [Ingests -> Downloads] /\ i \notin disturbed' \cup resumed'
      /\ content \in [Files -> Seq(Block)] /\ link \in Files \cup {NoFile} /\ NoFile \notin Files
  <2>1. Clean(i) /\ server' = server /\ i \notin disturbed' \cup resumed' /\ Undisturbed(i)
    BY <1>0, OthersClean DEF CleanInv, Step, Clean
  <2>2. version \in Nat
    BY SizeAssumption DEF TypeInv
  <2>3. content \in [Files -> Seq(Block)] /\ link \in Files \cup {NoFile} /\ dl \in [Ingests -> Downloads]
    BY DEF TypeInv
  <2> QED BY <2>1, <2>2, <2>3, FilesAreNumbered
<1>2. pc[i] \in {"open", "write"} /\ Progress(i) /\ status'[i] # "failed" /\ version' = version
  BY <1>1, GoType DEF Open, Write, Cut, serverVars, Undisturbed, Active
<1>3. dl[i].existing = 0 /\ dl[i].expect = version /\ dl[i].body = version /\ dl[i].next \in 1 .. Size
  BY <1>2 DEF Progress
<1>4. CASE Open(i)
  <2> DEFINE fresh == CHOOSE f \in Files : f # link /\ \A q \in Ingests : dl[q].file # f
             c == [content EXCEPT ![link'] = <<>>]
  <2>1. link' = IF link = NoFile THEN fresh ELSE link
    BY <1>4 DEF Open
  <2>2. link' \in Files
    BY <1>1, <2>1, FreshFile
  <2> HIDE DEF fresh
  <2>3. /\ pc[i] = "open" /\ pc'[i] = "write" /\ Settle(c)
        /\ dl' = [dl EXCEPT ![i].file = link']
    BY <1>3, <1>4, GoType DEF Open
  <2>4. c \in [Files -> Seq(Block)] /\ c[link'] = <<>>
    BY <1>1, <2>2, EmptySeq
  <2> HIDE DEF c
  <2>5. content'[link'] = <<>>
    BY <2>2, <2>3, <2>4, SettleType
  <2>6. /\ dl'[i].file = link' /\ dl'[i].existing = 0 /\ dl'[i].expect = version
        /\ dl'[i].body = version /\ dl'[i].next = 1
    BY <1>1, <1>2, <1>3, <2>3 DEF Progress, Downloads
  <2>7. content'[link'] = Prefix(version', dl'[i].next - 1)
    BY <1>1, <1>2, <2>5, <2>6, Prefixes
  <2> QED BY <1>2, <2>2, <2>3, <2>6, <2>7, SizeAssumption DEF Progress
<1>5. CASE Write(i)
  <2> DEFINE n == dl[i].next
             left == IF n = Size THEN NoFile ELSE dl[i].file
             grown == Written(content[link], n, <<version, n>>)
             c == [content EXCEPT ![link] = grown]
  <2>1. pc[i] = "write"
    BY <1>5, GoType DEF Write
  <2>2. link \in Files /\ dl[i].file = link /\ content[link] = Prefix(version, n - 1) /\ n \in Nat \ {0}
    BY <1>2, <1>3, <2>1 DEF Progress
  <2>3. /\ pc'[i] = (IF n = Size THEN "verify" ELSE "write") /\ link' = link /\ Settle(c)
        /\ dl' = [dl EXCEPT ![i].next = n + 1, ![i].file = left]
    BY <1>3, <1>5, <2>2, GoType DEF Write
  <2>4. grown = Prefix(version, n)
    BY <1>1, <2>2, Prefixes
  <2>5. c \in [Files -> Seq(Block)]
    <3>1. <<version, n>> \in Block /\ content[link] \in Seq(Block)
      BY <1>1, <2>2 DEF Block
    <3>2. grown \in Seq(Block)
      BY <2>2, <3>1, WrittenType
    <3> HIDE DEF grown
    <3> QED BY <1>1, <3>2
  <2>6. c[link] = Prefix(version, n)
    BY <1>1, <2>2, <2>4
  <2> HIDE DEF c, grown
  <2>7. content'[link'] = Prefix(version, n)
    BY <2>2, <2>3, <2>5, <2>6, SettleType
  <2>8. /\ dl'[i].existing = 0 /\ dl'[i].expect = version /\ dl'[i].body = version
        /\ dl'[i].next = n + 1 /\ dl'[i].file = left
    BY <1>1, <1>3, <2>3 DEF Downloads
  <2>9. CASE n = Size
    <3>1. content'[link'] = Whole(version')
      BY <1>1, <1>2, <2>7, <2>9, Prefixes
    <3> QED BY <1>2, <2>2, <2>3, <2>8, <2>9, <3>1 DEF Progress
  <2>10. CASE n # Size
    <3>1. dl'[i].next \in 1 .. Size /\ dl'[i].next - 1 = n /\ dl'[i].file = link'
      BY <1>3, <2>2, <2>3, <2>8, <2>10, SizeAssumption
    <3> QED BY <1>2, <2>2, <2>3, <2>7, <2>8, <2>10, <3>1 DEF Progress
  <2> QED BY <2>9, <2>10
<1>6. CASE Cut(i)
  BY <1>1, <1>6 DEF Cut, Fault
<1> QED BY <1>4, <1>5, <1>6

LEMMA VerifyClean ==
    ASSUME TypeInv, CleanInv, NEW i \in Ingests, Verify(i) \/ CheckZip(i) \/ Rename(i)
    PROVE  CleanInv'
<1> USE DEF Steps, ImportSteps
<1>0. SUFFICES ASSUME Clean(i)'
               PROVE  status'[i] # "failed" /\ pc'[i] # "fail" /\ (i \in Active' => Progress(i)')
  BY CleanStep DEF Step
<1>1. /\ Clean(i) /\ Undisturbed(i) /\ server \in Servers
  BY <1>0, OthersClean DEF CleanInv, Step, Clean
<1>2. content \in [Files -> Seq(Block)] /\ dl \in [Ingests -> Downloads] /\ version \in 1 .. MaxVersions
  BY DEF TypeInv
<1>3. version \in Nat /\ NoFile \notin Files
  <2>1. version \in Nat
    BY <1>2, SizeAssumption
  <2> QED BY <2>1, FilesAreNumbered
<1>4. /\ pc[i] \in {"verify", "check", "rename"} /\ Progress(i) /\ status'[i] # "failed" /\ version' = version
  BY <1>1, GoType DEF Verify, CheckZip, Rename, serverVars, Undisturbed, Active
<1>5. /\ dl[i].expect = version /\ link \in Files /\ content[link] = Whole(version)
      /\ pc[i] = "verify" => dl[i].existing = 0
  BY <1>4 DEF Progress
<1>6. Partial = Whole(version) /\ Len(Partial) = Size
  BY <1>3, <1>5, Prefixes DEF Partial
<1>7. CASE Verify(i)
  <2>1. ExpectedSize \in Nat /\ ExpectedSize <= Size /\ Size \in Nat
    BY SizeAssumption DEF ExpectedSize
  <2>2. server.digest = "published"
    BY <1>1, ServersAssumption DEF Clean
  <2>3. pc[i] = "verify" /\ dl' = dl
    BY <1>7, GoType DEF Verify
  <2>4. {Len(Partial)} \cup ({dl[i].existing} \ {0}) = {Size}
    BY <1>5, <1>6, <2>3
  <2>5. pc'[i] = "check" /\ UNCHANGED diskVars
    BY <1>3, <1>5, <1>6, <1>7, <2>1, <2>2, <2>4, GoType DEF Verify, Keep
  <2> QED BY <1>4, <1>5, <2>3, <2>5 DEF Progress, diskVars, Whole
<1>8. CASE CheckZip(i)
  <2>1. \E v \in 1 .. MaxVersions : Partial = Whole(v)
    BY <1>2, <1>6
  <2>2. pc'[i] = "rename" /\ dl' = dl /\ UNCHANGED diskVars
    BY <1>8, <2>1, GoType DEF CheckZip, Keep
  <2> QED BY <1>4, <1>5, <2>2 DEF Progress, diskVars, Whole
<1>9. CASE Rename(i)
  <2>1. /\ pc'[i] = "read" /\ dl' = [dl EXCEPT ![i].file = link] /\ Settle(content)
    BY <1>3, <1>5, <1>9, GoType DEF Rename
  <2>2. dl'[i].file = link /\ dl'[i].expect = version
    BY <1>2, <1>5, <2>1 DEF Downloads
  <2>3. content'[link] = Whole(version)
    BY <1>2, <1>5, <2>1, <2>2, SettleType
  <2> QED BY <1>4, <1>5, <2>1, <2>2, <2>3 DEF Progress, Whole
<1> QED BY <1>7, <1>8, <1>9

LEMMA ImportClean ==
    ASSUME TypeInv, CleanInv, NEW i \in Ingests, ReadChunk(i) \/ Lookup(i) \/ Insert(i)
    PROVE  CleanInv'
<1> USE DEF Steps, ImportSteps
<1>0. SUFFICES ASSUME Clean(i)'
               PROVE  status'[i] # "failed" /\ pc'[i] # "fail" /\ (i \in Active' => Progress(i)')
  BY CleanStep DEF Step
<1>1. /\ Clean(i) /\ Undisturbed(i) /\ i \notin disturbed'
  BY <1>0, OthersClean DEF CleanInv, Step, Clean
<1>2. /\ pc[i] \in ImportSteps /\ Progress(i) /\ status'[i] # "failed"
      /\ UNCHANGED <<version, link, content, dl>>
  BY <1>1, GoType DEF ReadChunk, Lookup, Insert, serverVars, diskVars, Undisturbed, Active, Go
<1>3. dl[i].expect = version /\ content[dl[i].file] = Whole(version) /\ dl[i].file \in Files
  BY <1>2 DEF Progress
<1>4. im \in [Ingests -> Imports]
  BY DEF TypeInv
<1>5. CASE ReadChunk(i)
  <2>1. pc'[i] \in {"complete", "lookup"}
    BY <1>3, <1>5, ReadChunkStep
  <2> QED BY <1>2, <1>3, <2>1 DEF Progress, Whole
<1>6. CASE Lookup(i)
  <2> DEFINE fresh == im[i].buffer \ Stored
  <2>1. /\ inserter' = inserter
        /\ pc'[i] = "read" \/ (pc'[i] = "insert" /\ im' = [im EXCEPT ![i].fresh = fresh])
    BY <1>6, GoType DEF Lookup
  <2>2. Stored' = Stored
    BY <2>1 DEF Stored
  <2>3. pc'[i] = "insert" => im'[i].fresh \cap Stored' = {}
    BY <1>4, <2>1, <2>2 DEF Imports
  <2> QED BY <1>2, <1>3, <2>1, <2>3 DEF Progress, Whole
<1>7. CASE Insert(i)
  <2>1. pc[i] = "insert"
    BY <1>7 DEF Insert, Go
  <2>2. im[i].fresh \cap Stored = {}
    BY <1>2, <2>1 DEF Progress
  <2>3. pc'[i] = "read"
    BY <1>1, <1>7, <2>2, GoType DEF Insert, Fault
  <2> QED BY <1>2, <1>3, <2>3 DEF Progress, Whole
<1> QED BY <1>5, <1>6, <1>7

LEMMA EndClean ==
    ASSUME TypeInv, CleanInv, NEW i \in Ingests, Complete(i) \/ Fail(i) \/ Kill(i)
    PROVE  CleanInv'
<1> USE DEF Steps
<1>0. SUFFICES ASSUME Clean(i)'
               PROVE  status'[i] # "failed" /\ pc'[i] # "fail" /\ (i \in Active' => Progress(i)')
  BY CleanStep DEF Step
<1>1. Undisturbed(i) /\ i \notin disturbed'
  BY <1>0, OthersClean DEF CleanInv, Step, Clean
<1>2. CASE Complete(i)
  BY <1>2, GoType DEF Complete, End, Active, TypeInv
<1>3. CASE Fail(i)
  BY <1>1, <1>3 DEF Fail, End, Go, Undisturbed
<1>4. CASE Kill(i)
  BY <1>1, <1>4 DEF Kill, TypeInv
<1> QED BY <1>2, <1>3, <1>4

LEMMA NextClean == TypeInv /\ CleanInv /\ [Next]_vars => CleanInv'
<1> SUFFICES ASSUME TypeInv, CleanInv, [Next]_vars PROVE CleanInv'
  OBVIOUS
<1>1. CASE UNCHANGED vars
  <2>1. UNCHANGED <<server, version, link, content, inserter, status, pc, dl, im, overlapped, disturbed, resumed>>
    BY <1>1 DEF vars, serverVars, argumentVars, diskVars, historyVars
  <2>2. ASSUME NEW i \in Ingests PROVE /\ Clean(i)' = Clean(i) /\ Active' = Active
                                       /\ Progress(i) => Progress(i)'
    BY <2>1 DEF Clean, Active, Progress, Partial, Stored, Whole, Prefix
  <2> QED BY <2>1, <2>2 DEF CleanInv, Undisturbed
<1>2. CASE Publish
  <2>1. UNCHANGED <<server, status, pc, overlapped, resumed>> /\ disturbed' = disturbed \cup Active
    BY <1>2 DEF Publish, argumentVars
  <2>2. Active' = Active
    BY <2>1 DEF Active
  <2> QED BY <2>1, <2>2 DEF CleanInv, Undisturbed, Clean
<1> QED BY <1>1, <1>2, DownloadClean, WriteClean, VerifyClean, ImportClean, EndClean DEF Next, Step

\* An ingest that runs alone, meets no failure and finds nothing on the disk does not
\* fail, whatever the server can do, as long as it publishes a checksum.
THEOREM CleanIngestAlwaysCompletes == Spec => []CleanIngestCompletes
<1>1. Init => CleanInv
  BY DEF Init, CleanInv, Undisturbed, Active
<1>2. CleanInv => CleanIngestCompletes
  BY DEF CleanInv, Clean, Undisturbed, CleanIngestCompletes
<1> QED BY <1>1, <1>2, TypeInvariant, NextClean, PTL DEF Spec
=============================================================================
