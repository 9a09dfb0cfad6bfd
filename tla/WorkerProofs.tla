---------------------------- MODULE WorkerProofs ----------------------------
(***************************************************************************)
(* Proofs about ArchiveExtraction and ParserPool, for every archive, every *)
(* number of overlapping attempts and every cap.                           *)
(***************************************************************************)
EXTENDS ArchiveExtraction, ParserPool, FiniteSetTheorems, TLAPS

(***************************************************************************)
(* ArchiveExtraction.                                                      *)
(***************************************************************************)

(* The types of the variables that the proof reads.                        *)
ExtractionTypes ==
  /\ archive \in Seq(ArchiveEntry) \ {<<>>}
  /\ phase \in [Attempts -> Phases]
  /\ inflated \in [Attempts -> 0 .. Len(archive)]
  /\ stream \in [Attempts -> {"flows", "ends", "tooLarge", "broken"}]
  /\ taken \in [Attempts -> 0 .. Len(archive)]
  /\ writing \in [Attempts -> BOOLEAN]
  /\ dirs \subseteq Attempts
  /\ disk \in [Attempts -> SUBSET Nat]

(* The files of the entries that attempt a has dealt with.                 *)
Written(a) == {i \in FilesOf : i <= taken[a] /\ ~(writing[a] /\ i = taken[a])}

(* What an attempt has taken was checked, what it has on disk has passed   *)
(* the counter, and while it extracts or reads the directory holds exactly *)
(* the files it has dealt with.                                            *)
AttemptInv(a) ==
  /\ phase[a] = "unused" => /\ inflated[a] = 0 /\ taken[a] = 0 /\ ~writing[a]
                            /\ disk[a] = {} /\ stream[a] = "flows"
  /\ \A i \in 1 .. inflated[a] : ~Exceeds(i)
  /\ \A i \in 1 .. taken[a] : i <= INDEX_MAX_FILE_COUNT /\ archive[i].kind # "outside"
  /\ writing[a] => taken[a] \in FilesOf
  /\ stream[a] = "ends" => inflated[a] = Len(archive)
  /\ phase[a] = "extracting" \/ InCallback(a) => a \in dirs /\ disk[a] = Written(a)
  /\ InCallback(a) => stream[a] = "ends" /\ taken[a] = Len(archive) /\ ~writing[a]
  /\ \A i \in disk[a] : i \in 1 .. inflated[a] /\ i \in 1 .. taken[a]

ExtractionInv == ExtractionTypes /\ \A a \in Attempts : AttemptInv(a)

LEMMA ExtractionInitInv == ExtractionInit => ExtractionInv
BY ArchiveConstants DEF ExtractionInit, ExtractionInv, ExtractionTypes, AttemptInv, Phases, InCallback

(* The caps are those of the archive.                                      *)
LEMMA SameArchive ==
  ASSUME archive' = archive
  PROVE  FilesOf' = FilesOf /\ \A i : Exceeds(i)' <=> Exceeds(i)
BY DEF FilesOf, Exceeds, Bytes

(* An attempt of which a step changes no more than the phase: it begins to *)
(* read a tree only when all of the archive was taken and has passed.      *)
LEMMA PhaseChanges ==
  ASSUME NEW b \in Attempts, AttemptInv(b), archive' = archive,
         inflated'[b] = inflated[b], stream'[b] = stream[b], taken'[b] = taken[b],
         writing'[b] = writing[b], disk'[b] = disk[b], b \in dirs' <=> b \in dirs,
         phase'[b] = "unused" => phase[b] = "unused",
         phase'[b] = "extracting" => phase[b] = "extracting",
         InCallback(b)' => \/ InCallback(b)
                           \/ /\ phase[b] = "extracting" /\ stream[b] = "ends"
                              /\ taken[b] = Len(archive) /\ ~writing[b]
  PROVE  AttemptInv(b)'
BY SameArchive DEF AttemptInv, Written

LEMMA AttemptFrame ==
  ASSUME NEW b \in Attempts, AttemptInv(b), archive' = archive, phase'[b] = phase[b],
         inflated'[b] = inflated[b], stream'[b] = stream[b], taken'[b] = taken[b],
         writing'[b] = writing[b], disk'[b] = disk[b], b \in dirs' <=> b \in dirs
  PROVE  AttemptInv(b)'
<1>1. InCallback(b)' <=> InCallback(b)
  BY DEF InCallback
<1>. QED BY <1>1, PhaseChanges

LEMMA BeginExtractionInv ==
  ASSUME ExtractionInv, NEW a \in Attempts, BeginExtraction(a)
  PROVE  ExtractionInv'
<1>1. ExtractionTypes'
  BY DEF ExtractionInv, ExtractionTypes, AttemptInv, Phases, FilesOf, InCallback, BeginExtraction, During, Then, DirOf, streamVars, loopVars, treeVars, callbackVars
<1>2. AttemptInv(a)'
  <2>1. /\ phase'[a] = "extracting" /\ archive' = archive /\ a \in dirs'
        /\ inflated'[a] = 0 /\ taken'[a] = 0 /\ ~writing'[a] /\ disk'[a] = {} /\ stream'[a] = "flows"
    BY DEF ExtractionInv, ExtractionTypes, AttemptInv, BeginExtraction, During, Then, DirOf, streamVars, loopVars
  <2>2. \A i \in FilesOf : ~(i <= 0)
    BY DEF FilesOf, ExtractionInv, ExtractionTypes
  <2>3. Written(a)' = {}
    BY <2>1, <2>2, SameArchive DEF Written
  <2>. QED BY <2>1, <2>3 DEF AttemptInv, InCallback
<1>3. \A b \in Attempts \ {a} : AttemptInv(b)'
  BY AttemptFrame DEF ExtractionInv, ExtractionTypes, BeginExtraction, During, Then, DirOf, streamVars, loopVars, treeVars, callbackVars
<1>. QED BY <1>1, <1>2, <1>3 DEF ExtractionInv

LEMMA InflateInv ==
  ASSUME ExtractionInv, NEW a \in Attempts, Inflate(a)
  PROVE  ExtractionInv'
<1>1. ExtractionTypes'
  <2>1. inflated[a] < Len(archive) => inflated[a] + 1 \in 0 .. Len(archive)
    BY DEF ExtractionInv, ExtractionTypes
  <2>. QED BY <2>1 DEF ExtractionInv, ExtractionTypes, Inflate, loopVars, treeVars
<1>2. AttemptInv(a)'
  <2>1. /\ archive' = archive /\ phase' = phase /\ taken' = taken /\ writing' = writing
        /\ dirs' = dirs /\ disk' = disk /\ phase[a] = "extracting"
    BY DEF Inflate, During, loopVars, treeVars
  <2>2. CASE Exceeds(inflated[a] + 1)
    BY <2>1, <2>2, SameArchive DEF ExtractionInv, ExtractionTypes, AttemptInv, Written, InCallback, Inflate
  <2>3. CASE ~Exceeds(inflated[a] + 1)
    <3>1. inflated'[a] = inflated[a] + 1 /\ stream' = stream /\ inflated[a] \in Nat /\ stream[a] = "flows"
      BY <2>3 DEF ExtractionInv, ExtractionTypes, Inflate
    <3>2. \A i \in 1 .. inflated'[a] : i \in 1 .. inflated[a] \/ i = inflated[a] + 1
      BY <3>1
    <3>3. \A i \in 1 .. inflated'[a] : ~Exceeds(i)
      BY <2>3, <3>2 DEF ExtractionInv, AttemptInv
    <3>4. \A i \in disk[a] : i \in 1 .. inflated'[a]
      BY <3>1 DEF ExtractionInv, ExtractionTypes, AttemptInv
    <3>. QED BY <2>1, <3>1, <3>3, <3>4, SameArchive DEF ExtractionInv, AttemptInv, Written, InCallback
  <2>. QED BY <2>2, <2>3
<1>3. \A b \in Attempts \ {a} : AttemptInv(b)'
  BY AttemptFrame DEF ExtractionInv, ExtractionTypes, Inflate, During, streamVars, loopVars, treeVars, callbackVars
<1>. QED BY <1>1, <1>2, <1>3 DEF ExtractionInv

LEMMA StreamEndsInv ==
  ASSUME ExtractionInv, NEW a \in Attempts, StreamEnds(a)
  PROVE  ExtractionInv'
<1>1. ExtractionTypes'
  BY DEF ExtractionInv, ExtractionTypes, AttemptInv, Phases, FilesOf, InCallback, StreamEnds, During, streamVars, loopVars, treeVars, callbackVars
<1>2. AttemptInv(a)'
  BY SameArchive DEF ExtractionInv, ExtractionTypes, AttemptInv, Written, InCallback, StreamEnds, During,
                     loopVars, treeVars
<1>3. \A b \in Attempts \ {a} : AttemptInv(b)'
  BY AttemptFrame DEF ExtractionInv, ExtractionTypes, StreamEnds, During, streamVars, loopVars, treeVars, callbackVars
<1>. QED BY <1>1, <1>2, <1>3 DEF ExtractionInv

LEMMA StreamBreaksInv ==
  ASSUME ExtractionInv, NEW a \in Attempts, StreamBreaks(a)
  PROVE  ExtractionInv'
<1>1. ExtractionTypes'
  BY DEF ExtractionInv, ExtractionTypes, AttemptInv, Phases, FilesOf, InCallback, StreamBreaks, During, streamVars, loopVars, treeVars, callbackVars
<1>2. AttemptInv(a)'
  BY SameArchive DEF ExtractionInv, ExtractionTypes, AttemptInv, Written, InCallback, StreamBreaks, During,
                     streamVars, loopVars, treeVars
<1>3. \A b \in Attempts \ {a} : AttemptInv(b)'
  BY AttemptFrame DEF ExtractionInv, ExtractionTypes, StreamBreaks, During, streamVars, loopVars, treeVars, callbackVars
<1>. QED BY <1>1, <1>2, <1>3 DEF ExtractionInv

(* The loop takes an entry or throws.                                      *)
LEMMA TakesOrThrows ==
  ASSUME NEW a \in Attempts, TakeEntry(a)
  PROVE  LET n == taken[a] + 1 IN
         \/ /\ phase' = [phase EXCEPT ![a] = "removing"]
            /\ UNCHANGED <<taken, writing, disk>>
         \/ /\ ~(n > INDEX_MAX_FILE_COUNT) /\ archive[n].kind # "outside"
            /\ taken' = [taken EXCEPT ![a] = n]
            /\ writing' = [writing EXCEPT ![a] = archive[n].kind = "file"]
            /\ disk' = [disk EXCEPT ![a] = IF archive[n].kind = "file" THEN @ \ {n} ELSE @]
            /\ UNCHANGED phase
BY Zenon DEF TakeEntry, Then, Throw, DirOf, loopVars

(* A function changed at one place keeps its type. *)
LEMMA Updated ==
  ASSUME NEW S, NEW T, NEW f \in [S -> T], NEW x \in S, NEW y \in T
  PROVE  [f EXCEPT ![x] = y] \in [S -> T]
OBVIOUS

LEMMA TakeEntryInv ==
  ASSUME ExtractionInv, NEW a \in Attempts, TakeEntry(a)
  PROVE  ExtractionInv'
<1>1. ExtractionTypes'
  <2>1. /\ taken[a] + 1 \in 0 .. Len(archive)
        /\ archive' = archive /\ inflated' = inflated /\ stream' = stream /\ dirs' = dirs
    BY DEF ExtractionInv, ExtractionTypes, TakeEntry, streamVars
  <2>2. /\ phase \in [Attempts -> Phases] /\ writing \in [Attempts -> BOOLEAN]
        /\ taken \in [Attempts -> 0 .. Len(archive)] /\ disk \in [Attempts -> SUBSET Nat]
    BY DEF ExtractionInv, ExtractionTypes
  <2>7. CASE phase' = [phase EXCEPT ![a] = "removing"] /\ UNCHANGED <<taken, writing, disk>>
    <3>1. phase' \in [Attempts -> Phases]
      BY <2>2, <2>7, Updated DEF Phases
    <3>. QED BY <2>1, <2>2, <2>7, <3>1 DEF ExtractionTypes, ExtractionInv
  <2>8. CASE ~(phase' = [phase EXCEPT ![a] = "removing"] /\ UNCHANGED <<taken, writing, disk>>)
    <3>. DEFINE n == taken[a] + 1
               w == archive[n].kind = "file"
               left == IF archive[n].kind = "file" THEN disk[a] \ {n} ELSE disk[a]
    <3>1. /\ phase' = phase /\ taken' = [taken EXCEPT ![a] = n]
          /\ writing' = [writing EXCEPT ![a] = w] /\ disk' = [disk EXCEPT ![a] = left]
      BY <2>8, TakesOrThrows
    <3>2. w \in BOOLEAN /\ left \in SUBSET Nat
      BY <2>2
    <3>. HIDE DEF w, left
    <3>3. writing' \in [Attempts -> BOOLEAN]
      BY <2>2, <3>1, <3>2, Updated
    <3>4. disk' \in [Attempts -> SUBSET Nat]
      BY <2>2, <3>1, <3>2, Updated
    <3>5. n \in 0 .. Len(archive)
      BY <2>1
    <3>. HIDE DEF n
    <3>6. taken' \in [Attempts -> 0 .. Len(archive)]
      BY <2>2, <3>1, <3>5, Updated
    <3>. QED BY <2>1, <2>2, <3>1, <3>3, <3>4, <3>6 DEF ExtractionTypes, ExtractionInv
  <2>. QED BY <2>7, <2>8
<1>2. AttemptInv(a)'
  <2>. DEFINE n == taken[a] + 1
  <2>1. /\ archive' = archive /\ inflated' = inflated /\ stream' = stream /\ dirs' = dirs
        /\ phase[a] = "extracting" /\ ~writing[a] /\ taken[a] \in Nat /\ n \in 1 .. Len(archive)
    BY DEF ExtractionInv, ExtractionTypes, TakeEntry, During, streamVars
  <2>2. CASE phase' = phase
    <3>1. phase' # [phase EXCEPT ![a] = "removing"]
      BY <2>1, <2>2 DEF ExtractionInv, ExtractionTypes
    <3>2. /\ ~(n > INDEX_MAX_FILE_COUNT) /\ archive[n].kind # "outside"
          /\ taken' = [taken EXCEPT ![a] = n]
          /\ writing' = [writing EXCEPT ![a] = archive[n].kind = "file"]
          /\ disk' = [disk EXCEPT ![a] = IF archive[n].kind = "file" THEN @ \ {n} ELSE @]
      BY <3>1, TakesOrThrows, Zenon
    <3>3. /\ taken'[a] = n /\ writing'[a] = (archive[n].kind = "file")
          /\ disk'[a] = IF archive[n].kind = "file" THEN disk[a] \ {n} ELSE disk[a]
          /\ n <= INDEX_MAX_FILE_COUNT /\ archive[n].kind # "outside"
      <4>1. writing'[a] = (archive[n].kind = "file")
        BY <3>2, Zenon DEF ExtractionInv, ExtractionTypes
      <4>2. n <= INDEX_MAX_FILE_COUNT
        BY <3>2, <2>1, ArchiveConstants
      <4>. QED BY <3>2, <4>1, <4>2 DEF ExtractionInv, ExtractionTypes
    <3>4. disk[a] = {i \in FilesOf : i <= taken[a]}
      BY <2>1 DEF ExtractionInv, AttemptInv, Written
    <3>5. \A i \in FilesOf : i \in Nat
      BY DEF FilesOf, ExtractionInv, ExtractionTypes
    <3>6. disk'[a] = Written(a)'
      <4>1. Written(a)' = {i \in FilesOf : i <= n /\ ~(archive[n].kind = "file" /\ i = n)}
        BY <2>1, <3>3, SameArchive DEF Written
      <4>2. \A i \in FilesOf : i <= n <=> i <= taken[a] \/ i = n
        BY <2>1, <3>5
      <4>3. n \in FilesOf <=> archive[n].kind = "file"
        BY <2>1 DEF FilesOf, ExtractionInv, ExtractionTypes
      <4>. QED BY <2>1, <3>3, <3>4, <3>5, <4>1, <4>2, <4>3
    <3>7. writing'[a] => n \in FilesOf
      BY <2>1, <3>3 DEF FilesOf, ExtractionInv, ExtractionTypes
    <3>8. \A i \in 1 .. n : i \in 1 .. taken[a] \/ i = n
      BY <2>1
    <3>9. \A i \in 1 .. n : i <= INDEX_MAX_FILE_COUNT /\ archive[i].kind # "outside"
      BY <3>3, <3>8 DEF ExtractionInv, AttemptInv
    <3>10. \A i \in disk'[a] : i \in 1 .. inflated[a] /\ i \in 1 .. n
      BY <2>1, <3>3 DEF ExtractionInv, ExtractionTypes, AttemptInv
    <3>. HIDE DEF n
    <3>. QED BY <2>1, <2>2, <3>3, <3>6, <3>7, <3>9, <3>10, SameArchive DEF ExtractionInv, AttemptInv, InCallback
  <2>3. CASE phase' # phase
    <3>1. /\ phase'[a] = "removing" /\ taken' = taken /\ writing' = writing /\ disk' = disk
      BY <2>3 DEF ExtractionInv, ExtractionTypes, TakeEntry, During, Then, Throw, loopVars
    <3>. QED BY <2>1, <3>1, PhaseChanges DEF ExtractionInv, InCallback
  <2>. QED BY <2>2, <2>3
<1>3. \A b \in Attempts \ {a} : AttemptInv(b)'
  BY AttemptFrame DEF ExtractionInv, ExtractionTypes, TakeEntry, During, Then, Throw, DirOf, streamVars, loopVars, treeVars, callbackVars
<1>. QED BY <1>1, <1>2, <1>3 DEF ExtractionInv

LEMMA FinishWriteInv ==
  ASSUME ExtractionInv, NEW a \in Attempts, FinishWrite(a)
  PROVE  ExtractionInv'
<1>1. ExtractionTypes'
  BY DEF ExtractionInv, ExtractionTypes, AttemptInv, Phases, FilesOf, InCallback, FinishWrite, During, DirOf, streamVars, loopVars, treeVars, callbackVars
<1>2. AttemptInv(a)'
  <2>1. /\ archive' = archive /\ inflated' = inflated /\ stream' = stream /\ dirs' = dirs
        /\ phase' = phase /\ taken' = taken /\ phase[a] = "extracting"
        /\ writing[a] /\ ~writing'[a] /\ disk'[a] = disk[a] \cup {taken[a]}
        /\ taken[a] <= inflated[a] /\ taken[a] \in Nat /\ inflated[a] \in Nat
    BY DEF ExtractionInv, ExtractionTypes, FinishWrite, During, DirOf, streamVars
  <2>2. taken[a] \in FilesOf /\ taken[a] >= 1
    BY <2>1 DEF ExtractionInv, ExtractionTypes, AttemptInv, FilesOf
  <2>3. disk'[a] = Written(a)'
    <3>1. disk[a] = {i \in FilesOf : i <= taken[a] /\ i # taken[a]}
      BY <2>1 DEF ExtractionInv, AttemptInv, Written
    <3>2. Written(a)' = {i \in FilesOf : i <= taken[a]}
      BY <2>1, SameArchive DEF Written
    <3>. QED BY <2>1, <2>2, <3>1, <3>2
  <2>4. \A i \in disk'[a] : i \in 1 .. inflated[a] /\ i \in 1 .. taken[a]
    BY <2>1, <2>2 DEF ExtractionInv, AttemptInv
  <2>. QED BY <2>1, <2>2, <2>3, <2>4, SameArchive DEF ExtractionInv, AttemptInv, InCallback
<1>3. \A b \in Attempts \ {a} : AttemptInv(b)'
  BY AttemptFrame DEF ExtractionInv, ExtractionTypes, FinishWrite, During, DirOf, streamVars, loopVars, treeVars, callbackVars
<1>. QED BY <1>1, <1>2, <1>3 DEF ExtractionInv

LEMMA LoopThrowsInv ==
  ASSUME ExtractionInv, NEW a \in Attempts, LoopThrows(a)
  PROVE  ExtractionInv'
<1>1. ExtractionTypes'
  BY DEF ExtractionInv, ExtractionTypes, AttemptInv, Phases, FilesOf, InCallback, LoopThrows, During, Then, Throw, streamVars, loopVars, treeVars, callbackVars
<1>2. AttemptInv(a)'
  BY PhaseChanges DEF ExtractionInv, ExtractionTypes, InCallback, LoopThrows, During, Then, Throw, streamVars, loopVars, treeVars, callbackVars
<1>3. \A b \in Attempts \ {a} : AttemptInv(b)'
  BY AttemptFrame DEF ExtractionInv, ExtractionTypes, LoopThrows, During, Then, Throw, streamVars, loopVars, treeVars, callbackVars
<1>. QED BY <1>1, <1>2, <1>3 DEF ExtractionInv

LEMMA EntriesEndInv ==
  ASSUME ExtractionInv, NEW a \in Attempts, EntriesEnd(a)
  PROVE  ExtractionInv'
<1>1. ExtractionTypes'
  BY DEF ExtractionInv, ExtractionTypes, AttemptInv, Phases, FilesOf, InCallback, EntriesEnd, During, Then, streamVars, loopVars, treeVars, callbackVars
<1>2. AttemptInv(a)'
  BY PhaseChanges DEF ExtractionInv, ExtractionTypes, InCallback, EntriesEnd, During, Then, streamVars, loopVars, treeVars, callbackVars
<1>3. \A b \in Attempts \ {a} : AttemptInv(b)'
  BY AttemptFrame DEF ExtractionInv, ExtractionTypes, EntriesEnd, During, Then, streamVars, loopVars, treeVars, callbackVars
<1>. QED BY <1>1, <1>2, <1>3 DEF ExtractionInv

LEMMA ListTreeInv ==
  ASSUME ExtractionInv, NEW a \in Attempts, ListTree(a)
  PROVE  ExtractionInv'
<1>1. ExtractionTypes'
  BY DEF ExtractionInv, ExtractionTypes, AttemptInv, Phases, FilesOf, InCallback, ListTree, During, Then, streamVars, loopVars, treeVars, callbackVars
<1>2. AttemptInv(a)'
  BY PhaseChanges DEF ExtractionInv, ExtractionTypes, InCallback, ListTree, During, Then, streamVars, loopVars, treeVars, callbackVars
<1>3. \A b \in Attempts \ {a} : AttemptInv(b)'
  BY AttemptFrame DEF ExtractionInv, ExtractionTypes, ListTree, During, Then, streamVars, loopVars, treeVars, callbackVars
<1>. QED BY <1>1, <1>2, <1>3 DEF ExtractionInv

LEMMA WalkFileInv ==
  ASSUME ExtractionInv, NEW a \in Attempts, WalkFile(a)
  PROVE  ExtractionInv'
<1>1. ExtractionTypes'
  BY DEF ExtractionInv, ExtractionTypes, AttemptInv, Phases, FilesOf, InCallback, WalkFile, During, streamVars, loopVars, treeVars, callbackVars
<1>2. AttemptInv(a)'
  BY PhaseChanges DEF ExtractionInv, ExtractionTypes, InCallback, WalkFile, During, streamVars, loopVars, treeVars, callbackVars
<1>3. \A b \in Attempts \ {a} : AttemptInv(b)'
  BY AttemptFrame DEF ExtractionInv, ExtractionTypes, WalkFile, During, streamVars, loopVars, treeVars, callbackVars
<1>. QED BY <1>1, <1>2, <1>3 DEF ExtractionInv

LEMMA PersistFilesInv ==
  ASSUME ExtractionInv, NEW a \in Attempts, PersistFiles(a)
  PROVE  ExtractionInv'
<1>1. ExtractionTypes'
  BY DEF ExtractionInv, ExtractionTypes, AttemptInv, Phases, FilesOf, InCallback, PersistFiles, During, Then, streamVars, loopVars, treeVars, callbackVars
<1>2. AttemptInv(a)'
  BY PhaseChanges DEF ExtractionInv, ExtractionTypes, InCallback, PersistFiles, During, Then, streamVars, loopVars, treeVars, callbackVars
<1>3. \A b \in Attempts \ {a} : AttemptInv(b)'
  BY AttemptFrame DEF ExtractionInv, ExtractionTypes, PersistFiles, During, Then, streamVars, loopVars, treeVars, callbackVars
<1>. QED BY <1>1, <1>2, <1>3 DEF ExtractionInv

LEMMA ParseTheFileInv ==
  ASSUME ExtractionInv, NEW a \in Attempts, ParseTheFile(a)
  PROVE  ExtractionInv'
<1>1. ExtractionTypes'
  BY DEF ExtractionInv, ExtractionTypes, AttemptInv, Phases, FilesOf, InCallback, ParseTheFile, During, streamVars, loopVars, treeVars, callbackVars
<1>2. AttemptInv(a)'
  BY PhaseChanges DEF ExtractionInv, ExtractionTypes, InCallback, ParseTheFile, During, streamVars, loopVars, treeVars, callbackVars
<1>3. \A b \in Attempts \ {a} : AttemptInv(b)'
  BY AttemptFrame DEF ExtractionInv, ExtractionTypes, ParseTheFile, During, streamVars, loopVars, treeVars, callbackVars
<1>. QED BY <1>1, <1>2, <1>3 DEF ExtractionInv

LEMMA CallbackEndsInv ==
  ASSUME ExtractionInv, NEW a \in Attempts, CallbackEnds(a)
  PROVE  ExtractionInv'
<1>1. ExtractionTypes'
  BY DEF ExtractionInv, ExtractionTypes, AttemptInv, Phases, FilesOf, InCallback, CallbackEnds, Then, streamVars, loopVars, treeVars, callbackVars
<1>2. AttemptInv(a)'
  BY PhaseChanges DEF ExtractionInv, ExtractionTypes, InCallback, CallbackEnds, Then, streamVars, loopVars, treeVars, callbackVars
<1>3. \A b \in Attempts \ {a} : AttemptInv(b)'
  BY AttemptFrame DEF ExtractionInv, ExtractionTypes, CallbackEnds, Then, streamVars, loopVars, treeVars, callbackVars
<1>. QED BY <1>1, <1>2, <1>3 DEF ExtractionInv

LEMMA RemoveDirectoryInv ==
  ASSUME ExtractionInv, NEW a \in Attempts, RemoveDirectory(a)
  PROVE  ExtractionInv'
<1>1. ExtractionTypes'
  BY DEF ExtractionInv, ExtractionTypes, AttemptInv, Phases, FilesOf, InCallback, RemoveDirectory, During, Then, DirOf, streamVars, loopVars, treeVars, callbackVars
<1>2. AttemptInv(a)'
  <2>1. /\ archive' = archive /\ phase'[a] = "ended" /\ disk'[a] = {} /\ inflated' = inflated
        /\ stream' = stream /\ taken' = taken /\ writing' = writing
    BY DEF ExtractionInv, ExtractionTypes, RemoveDirectory, During, Then, DirOf, streamVars, loopVars
  <2>. QED BY <2>1, SameArchive DEF ExtractionInv, AttemptInv, InCallback
<1>3. \A b \in Attempts \ {a} : AttemptInv(b)'
  BY AttemptFrame DEF ExtractionInv, ExtractionTypes, RemoveDirectory, During, Then, DirOf, streamVars, loopVars, treeVars, callbackVars
<1>. QED BY <1>1, <1>2, <1>3 DEF ExtractionInv

LEMMA LeakInv ==
  ASSUME ExtractionInv, NEW a \in Attempts, Leak(a)
  PROVE  ExtractionInv'
<1>1. ExtractionTypes'
  BY DEF ExtractionInv, ExtractionTypes, AttemptInv, Phases, FilesOf, InCallback, Leak, Then, streamVars, loopVars, treeVars, callbackVars
<1>2. AttemptInv(a)'
  BY PhaseChanges DEF ExtractionInv, ExtractionTypes, InCallback, Leak, Then, streamVars, loopVars, treeVars, callbackVars
<1>3. \A b \in Attempts \ {a} : AttemptInv(b)'
  BY AttemptFrame DEF ExtractionInv, ExtractionTypes, Leak, Then, streamVars, loopVars, treeVars, callbackVars
<1>. QED BY <1>1, <1>2, <1>3 DEF ExtractionInv

LEMMA ExtractionStep == ExtractionInv /\ [ExtractionNext]_extractionVars => ExtractionInv'
<1>. SUFFICES ASSUME ExtractionInv, [ExtractionNext]_extractionVars PROVE ExtractionInv'
  OBVIOUS
<1>1. CASE UNCHANGED extractionVars
  <2>1. ExtractionTypes'
    BY <1>1 DEF ExtractionInv, ExtractionTypes, extractionVars, streamVars, loopVars, treeVars
  <2>2. \A b \in Attempts : AttemptInv(b)'
    BY <1>1, AttemptFrame DEF ExtractionInv, extractionVars, streamVars, loopVars, treeVars
  <2>. QED BY <2>1, <2>2 DEF ExtractionInv
<1>. QED BY <1>1, BeginExtractionInv, InflateInv, StreamEndsInv, StreamBreaksInv, TakeEntryInv,
            FinishWriteInv, LoopThrowsInv, EntriesEndInv, ListTreeInv, WalkFileInv,
            PersistFilesInv, ParseTheFileInv, CallbackEndsInv, RemoveDirectoryInv, LeakInv
         DEF ExtractionNext, AttemptStep

LEMMA ExtractionAlways == ExtractionSpec => []ExtractionInv
BY ExtractionInitInv, ExtractionStep, PTL DEF ExtractionSpec

(* A tree that is being read is whole, whatever other attempts do.         *)
THEOREM TreesAreWhole == ExtractionSpec => []TreesStayWhole
<1>1. ExtractionInv => TreesStayWhole
  <2>. SUFFICES ASSUME ExtractionInv, NEW a \in Attempts, InCallback(a)
                PROVE  DirOf(a) \in dirs /\ disk[DirOf(a)] = FilesOf
    BY DEF TreesStayWhole
  <2>1. a \in dirs /\ disk[a] = Written(a) /\ taken[a] = Len(archive) /\ ~writing[a]
    BY DEF ExtractionInv, AttemptInv
  <2>2. \A i \in FilesOf : i <= Len(archive)
    BY DEF FilesOf, ExtractionInv, ExtractionTypes
  <2>. QED BY <2>1, <2>2 DEF Written, DirOf
<1>. QED BY <1>1, ExtractionAlways, PTL

(* Only archives that came to their end within the caps are read.          *)
THEOREM ReadArchivesAreChecked == ExtractionSpec => []OnlyCheckedArchives
<1>1. ExtractionInv => OnlyCheckedArchives
  <2>. SUFFICES ASSUME ExtractionInv, NEW a \in Attempts
                PROVE  /\ InCallback(a) =>
                            /\ stream[a] = "ends"
                            /\ \A i \in DOMAIN archive : archive[i].kind # "outside"
                            /\ Len(archive) <= INDEX_MAX_FILE_COUNT /\ ~Exceeds(Len(archive))
                       /\ \A i \in disk[a] : i <= INDEX_MAX_FILE_COUNT /\ ~Exceeds(i)
    BY DEF OnlyCheckedArchives, DirOf
  <2>1. Len(archive) \in 1 .. Len(archive) /\ DOMAIN archive = 1 .. Len(archive)
    BY DEF ExtractionInv, ExtractionTypes
  <2>2. AttemptInv(a)
    BY DEF ExtractionInv
  <2>3. InCallback(a) => inflated[a] = Len(archive) /\ taken[a] = Len(archive) /\ stream[a] = "ends"
    BY <2>2 DEF AttemptInv
  <2>. QED BY <2>1, <2>2, <2>3 DEF AttemptInv
<1>. QED BY <1>1, ExtractionAlways, PTL

(* While an attempt extracts, the stream may go on, or the loop may, or one*)
(* of them has failed and the loop throws: the stream waits for the loop   *)
(* only when there is an entry for it to take, and the loop for the stream *)
(* only when that may run on (archive-extractor.ts: the entries are read   *)
(* while the pipeline is under backpressure).                              *)
StreamAndLoopGoOn ==
  \A a \in Attempts : phase[a] = "extracting" =>
    \/ stream[a] = "flows" /\ inflated[a] < Len(archive) /\ inflated[a] < taken[a] + READ_AHEAD
    \/ stream[a] = "flows" /\ inflated[a] = Len(archive)
    \/ stream[a] \in {"tooLarge", "broken"}
    \/ writing[a] /\ taken[a] <= inflated[a]
    \/ ~writing[a] /\ stream[a] \in {"flows", "ends"} /\ taken[a] < Len(archive) /\ taken[a] <= inflated[a]
    \/ ~writing[a] /\ stream[a] = "ends" /\ taken[a] = Len(archive)

(* A stream and a loop over it never wait for each other.                  *)
THEOREM ExtractionsAreNeverStuck == ExtractionSpec => []StreamAndLoopGoOn
<1>1. ASSUME ExtractionInv PROVE StreamAndLoopGoOn
  <2> SUFFICES ASSUME NEW a \in Attempts
               PROVE  \/ stream[a] = "flows" /\ inflated[a] < Len(archive) /\ inflated[a] < taken[a] + READ_AHEAD
                      \/ stream[a] = "flows" /\ inflated[a] = Len(archive)
                      \/ stream[a] \in {"tooLarge", "broken"}
                      \/ writing[a] /\ taken[a] <= inflated[a]
                      \/ /\ ~writing[a] /\ stream[a] \in {"flows", "ends"}
                         /\ taken[a] < Len(archive) /\ taken[a] <= inflated[a]
                      \/ ~writing[a] /\ stream[a] = "ends" /\ taken[a] = Len(archive)
    BY DEF StreamAndLoopGoOn
  <2> DEFINE n == Len(archive)
             i == inflated[a]
             t == taken[a]
  <2>1. /\ n \in Nat /\ i \in 0 .. n /\ t \in 0 .. n
        /\ stream[a] \in {"flows", "ends", "tooLarge", "broken"}
        /\ writing[a] \in BOOLEAN
        /\ stream[a] = "ends" => i = n
        /\ READ_AHEAD \in Nat \ {0}
    BY <1>1, ArchiveConstants DEF ExtractionInv, ExtractionTypes, AttemptInv
  <2> HIDE DEF n, i, t
  <2>2. \/ stream[a] = "flows" /\ i < n /\ i < t + READ_AHEAD
        \/ stream[a] = "flows" /\ i = n
        \/ stream[a] \in {"tooLarge", "broken"}
        \/ writing[a] /\ t <= i
        \/ ~writing[a] /\ stream[a] \in {"flows", "ends"} /\ t < n /\ t <= i
        \/ ~writing[a] /\ stream[a] = "ends" /\ t = n
    <3>1. CASE stream[a] = "ends"
      BY <2>1, <3>1
    <3>2. CASE stream[a] = "flows"
      BY <2>1, <3>2
    <3> QED BY <2>1, <3>1, <3>2
  <2> QED BY <2>2 DEF n, i, t
<1> QED BY <1>1, ExtractionAlways, PTL

(* What an attempt has left to do: its phases, and in a phase the entries  *)
(* to inflate, take and write, the files to walk, the files to parse.      *)
PhasesLeft(a) ==
  CASE phase[a] = "unused" -> 6 [] phase[a] = "extracting" -> 5 [] phase[a] = "listing" -> 4
    [] phase[a] = "walking" -> 3 [] phase[a] = "parsing" -> 2 [] phase[a] = "removing" -> 1
    [] OTHER -> 0

EntriesLeft(a) ==
  (Len(archive) - inflated[a]) + (IF stream[a] = "flows" THEN 1 ELSE 0)
    + 2 * (Len(archive) - taken[a]) + (IF writing[a] THEN 1 ELSE 0)

Unread(a) == {i \in DOMAIN rows[a] : rows[a][i] = "unread"}
Unparsed(a) == DOMAIN rows[a] \ DOMAIN parsed[a]

WorkLeft(a) ==
  IF phase[a] = "extracting" THEN EntriesLeft(a)
  ELSE IF phase[a] = "walking" THEN Cardinality(Unread(a))
  ELSE IF phase[a] = "parsing" THEN Cardinality(Unparsed(a)) ELSE 0

(* Whatever an attempt does, it gets on, and no other attempt sets it back:*)
(* it takes finitely many steps, whatever the archive, until its directory *)
(* is removed or has leaked (archive-extractor.ts, the finally block).     *)
AttemptsWindDown ==
  [][\A a \in Attempts :
       /\ PhasesLeft(a)' <= PhasesLeft(a)
       /\ WorkLeft(a) \in Nat
       /\ PhasesLeft(a)' = PhasesLeft(a) => WorkLeft(a)' <= WorkLeft(a)
       /\ BeginExtraction(a) \/ AttemptStep(a) \/ StreamBreaks(a) \/ Leak(a) =>
            \/ PhasesLeft(a)' < PhasesLeft(a)
            \/ WorkLeft(a)' < WorkLeft(a)]_extractionVars

(* The files of a tree are finitely many.                                  *)
FileStates == {"unread", "FAILED", "OK", "INDEXED", "SKIPPED_GENERATED", "SKIPPED_VENDORED",
               "SKIPPED_TOO_LARGE", "SKIPPED_BINARY", "SKIPPED_MINIFIED"}
FiniteMaps == UNION {[D -> FileStates] : D \in {S \in SUBSET Nat : IsFiniteSet(S)}}
RowsInv == rows \in [Attempts -> FiniteMaps] /\ parsed \in [Attempts -> FiniteMaps]

LEMMA FiniteMapFacts ==
  ASSUME NEW f \in FiniteMaps
  PROVE  /\ IsFiniteSet(DOMAIN f) /\ DOMAIN f \subseteq Nat
         /\ f \in [DOMAIN f -> FileStates]
BY DEF FiniteMaps

LEMMA FiniteMapIntro ==
  ASSUME NEW S, IsFiniteSet(S), S \subseteq Nat, NEW f \in [S -> FileStates]
  PROVE  f \in FiniteMaps
BY DEF FiniteMaps

LEMMA BucketsAreStates == \A e : Bucket(e) \in FileStates
BY DEF Bucket, FileStates

(* What each action of an attempt does to it.                              *)
RowsStay == rows' = rows /\ parsed' = parsed

LEMMA RowsStep ==
  ASSUME ExtractionInv, RowsInv, [ExtractionNext]_extractionVars
  PROVE  RowsInv'
<1>1. CASE RowsStay
  BY <1>1 DEF RowsStay, RowsInv
<1>2. ASSUME NEW a \in Attempts, ListTree(a) PROVE RowsInv'
  <2> DEFINE S == {j \in disk[DirOf(a)] : "hardIgnored" \notin archive[j].marks}
             f == [i \in S |-> "unread"]
  <2>1. S \subseteq 1 .. Len(archive) /\ Len(archive) \in Nat
    <3>1. \A i \in disk[a] : i \in 1 .. taken[a]
      BY DEF ExtractionInv, AttemptInv
    <3>2. taken[a] \in 0 .. Len(archive) /\ Len(archive) \in Nat
      BY DEF ExtractionInv, ExtractionTypes
    <3> QED BY <3>1, <3>2 DEF DirOf
  <2>2. IsFiniteSet(S) /\ S \subseteq Nat
    <3>1. IsFiniteSet(1 .. Len(archive)) /\ 1 .. Len(archive) \subseteq Nat
      BY <2>1, FS_Interval
    <3>2. S \subseteq Nat
      BY <2>1, <3>1
    <3> HIDE DEF S
    <3> QED BY <2>1, <3>1, <3>2, FS_Subset
  <2>3. f \in [S -> FileStates]
    BY DEF FileStates
  <2> HIDE DEF S
  <2>4. f \in FiniteMaps
    BY <2>2, <2>3, FiniteMapIntro
  <2>5. rows' = [rows EXCEPT ![a] = f] /\ parsed' = parsed
    BY <1>2 DEF ListTree, S
  <2> HIDE DEF f
  <2> QED BY <2>4, <2>5 DEF RowsInv
<1>3. ASSUME NEW a \in Attempts, WalkFile(a) PROVE RowsInv'
  <2>1. PICK i \in DOMAIN rows[a], b \in FileStates : rows' = [rows EXCEPT ![a][i] = b]
    <3>1. PICK i \in DOMAIN rows[a] :
            rows' = [rows EXCEPT ![a][i] = Bucket(archive[i])] \/ rows' = [rows EXCEPT ![a][i] = "FAILED"]
      BY <1>3 DEF WalkFile
    <3>2. Bucket(archive[i]) \in FileStates /\ "FAILED" \in FileStates
      BY BucketsAreStates DEF FileStates
    <3> QED BY <3>1, <3>2
  <2> DEFINE f == [rows[a] EXCEPT ![i] = b]
  <2>2. /\ IsFiniteSet(DOMAIN rows[a]) /\ DOMAIN rows[a] \subseteq Nat
        /\ rows[a] \in [DOMAIN rows[a] -> FileStates]
    BY FiniteMapFacts DEF RowsInv
  <2>3. f \in [DOMAIN rows[a] -> FileStates]
    BY <2>2
  <2>4. f \in FiniteMaps
    BY <2>2, <2>3, FiniteMapIntro
  <2>5. rows' = [rows EXCEPT ![a] = f] /\ parsed' = parsed
    BY <1>3, <2>1 DEF WalkFile
  <2> HIDE DEF f
  <2> QED BY <2>4, <2>5 DEF RowsInv
<1>4. ASSUME NEW a \in Attempts, ParseTheFile(a) PROVE RowsInv'
  <2>1. PICK i \in DOMAIN rows[a] \ DOMAIN parsed[a], s \in FileStates :
          parsed' = [parsed EXCEPT ![a] = [j \in DOMAIN @ \cup {i} |-> IF j = i THEN s ELSE @[j]]]
    <3>1. PICK i \in DOMAIN rows[a] \ DOMAIN parsed[a] :
            \E s \in {"FAILED"} \cup (IF i \in disk[DirOf(a)] THEN {"OK"} ELSE {}) :
              parsed' = [parsed EXCEPT ![a] = [j \in DOMAIN @ \cup {i} |-> IF j = i THEN s ELSE @[j]]]
      BY <1>4 DEF ParseTheFile
    <3>2. {"FAILED"} \cup (IF i \in disk[DirOf(a)] THEN {"OK"} ELSE {}) \subseteq FileStates
      BY DEF FileStates
    <3> QED BY <3>1, <3>2
  <2> DEFINE S == DOMAIN parsed[a] \cup {i}
             f == [j \in S |-> IF j = i THEN s ELSE parsed[a][j]]
  <2>2. /\ IsFiniteSet(DOMAIN parsed[a]) /\ DOMAIN parsed[a] \subseteq Nat /\ i \in Nat
        /\ parsed[a] \in [DOMAIN parsed[a] -> FileStates]
    BY FiniteMapFacts DEF RowsInv
  <2>3. IsFiniteSet(S) /\ S \subseteq Nat
    BY <2>2, FS_AddElement
  <2>4. f \in [S -> FileStates]
    BY <2>2
  <2>5. parsed' = [parsed EXCEPT ![a] = f] /\ rows' = rows
    BY <1>4, <2>1 DEF ParseTheFile
  <2> HIDE DEF S
  <2>6. f \in FiniteMaps
    BY <2>3, <2>4, FiniteMapIntro
  <2> HIDE DEF f
  <2> QED BY <2>5, <2>6 DEF RowsInv
<1>5. CASE UNCHANGED extractionVars
  BY <1>1, <1>5 DEF extractionVars, callbackVars, RowsStay
<1>6. ASSUME NEW a \in Attempts,
             \/ BeginExtraction(a) \/ Inflate(a) \/ StreamEnds(a) \/ TakeEntry(a) \/ FinishWrite(a)
             \/ LoopThrows(a) \/ EntriesEnd(a) \/ PersistFiles(a) \/ CallbackEnds(a)
             \/ RemoveDirectory(a) \/ StreamBreaks(a) \/ Leak(a)
      PROVE  RowsInv'
  <2>1. RowsStay
    BY <1>6 DEF RowsStay, callbackVars, BeginExtraction, Inflate, StreamEnds, TakeEntry, FinishWrite,
                LoopThrows, EntriesEnd, PersistFiles, CallbackEnds, RemoveDirectory, StreamBreaks, Leak
  <2> QED BY <1>1, <2>1
<1> QED BY <1>2, <1>3, <1>4, <1>5, <1>6 DEF ExtractionNext, AttemptStep

LEMMA RowsAlways == ExtractionSpec => [](ExtractionInv /\ RowsInv)
<1>1. ExtractionInit => RowsInv
  <2>1. IsFiniteSet({}) /\ [i \in {} |-> "unread"] \in [{} -> FileStates] /\ [i \in {} |-> "OK"] \in [{} -> FileStates]
    BY FS_EmptySet
  <2>2. [i \in {} |-> "unread"] \in FiniteMaps /\ [i \in {} |-> "OK"] \in FiniteMaps
    BY <2>1, FiniteMapIntro
  <2> QED BY <2>2 DEF ExtractionInit, RowsInv
<1> QED BY <1>1, RowsStep, ExtractionInitInv, ExtractionStep, PTL DEF ExtractionSpec

(* Of an attempt that a step leaves alone nothing changes.                 *)
Untouched(b) ==
  /\ archive' = archive /\ phase'[b] = phase[b] /\ inflated'[b] = inflated[b] /\ stream'[b] = stream[b]
  /\ taken'[b] = taken[b] /\ writing'[b] = writing[b] /\ rows'[b] = rows[b] /\ parsed'[b] = parsed[b]

LEMMA UntouchedKeepsWork ==
  ASSUME NEW b, Untouched(b)
  PROVE  PhasesLeft(b)' = PhasesLeft(b) /\ WorkLeft(b)' = WorkLeft(b)
<1>1. PhasesLeft(b)' = PhasesLeft(b)
  BY DEF Untouched, PhasesLeft
<1>2. EntriesLeft(b)' = EntriesLeft(b)
  BY DEF Untouched, EntriesLeft
<1>3. Unread(b)' = Unread(b) /\ Unparsed(b)' = Unparsed(b)
  BY DEF Untouched, Unread, Unparsed
<1> QED BY <1>1, <1>2, <1>3 DEF Untouched, WorkLeft

TakesAStep(a) == BeginExtraction(a) \/ AttemptStep(a) \/ StreamBreaks(a) \/ Leak(a)

LEMMA OthersUntouched ==
  ASSUME ExtractionInv, RowsInv, NEW a \in Attempts, TakesAStep(a), NEW b \in Attempts \ {a}
  PROVE  Untouched(b)
<1> USE DEF ExtractionInv, ExtractionTypes, RowsInv, Untouched, During, Then, Throw, streamVars, loopVars,
            treeVars, callbackVars
<1>1. CASE BeginExtraction(a) \/ EntriesEnd(a) \/ LoopThrows(a) \/ Leak(a)
  BY <1>1 DEF BeginExtraction, EntriesEnd, LoopThrows, Leak
<1>2. CASE Inflate(a) \/ StreamEnds(a) \/ StreamBreaks(a)
  BY <1>2 DEF Inflate, StreamEnds, StreamBreaks
<1>3. CASE TakeEntry(a) \/ FinishWrite(a)
  BY <1>3 DEF TakeEntry, FinishWrite
<1>4. CASE ListTree(a) \/ WalkFile(a) \/ ParseTheFile(a)
  BY <1>4 DEF ListTree, WalkFile, ParseTheFile
<1>5. CASE PersistFiles(a) \/ CallbackEnds(a) \/ RemoveDirectory(a)
  BY <1>5 DEF PersistFiles, CallbackEnds, RemoveDirectory
<1> QED BY <1>1, <1>2, <1>3, <1>4, <1>5 DEF TakesAStep, AttemptStep

LEMMA WorkIsANumber ==
  ASSUME ExtractionInv, RowsInv, NEW a \in Attempts
  PROVE  /\ EntriesLeft(a) \in Nat /\ WorkLeft(a) \in Nat
         /\ IsFiniteSet(Unread(a)) /\ IsFiniteSet(Unparsed(a))
<1>1. EntriesLeft(a) \in Nat
  <2>1. /\ Len(archive) \in Nat /\ inflated[a] \in 0 .. Len(archive) /\ taken[a] \in 0 .. Len(archive)
    BY DEF ExtractionInv, ExtractionTypes
  <2> QED BY <2>1 DEF EntriesLeft
<1>2. IsFiniteSet(DOMAIN rows[a])
  BY FiniteMapFacts DEF RowsInv
<1>3. Unread(a) \subseteq DOMAIN rows[a] /\ Unparsed(a) \subseteq DOMAIN rows[a]
  BY DEF Unread, Unparsed
<1>4. IsFiniteSet(Unread(a)) /\ IsFiniteSet(Unparsed(a))
  BY <1>2, <1>3, FS_Subset
<1>5. Cardinality(Unread(a)) \in Nat /\ Cardinality(Unparsed(a)) \in Nat
  BY <1>4, FS_CardinalityType
<1> QED BY <1>1, <1>4, <1>5 DEF WorkLeft

LEMMA FewerLeft ==
  ASSUME NEW S, IsFiniteSet(S), NEW x \in S
  PROVE  Cardinality(S \ {x}) < Cardinality(S)
<1>1. Cardinality(S \ {x}) = Cardinality(S) - 1 /\ Cardinality(S) \in Nat
  BY FS_RemoveElement, FS_CardinalityType
<1> QED BY <1>1

LEMMA StepsGetOn ==
  ASSUME ExtractionInv, RowsInv, NEW a \in Attempts, TakesAStep(a)
  PROVE  \/ PhasesLeft(a)' < PhasesLeft(a)
         \/ PhasesLeft(a)' = PhasesLeft(a) /\ WorkLeft(a)' < WorkLeft(a)
<1> DEFINE Done == \/ PhasesLeft(a)' < PhasesLeft(a)
                   \/ PhasesLeft(a)' = PhasesLeft(a) /\ WorkLeft(a)' < WorkLeft(a)
<1> SUFFICES Done
  OBVIOUS
<1>1. /\ phase \in [Attempts -> Phases] /\ Len(archive) \in Nat
      /\ inflated \in [Attempts -> 0 .. Len(archive)] /\ taken \in [Attempts -> 0 .. Len(archive)]
      /\ stream \in [Attempts -> {"flows", "ends", "tooLarge", "broken"}]
      /\ writing \in [Attempts -> BOOLEAN]
  BY DEF ExtractionInv, ExtractionTypes
<1>2. /\ phase'[a] = phase[a] => PhasesLeft(a)' = PhasesLeft(a)
      /\ EntriesLeft(a)' < EntriesLeft(a) /\ phase'[a] = phase[a] /\ phase[a] = "extracting" => Done
  BY DEF PhasesLeft, WorkLeft
<1>3. phase[a] = "extracting" /\ phase' = [phase EXCEPT ![a] = "removing"] => PhasesLeft(a)' < PhasesLeft(a)
  BY <1>1 DEF PhasesLeft, Phases
<1> HIDE DEF Done
<1>4. (PhasesLeft(a)' < PhasesLeft(a)) => Done
  BY DEF Done
<1>5. CASE \/ BeginExtraction(a) \/ LoopThrows(a) \/ EntriesEnd(a) \/ ListTree(a) \/ PersistFiles(a)
           \/ CallbackEnds(a) \/ RemoveDirectory(a) \/ Leak(a)
  <2>1. PICK p \in Phases :
          /\ phase' = [phase EXCEPT ![a] = p]
          /\ \/ phase[a] = "unused" /\ p = "extracting"
             \/ phase[a] = "extracting" /\ p \in {"removing", "listing"}
             \/ phase[a] \in {"listing", "walking", "parsing"} /\ p = "removing"
             \/ phase[a] = "listing" /\ p = "walking"
             \/ phase[a] = "walking" /\ p = "parsing"
             \/ phase[a] = "removing" /\ p = "ended"
             \/ phase[a] \notin {"unused", "ended", "leaked"} /\ p = "leaked"
    <3> USE DEF During, Then, Throw, InCallback, Phases
    <3>1. CASE BeginExtraction(a)
      BY <3>1 DEF BeginExtraction
    <3>2. CASE LoopThrows(a)
      BY <3>2 DEF LoopThrows
    <3>3. CASE EntriesEnd(a)
      BY <3>3 DEF EntriesEnd
    <3>4. CASE ListTree(a)
      BY <3>4 DEF ListTree
    <3>5. CASE PersistFiles(a)
      BY <3>5 DEF PersistFiles
    <3>6. CASE CallbackEnds(a)
      BY <3>6 DEF CallbackEnds
    <3>7. CASE RemoveDirectory(a)
      BY <3>7 DEF RemoveDirectory
    <3>8. CASE Leak(a)
      BY <3>8 DEF Leak
    <3> QED BY <1>5, <3>1, <3>2, <3>3, <3>4, <3>5, <3>6, <3>7, <3>8
  <2>2. phase'[a] = p
    BY <1>1, <2>1
  <2>3. PhasesLeft(a)' < PhasesLeft(a)
    <3>1. phase[a] \in Phases
      BY <1>1
    <3>2. CASE p \in {"ended", "leaked"}
      BY <2>1, <2>2, <3>1, <3>2 DEF PhasesLeft, Phases
    <3>3. CASE p = "removing"
      BY <2>1, <2>2, <3>3 DEF PhasesLeft
    <3>4. CASE p \in {"extracting", "listing", "walking", "parsing"}
      BY <2>1, <2>2, <3>4 DEF PhasesLeft
    <3> QED BY <2>1, <3>2, <3>3, <3>4
  <2> QED BY <1>4, <2>3
<1>6. CASE Inflate(a) \/ StreamEnds(a) \/ StreamBreaks(a)
  <2>1. /\ archive' = archive /\ phase' = phase /\ phase[a] = "extracting" /\ stream[a] = "flows"
        /\ UNCHANGED <<taken, writing>>
        /\ \/ inflated' = [inflated EXCEPT ![a] = @ + 1] /\ UNCHANGED stream
           \/ \E s \in {"tooLarge", "ends", "broken"} : stream' = [stream EXCEPT ![a] = s] /\ UNCHANGED inflated
    BY <1>6 DEF Inflate, StreamEnds, StreamBreaks, During, loopVars
  <2>2. \/ inflated'[a] = inflated[a] + 1 /\ stream'[a] = "flows"
        \/ inflated'[a] = inflated[a] /\ stream'[a] # "flows"
    BY <1>1, <2>1
  <2>3. EntriesLeft(a)' < EntriesLeft(a)
    BY <1>1, <2>1, <2>2 DEF EntriesLeft
  <2> QED BY <1>2, <2>1, <2>3
<1>7. CASE TakeEntry(a)
  <2>1. \/ phase' = [phase EXCEPT ![a] = "removing"]
        \/ /\ phase' = phase /\ taken' = [taken EXCEPT ![a] = @ + 1]
           /\ \E w \in BOOLEAN : writing' = [writing EXCEPT ![a] = w]
    BY <1>7 DEF TakeEntry, Throw, Then
  <2>2. archive' = archive /\ phase[a] = "extracting" /\ ~writing[a] /\ UNCHANGED <<inflated, stream>>
    BY <1>7 DEF TakeEntry, During, streamVars
  <2>3. CASE phase' = [phase EXCEPT ![a] = "removing"]
    BY <1>3, <1>4, <2>2, <2>3 DEF Phases
  <2>4. CASE /\ phase' = phase /\ taken' = [taken EXCEPT ![a] = @ + 1]
             /\ \E w \in BOOLEAN : writing' = [writing EXCEPT ![a] = w]
    <3>1. EntriesLeft(a)' < EntriesLeft(a)
      BY <1>1, <2>2, <2>4 DEF EntriesLeft
    <3> QED BY <1>2, <2>2, <2>4, <3>1
  <2> QED BY <2>1, <2>3, <2>4
<1>8. CASE FinishWrite(a)
  <2>1. /\ archive' = archive /\ phase' = phase /\ phase[a] = "extracting" /\ writing[a] /\ ~writing'[a]
        /\ UNCHANGED <<inflated, stream, taken>>
    BY <1>1, <1>8 DEF FinishWrite, During, streamVars
  <2>2. EntriesLeft(a)' < EntriesLeft(a)
    BY <1>1, <2>1 DEF EntriesLeft
  <2> QED BY <1>2, <2>1, <2>2
<1>9. CASE WalkFile(a)
  <2>1. phase' = phase /\ phase[a] = "walking" /\ PhasesLeft(a)' = PhasesLeft(a)
    BY <1>2, <1>9 DEF WalkFile, During
  <2>2. PICK i \in DOMAIN rows[a], b \in FileStates \ {"unread"} :
          rows[a][i] = "unread" /\ rows' = [rows EXCEPT ![a][i] = b]
    <3>1. PICK i \in DOMAIN rows[a] :
            /\ rows[a][i] = "unread"
            /\ \/ rows' = [rows EXCEPT ![a][i] = Bucket(archive[i])]
               \/ rows' = [rows EXCEPT ![a][i] = "FAILED"]
      BY <1>9 DEF WalkFile
    <3>2. Bucket(archive[i]) \in FileStates \ {"unread"} /\ "FAILED" \in FileStates \ {"unread"}
      BY DEF Bucket, FileStates
    <3> QED BY <3>1, <3>2
  <2>3. rows'[a] = [rows[a] EXCEPT ![i] = b]
    BY <2>2 DEF RowsInv
  <2>4. Unread(a)' = Unread(a) \ {i} /\ i \in Unread(a)
    BY <2>2, <2>3 DEF Unread
  <2>5. IsFiniteSet(Unread(a))
    BY WorkIsANumber
  <2>6. Cardinality(Unread(a)') < Cardinality(Unread(a))
    BY <2>4, <2>5, FewerLeft
  <2>7. WorkLeft(a)' < WorkLeft(a)
    BY <2>1, <2>6 DEF WorkLeft
  <2> QED BY <2>1, <2>7 DEF Done
<1>10. CASE ParseTheFile(a)
  <2>1. phase' = phase /\ phase[a] = "parsing" /\ rows' = rows /\ PhasesLeft(a)' = PhasesLeft(a)
    BY <1>2, <1>10 DEF ParseTheFile, During
  <2>2. PICK i \in DOMAIN rows[a] \ DOMAIN parsed[a] : \E s :
          parsed' = [parsed EXCEPT ![a] = [j \in DOMAIN @ \cup {i} |-> IF j = i THEN s ELSE @[j]]]
    BY <1>10 DEF ParseTheFile
  <2>3. DOMAIN parsed'[a] = DOMAIN parsed[a] \cup {i}
    BY <2>2 DEF RowsInv
  <2>4. Unparsed(a)' = Unparsed(a) \ {i} /\ i \in Unparsed(a)
    BY <2>1, <2>2, <2>3 DEF Unparsed
  <2>5. IsFiniteSet(Unparsed(a))
    BY WorkIsANumber
  <2>6. Cardinality(Unparsed(a)') < Cardinality(Unparsed(a))
    BY <2>4, <2>5, FewerLeft
  <2>7. WorkLeft(a)' < WorkLeft(a)
    BY <2>1, <2>6 DEF WorkLeft
  <2> QED BY <2>1, <2>7 DEF Done
<1> QED BY <1>5, <1>6, <1>7, <1>8, <1>9, <1>10 DEF TakesAStep, AttemptStep

(* For every archive and every number of overlapping attempts.             *)
THEOREM AttemptsAlwaysWindDown == ExtractionSpec => AttemptsWindDown
<1> DEFINE Down(a) ==
      /\ PhasesLeft(a)' <= PhasesLeft(a)
      /\ WorkLeft(a) \in Nat
      /\ PhasesLeft(a)' = PhasesLeft(a) => WorkLeft(a)' <= WorkLeft(a)
      /\ BeginExtraction(a) \/ AttemptStep(a) \/ StreamBreaks(a) \/ Leak(a) =>
           \/ PhasesLeft(a)' < PhasesLeft(a)
           \/ WorkLeft(a)' < WorkLeft(a)
<1>1. ASSUME ExtractionInv, RowsInv, ExtractionInv', RowsInv', ExtractionNext, NEW a \in Attempts PROVE Down(a)
  <2>1. /\ WorkLeft(a) \in Nat /\ WorkLeft(a)' \in Nat /\ PhasesLeft(a) \in Nat /\ PhasesLeft(a)' \in Nat
    <3>1. PhasesLeft(a) \in Nat /\ PhasesLeft(a)' \in Nat
      BY DEF PhasesLeft
    <3>2. WorkLeft(a) \in Nat
      BY <1>1, WorkIsANumber
    <3>3. (ExtractionInv /\ RowsInv => WorkLeft(a) \in Nat)'
      BY WorkIsANumber, PTL
    <3> QED BY <1>1, <3>1, <3>2, <3>3
  <2>2. PICK b \in Attempts : TakesAStep(b)
    BY <1>1 DEF ExtractionNext, TakesAStep
  <2>3. CASE a = b
    BY <1>1, <2>1, <2>2, <2>3, StepsGetOn
  <2>4. CASE a # b
    <3>1. PhasesLeft(a)' = PhasesLeft(a) /\ WorkLeft(a)' = WorkLeft(a)
      BY <1>1, <2>2, <2>4, OthersUntouched, UntouchedKeepsWork
    <3>2. ~TakesAStep(a)
      <4>1. SUFFICES ASSUME TakesAStep(a) PROVE FALSE
        OBVIOUS
      <4>2. PhasesLeft(a)' < PhasesLeft(a) \/ WorkLeft(a)' < WorkLeft(a)
        BY <1>1, <4>1, StepsGetOn
      <4> QED BY <2>1, <3>1, <4>2
    <3> QED BY <2>1, <3>1, <3>2 DEF TakesAStep
  <2> QED BY <2>3, <2>4
<1>2. /\ ExtractionInv /\ RowsInv /\ (ExtractionInv /\ RowsInv)' /\ [ExtractionNext]_extractionVars
        => [\A a \in Attempts : Down(a)]_extractionVars
  BY <1>1
<1> QED BY <1>2, RowsAlways, PTL DEF ExtractionSpec, AttemptsWindDown

(***************************************************************************)
(* ParserPool.                                                             *)
(***************************************************************************)

Promises == {"none", "waits", "pending", "fulfilled", "rejected"}

(* A promise is created once, and what it starts is started once.          *)
PoolInv ==
  /\ languagePromise \in [Languages -> Promises] /\ parserPromise \in [Languages -> Promises]
  /\ loads \in [Languages -> {0, 1}]
  /\ inits = IF initPromise = "none" THEN 0 ELSE 1
  /\ \A l \in Languages : languagePromise[l] \in {"none", "waits"} => loads[l] = 0

LEMMA PoolInitInv == PoolInit => PoolInv
BY DEF PoolInit, PoolInv, Promises

LEMMA PoolStep == PoolInv /\ [PoolNext]_poolVars => PoolInv'
<1>. SUFFICES ASSUME PoolInv, [PoolNext]_poolVars PROVE PoolInv'
  OBVIOUS
<1>. USE DEF PoolInv, Promises
<1>1. ASSUME NEW c \in Parses, CallParse(c) PROVE PoolInv'
  BY <1>1 DEF CallParse, getParser, loadLanguage, ensureInitialized
<1>2. ASSUME NEW c \in Parses, RefuseContent(c) \/ Parse(c) \/ ParserMissing(c) PROVE PoolInv'
  BY <1>2 DEF RefuseContent, Parse, ParserMissing
<1>3. ASSUME NEW l \in Languages, StartLoading(l) PROVE PoolInv'
  BY <1>3 DEF StartLoading, Settled
<1>4. ASSUME NEW l \in Languages, GrammarSettles(l) PROVE PoolInv'
  BY <1>4 DEF GrammarSettles
<1>5. ASSUME NEW l \in Languages, ParserSettles(l) PROVE PoolInv'
  BY <1>5 DEF ParserSettles, Settled
<1>6. CASE RuntimeSettles
  BY <1>6 DEF RuntimeSettles
<1>7. CASE UNCHANGED poolVars
  BY <1>7 DEF poolVars
<1>. QED BY <1>1, <1>2, <1>3, <1>4, <1>5, <1>6, <1>7 DEF PoolNext

(* A process starts the runtime once and loads each grammar once.          *)
THEOREM PoolLoadsOnce == PoolSpec => []LoadedOnce
<1>1. PoolInv => LoadedOnce
  BY DEF PoolInv, LoadedOnce
<1>. QED BY <1>1, PoolInitInv, PoolStep, PTL DEF PoolSpec

(* Whoever awaits a promise awaits one that somebody made.                 *)
AwaitedInv ==
  /\ initPromise \in {"none", "pending", "fulfilled", "rejected"}
  /\ \A l \in Languages :
       /\ parserPromise[l] # "pending"
       /\ parserPromise[l] # "none" => languagePromise[l] # "none"
       /\ languagePromise[l] # "none" => initPromise # "none"
  /\ \A c \in Parses : parse[c] = "awaits" =>
       languageOf[c] \in Languages /\ parserPromise[languageOf[c]] # "none"
  /\ parse \in [Parses -> {"new", "awaits", "parsed", "failed"}]
  /\ languageOf \in [Parses -> {CHOOSE l \in Languages : TRUE} \cup Languages]

(* A call that awaits a parser always awaits something that settles: the   *)
(* parser has, or its grammar has, or the runtime has, or one of the two   *)
(* loads.  Nobody awaits a promise that was never started, however calls   *)
(* and failures interleave.                                                *)
NobodyAwaitsNothing ==
  \A c \in Parses : parse[c] = "awaits" =>
    \E l \in Languages :
      /\ l = languageOf[c]
      /\ \/ Settled(parserPromise[l])
         \/ parserPromise[l] = "waits" /\ Settled(languagePromise[l])
         \/ languagePromise[l] = "waits" /\ Settled(initPromise)
         \/ "pending" \in {languagePromise[l], initPromise}

(* A promise that is settled stays as it is, and a call that ended does    *)
(* not begin again: each step of the pool settles more.                    *)
PromisesSettleOnce ==
  [][/\ Settled(initPromise) => initPromise' = initPromise
     /\ \A l \in Languages :
          /\ Settled(languagePromise[l]) => languagePromise'[l] = languagePromise[l]
          /\ Settled(parserPromise[l]) => parserPromise'[l] = parserPromise[l]
     /\ \A c \in Parses : parse[c] \in {"parsed", "failed"} => parse'[c] = parse[c]]_poolVars

LEMMA AwaitedStep == PoolInv /\ AwaitedInv /\ [PoolNext]_poolVars => AwaitedInv'
<1> SUFFICES ASSUME PoolInv, AwaitedInv, [PoolNext]_poolVars PROVE AwaitedInv'
  OBVIOUS
<1> USE DEF PoolInv, AwaitedInv, Promises
<1>1. ASSUME NEW c \in Parses, CallParse(c) PROVE AwaitedInv'
  <2>1. PICK l \in Languages : languageOf' = [languageOf EXCEPT ![c] = l] /\ getParser(l)
    BY <1>1 DEF CallParse
  <2>2. parse[c] = "new" /\ parse' = [parse EXCEPT ![c] = "awaits"]
    BY <1>1 DEF CallParse
  <2>3. CASE parserPromise[l] = "none"
    <3>1. parserPromise' = [parserPromise EXCEPT ![l] = "waits"] /\ loadLanguage(l)
      BY <2>1, <2>3 DEF getParser
    <3>2. CASE languagePromise[l] = "none"
      BY <2>1, <2>2, <3>1, <3>2 DEF loadLanguage, ensureInitialized
    <3>3. CASE languagePromise[l] # "none"
      BY <2>1, <2>2, <3>1, <3>3 DEF loadLanguage
    <3> QED BY <3>2, <3>3
  <2>4. CASE parserPromise[l] # "none"
    BY <2>1, <2>2, <2>4 DEF getParser
  <2> QED BY <2>3, <2>4
<1>2. ASSUME NEW c \in Parses, RefuseContent(c) \/ Parse(c) \/ ParserMissing(c) PROVE AwaitedInv'
  BY <1>2 DEF RefuseContent, Parse, ParserMissing
<1>3. ASSUME NEW l \in Languages, StartLoading(l) PROVE AwaitedInv'
  BY <1>3 DEF StartLoading, Settled
<1>4. ASSUME NEW l \in Languages, GrammarSettles(l) PROVE AwaitedInv'
  BY <1>4 DEF GrammarSettles
<1>5. ASSUME NEW l \in Languages, ParserSettles(l) PROVE AwaitedInv'
  BY <1>5 DEF ParserSettles, Settled
<1>6. CASE RuntimeSettles
  BY <1>6 DEF RuntimeSettles
<1>7. CASE UNCHANGED poolVars
  BY <1>7 DEF poolVars
<1> QED BY <1>1, <1>2, <1>3, <1>4, <1>5, <1>6, <1>7 DEF PoolNext

LEMMA AwaitedAlways == PoolSpec => [](PoolInv /\ AwaitedInv)
<1>1. PoolInit => AwaitedInv
  BY DEF PoolInit, AwaitedInv
<1> QED BY <1>1, PoolInitInv, PoolStep, AwaitedStep, PTL DEF PoolSpec

(* No set of calls waits for each other.                                   *)
THEOREM CallsAreNeverStuck == PoolSpec => []NobodyAwaitsNothing
<1>1. PoolInv /\ AwaitedInv => NobodyAwaitsNothing
  BY DEF PoolInv, AwaitedInv, Promises, NobodyAwaitsNothing, Settled
<1> QED BY <1>1, AwaitedAlways, PTL

(* What settles stays, so that a call takes part in finitely many steps.   *)
THEOREM PromisesAlwaysSettleOnce == PoolSpec => PromisesSettleOnce
<1> DEFINE Once ==
      /\ Settled(initPromise) => initPromise' = initPromise
      /\ \A l \in Languages :
           /\ Settled(languagePromise[l]) => languagePromise'[l] = languagePromise[l]
           /\ Settled(parserPromise[l]) => parserPromise'[l] = parserPromise[l]
      /\ \A c \in Parses : parse[c] \in {"parsed", "failed"} => parse'[c] = parse[c]
<1>1. ASSUME PoolInv, AwaitedInv, PoolNext PROVE Once
  <2> USE <1>1 DEF PoolInv, AwaitedInv, Promises, Settled
  <2>1. ASSUME NEW c \in Parses, CallParse(c) PROVE Once
    <3>1. PICK l \in Languages : getParser(l)
      BY <2>1 DEF CallParse
    <3>2. parse[c] = "new" /\ parse' = [parse EXCEPT ![c] = "awaits"]
      BY <2>1 DEF CallParse
    <3>3. initPromise # "none" => initPromise' = initPromise
      BY <3>1 DEF getParser, loadLanguage, ensureInitialized
    <3>4. \A k \in Languages : languagePromise[k] # "none" => languagePromise'[k] = languagePromise[k]
      BY <3>1 DEF getParser, loadLanguage
    <3>5. \A k \in Languages : parserPromise[k] # "none" => parserPromise'[k] = parserPromise[k]
      BY <3>1 DEF getParser
    <3> QED BY <3>2, <3>3, <3>4, <3>5
  <2>2. ASSUME NEW c \in Parses, RefuseContent(c) \/ Parse(c) \/ ParserMissing(c) PROVE Once
    <3>1. /\ UNCHANGED <<initPromise, languagePromise, parserPromise>>
          /\ parse[c] \in {"new", "awaits"}
          /\ \E s \in {"parsed", "failed"} : parse' = [parse EXCEPT ![c] = s]
      BY <2>2 DEF RefuseContent, Parse, ParserMissing
    <3>2. PICK s \in {"parsed", "failed"} : parse' = [parse EXCEPT ![c] = s]
      BY <3>1
    <3> QED BY <3>1, <3>2
  <2>3. ASSUME NEW l \in Languages, StartLoading(l) \/ GrammarSettles(l) \/ ParserSettles(l) PROVE Once
    <3>1. CASE StartLoading(l)
      BY <3>1 DEF StartLoading
    <3>2. CASE GrammarSettles(l)
      BY <3>2 DEF GrammarSettles
    <3>3. CASE ParserSettles(l)
      BY <3>3 DEF ParserSettles
    <3> QED BY <2>3, <3>1, <3>2, <3>3
  <2>4. CASE RuntimeSettles
    BY <2>4 DEF RuntimeSettles
  <2> QED BY <1>1, <2>1, <2>2, <2>3, <2>4 DEF PoolNext
<1>2. PoolInv /\ AwaitedInv /\ [PoolNext]_poolVars => [Once]_poolVars
  BY <1>1
<1> QED BY <1>2, AwaitedAlways, PTL DEF PoolSpec, PromisesSettleOnce
=============================================================================
