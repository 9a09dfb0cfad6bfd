------------------------- MODULE ArchiveExtraction -------------------------
(***************************************************************************)
(* extractRepositoryArchive: a tarball becomes a tree in a directory, the  *)
(* callback reads the tree twice (walkTree, then the parser), and the      *)
(* directory goes.  The stream runs ahead of the loop over its entries.    *)
(* Attempts of the step for one index job may overlap, when Inngest starts *)
(* one while an earlier one that it gave up on still runs.                 *)
(*                                                                         *)
(* An archive is a sequence of entries: kind is what the checks of the     *)
(* loop make of an entry, marks are what the filters look for in a file.   *)
(* The rows that the callback writes are GraphRebuild's.                   *)
(***************************************************************************)
EXTENDS Naturals, FiniteSets, Sequences

CONSTANTS
  Attempts,
  ARCHIVES,               \* archives GitHub may send, sequences of ArchiveEntry
  INDEX_MAX_TOTAL_BYTES, INDEX_MAX_FILE_COUNT,
  SIZE_CAP_BYTES,         \* of a file that is read into memory
  READ_AHEAD              \* entries the stream may be ahead of the loop

VARIABLES
  archive,   \* the archive of the job's commit
  phase,     \* phase[a]: what attempt a does; see Phases
  inflated,  \* inflated[a]: entries that passed the byte counter
  stream,    \* stream[a]: "flows", "ends", "tooLarge" or "broken"
  taken,     \* taken[a]: entries the loop has taken
  writing,   \* writing[a]: whether the last of them is being written
  dirs,      \* the directories that exist
  disk,      \* disk[d]: the files that are whole in directory d
  rows,      \* rows[a]: the bucket of each file the walk has listed, or "unread"
  parsed     \* parsed[a]: the parse state of each file the parser has read

streamVars == <<inflated, stream>>
loopVars == <<taken, writing>>
treeVars == <<dirs, disk>>
callbackVars == <<rows, parsed>>
extractionVars == <<archive, phase, streamVars, loopVars, treeVars, callbackVars>>

Phases == {"unused", "extracting", "listing", "walking", "parsing", "removing", "ended", "leaked"}
ArchiveEntry == [kind : {"file", "directory", "declined", "outside"}, size : Nat,
          marks : SUBSET {"hardIgnored", "generated", "vendored", "nul", "minified"}]

ASSUME ArchiveConstants ==
  /\ ARCHIVES \subseteq Seq(ArchiveEntry) \ {<<>>}   \* the root has an entry
  /\ INDEX_MAX_TOTAL_BYTES \in Nat /\ INDEX_MAX_FILE_COUNT \in Nat
  /\ SIZE_CAP_BYTES \in Nat /\ READ_AHEAD \in Nat \ {0}

(* The size of the first n entries.                                        *)
Bytes(n) ==
  LET sum[i \in 0 .. Len(archive)] == IF i = 0 THEN 0 ELSE sum[i - 1] + archive[i].size
  IN sum[n]
Exceeds(n) == Bytes(n) > INDEX_MAX_TOTAL_BYTES
FilesOf == {i \in DOMAIN archive : archive[i].kind = "file"}

BugOneDir(a) == CHOOSE b \in Attempts : TRUE

(* repo-index-<job>-<random>: no two attempts share a directory.           *)
DirOf(a) == a

During(a, what) == phase[a] = what
Then(a, what) == phase' = [phase EXCEPT ![a] = what]
InCallback(a) == phase[a] \in {"listing", "walking", "parsing"}

BugEndsOnError(a) == Then(a, "ended")

(* The finally block runs whatever was thrown.                             *)
Throw(a) == Then(a, "removing")
-----------------------------------------------------------------------------
BeginExtraction(a) ==
  /\ During(a, "unused")
  /\ Then(a, "extracting")
  /\ dirs' = dirs \cup {DirOf(a)}
  /\ UNCHANGED <<archive, streamVars, loopVars, disk, callbackVars>>

(* The pipeline: download, gunzip, count, parse the tar.                   *)

Inflate(a) ==
  /\ During(a, "extracting") /\ stream[a] = "flows"
  /\ inflated[a] < Len(archive) /\ inflated[a] < taken[a] + READ_AHEAD
  /\ IF Exceeds(inflated[a] + 1)
       THEN stream' = [stream EXCEPT ![a] = "tooLarge"] /\ UNCHANGED inflated
       ELSE inflated' = [inflated EXCEPT ![a] = @ + 1] /\ UNCHANGED stream
  /\ UNCHANGED <<archive, phase, loopVars, treeVars, callbackVars>>

StreamEnds(a) ==
  /\ During(a, "extracting") /\ stream[a] = "flows" /\ inflated[a] = Len(archive)
  /\ stream' = [stream EXCEPT ![a] = "ends"]
  /\ UNCHANGED <<archive, phase, inflated, loopVars, treeVars, callbackVars>>

(* The connection is reset or times out, or the gzip data is corrupt.      *)
StreamBreaks(a) ==
  /\ During(a, "extracting") /\ stream[a] = "flows"
  /\ stream' = [stream EXCEPT ![a] = "broken"]
  /\ UNCHANGED <<archive, phase, inflated, loopVars, treeVars, callbackVars>>

(* The loop.  It takes an entry when its header came; the bytes of those   *)
(* it took before were written or drained, so they passed the counter.     *)

TakeEntry(a) ==
  /\ During(a, "extracting") /\ ~writing[a] /\ stream[a] \in {"flows", "ends"}
  /\ taken[a] < Len(archive) /\ taken[a] <= inflated[a]
  /\ LET e == archive[taken[a] + 1]
         refused == \/ taken[a] + 1 > INDEX_MAX_FILE_COUNT
                    \/ e.size > INDEX_MAX_TOTAL_BYTES
                    \/ e.kind = "outside"
     IN IF refused
          THEN Throw(a) /\ UNCHANGED <<loopVars, disk>>
          ELSE /\ taken' = [taken EXCEPT ![a] = @ + 1]
               /\ writing' = [writing EXCEPT ![a] = e.kind = "file"]
               /\ disk' = [disk EXCEPT ![DirOf(a)] =
                    IF e.kind = "file" THEN @ \ {taken[a] + 1} ELSE @]
               /\ UNCHANGED phase
  /\ UNCHANGED <<archive, streamVars, dirs, callbackVars>>

FinishWrite(a) ==
  /\ During(a, "extracting") /\ writing[a] /\ taken[a] <= inflated[a]
  /\ disk' = [disk EXCEPT ![DirOf(a)] = @ \cup {taken[a]}]
  /\ writing' = [writing EXCEPT ![a] = FALSE]
  /\ UNCHANGED <<archive, phase, streamVars, taken, dirs, callbackVars>>

(* The write of a file, the mkdir of a directory, or the stream failed.    *)
MakesDirectory(a) ==
  /\ stream[a] \in {"flows", "ends"} /\ taken[a] < Len(archive) /\ taken[a] <= inflated[a]
  /\ archive[taken[a] + 1].kind = "directory"

LoopThrows(a) ==
  /\ During(a, "extracting")
  /\ writing[a] \/ MakesDirectory(a) \/ stream[a] \in {"tooLarge", "broken"}
  /\ Throw(a)
  /\ UNCHANGED <<archive, streamVars, loopVars, treeVars, callbackVars>>

BugTrustsTheLoop(a) ==
  /\ During(a, "extracting") /\ ~writing[a]
  /\ taken[a] = Len(archive) /\ inflated[a] = Len(archive)
  /\ Then(a, "listing")
  /\ UNCHANGED <<archive, streamVars, loopVars, treeVars, callbackVars>>

(* The pipeline's own end is awaited before the callback gets the tree.    *)
EntriesEnd(a) ==
  /\ During(a, "extracting") /\ ~writing[a]
  /\ taken[a] = Len(archive) /\ stream[a] = "ends"
  /\ Then(a, "listing")
  /\ UNCHANGED <<archive, streamVars, loopVars, treeVars, callbackVars>>
-----------------------------------------------------------------------------
(* The callback.                                                           *)

(* classifyIgnore, then classify: the first filter that matches decides.   *)
Bucket(e) ==
  IF "generated" \in e.marks THEN "SKIPPED_GENERATED"
  ELSE IF "vendored" \in e.marks THEN "SKIPPED_VENDORED"
  ELSE IF e.size > SIZE_CAP_BYTES THEN "SKIPPED_TOO_LARGE"
  ELSE IF "nul" \in e.marks THEN "SKIPPED_BINARY"
  ELSE IF "minified" \in e.marks THEN "SKIPPED_MINIFIED" ELSE "INDEXED"

(* collectAllPaths: hard-ignored files are counted and get no row.         *)
ListTree(a) ==
  /\ During(a, "listing")
  /\ rows' = [rows EXCEPT ![a] =
       [i \in {j \in disk[DirOf(a)] : "hardIgnored" \notin archive[j].marks} |-> "unread"]]
  /\ Then(a, "walking")
  /\ UNCHANGED <<archive, streamVars, loopVars, treeVars, parsed>>

(* processFile: a file that cannot be read is FAILED, and the walk goes on.*)
WalkFile(a) ==
  /\ During(a, "walking")
  /\ \E i \in DOMAIN rows[a] :
       /\ rows[a][i] = "unread"
       /\ \/ i \in disk[DirOf(a)] /\ rows' = [rows EXCEPT ![a][i] = Bucket(archive[i])]
          \/ rows' = [rows EXCEPT ![a][i] = "FAILED"]
  /\ UNCHANGED <<archive, phase, streamVars, loopVars, treeVars, parsed>>

PersistFiles(a) ==
  /\ During(a, "walking") /\ \A i \in DOMAIN rows[a] : rows[a][i] # "unread"
  /\ Then(a, "parsing")
  /\ UNCHANGED <<archive, streamVars, loopVars, treeVars, callbackVars>>

(* parseOneFile reads the indexed files once more.                         *)
ParseTheFile(a) ==
  /\ During(a, "parsing")
  /\ \E i \in DOMAIN rows[a] \ DOMAIN parsed[a] :
       /\ rows[a][i] = "INDEXED"
       /\ \E state \in {"FAILED"} \cup (IF i \in disk[DirOf(a)] THEN {"OK"} ELSE {}) :
            parsed' = [parsed EXCEPT ![a] =
              [j \in DOMAIN @ \cup {i} |-> IF j = i THEN state ELSE @[j]]]
  /\ UNCHANGED <<archive, phase, streamVars, loopVars, treeVars, rows>>

(* The callback is done, or a statement of it throws.                      *)
CallbackEnds(a) ==
  /\ InCallback(a)
  /\ Then(a, "removing")
  /\ UNCHANGED <<archive, streamVars, loopVars, treeVars, callbackVars>>

RemoveDirectory(a) ==
  /\ During(a, "removing")
  /\ dirs' = dirs \ {DirOf(a)} /\ disk' = [disk EXCEPT ![DirOf(a)] = {}]
  /\ Then(a, "ended")
  /\ UNCHANGED <<archive, streamVars, loopVars, callbackVars>>

(* rm fails, which is logged, or the worker dies: the directory stays, and *)
(* nothing looks for it again.                                             *)
Leak(a) ==
  /\ phase[a] \notin {"unused", "ended", "leaked"}
  /\ Then(a, "leaked")
  /\ UNCHANGED <<archive, streamVars, loopVars, treeVars, callbackVars>>

AttemptStep(a) ==
  \/ Inflate(a) \/ StreamEnds(a) \/ TakeEntry(a) \/ FinishWrite(a) \/ LoopThrows(a) \/ EntriesEnd(a)
  \/ ListTree(a) \/ WalkFile(a) \/ PersistFiles(a) \/ ParseTheFile(a) \/ CallbackEnds(a)
  \/ RemoveDirectory(a)

ExtractionInit ==
  /\ archive \in ARCHIVES
  /\ phase = [a \in Attempts |-> "unused"]
  /\ inflated = [a \in Attempts |-> 0] /\ stream = [a \in Attempts |-> "flows"]
  /\ taken = [a \in Attempts |-> 0] /\ writing = [a \in Attempts |-> FALSE]
  /\ dirs = {} /\ disk = [a \in Attempts |-> {}]
  /\ rows = [a \in Attempts |-> [i \in {} |-> "unread"]]
  /\ parsed = [a \in Attempts |-> [i \in {} |-> "OK"]]

ExtractionNext ==
  \E a \in Attempts : BeginExtraction(a) \/ AttemptStep(a) \/ StreamBreaks(a) \/ Leak(a)

ExtractionSpec == ExtractionInit /\ [][ExtractionNext]_extractionVars
-----------------------------------------------------------------------------
(* A tree that is being read is whole: every file that the extraction did  *)
(* not decline is there, and nothing that another attempt of the job does  *)
(* - extracting, failing, removing - takes it away (archive-extractor.ts,  *)
(* the finally block and the name of the directory).                       *)
TreesStayWhole ==
  \A a \in Attempts : InCallback(a) => DirOf(a) \in dirs /\ disk[DirOf(a)] = FilesOf

(* Only an archive whose stream came to its end within the caps is read,   *)
(* and what is on disk meanwhile never exceeds them: the loop may see all  *)
(* entries before the stream fails (archive-extractor.ts:368-372).         *)
OnlyCheckedArchives ==
  \A a \in Attempts :
    /\ InCallback(a) =>
         /\ stream[a] = "ends" /\ \A i \in DOMAIN archive : archive[i].kind # "outside"
         /\ Len(archive) <= INDEX_MAX_FILE_COUNT /\ ~Exceeds(Len(archive))
    /\ \A i \in disk[DirOf(a)] : i <= INDEX_MAX_FILE_COUNT /\ ~Exceeds(i)

(* The directory of an attempt goes, whether it succeeds, is refused or    *)
(* fails half way, unless the removal fails or the worker dies.            *)
DirectoriesGo ==
  dirs # {} ~> \A a \in Attempts : DirOf(a) \notin dirs \/ phase[a] = "leaked"
=============================================================================
