---------------------------- MODULE GraphRebuild ----------------------------
(***************************************************************************)
(* indexRepository: the file, symbol and edge rows of one repository are   *)
(* replaced by those of a commit, in many transactions and none around     *)
(* them.  A rebuild may die before any of them (RebuildFails), rows stay   *)
(* behind, and the next one starts from those.  Inngest lets two rebuilds  *)
(* of a repository overlap, when a cancelled or timed out run goes on.     *)
(*                                                                         *)
(* The walk and the resolvers are functions of the commit: Tree(c) are the *)
(* paths that get a row, Source(c, p) what parsing and resolving p yields. *)
(* Start lines, signatures and confidences are left out, as is everything  *)
(* of a file row but its commit and the columns the graph fills.           *)
(***************************************************************************)
EXTENDS Integers, FiniteSets

CONSTANTS
  Rebuilds,      \* executions of indexRepository
  Commits, Paths, Names,
  NoCommit, NoRow, Null,
  Tree(_),       \* Tree(c): the paths of commit c that are not hard-ignored
  Source(_, _),  \* Source(c, p): see SourceType
  IMPORTABLE,    \* packages and specifiers of imports that resolve to no file
  ROW_BATCH,     \* rows per statement: 1000
  BATCH_SIZES,   \* files per parse batch, by attempt: 200, 100, 50
  ATTEMPTS,      \* attempts of the step: retries and rate-limit waits
  CONCURRENCY    \* rebuilds of a repository Inngest executes at once: 2

VARIABLES
  fileRow,     \* fileRow[p]: the RepositoryFile row of path p, or NoRow
  symbolRows,  \* CodeSymbol rows
  edgeRows,    \* CodeDependency rows
  at,          \* at[a]: what rebuild a does next
  goal,        \* goal[a]: the commit it rebuilds for
  batch,       \* batch[a]: its parse batch size
  left,        \* left[a]: paths its present loop has not reached
  found,       \* found[a]: the file ids it read back, by path
  pending,     \* pending[a]: edges it has resolved and not inserted
  counts,      \* counts[a]: inbound edges per path, as it counted them
  alone        \* alone[a]: no other rebuild was in progress since it began

graphRows == <<fileRow, symbolRows, edgeRows>>
rebuildVars == <<goal, batch, left, found, pending, counts, alone>>
graphVars == <<graphRows, at, rebuildVars>>

Kinds == {"CONTAINS", "EXPORTS", "IMPORTS", "EXTENDS", "IMPLEMENTS", "CALLS", "TESTS"}
Resolutions == {"RESOLVED", "EXTERNAL", "UNRESOLVED"}

(* A symbol, or a file if name is Null, or neither.                        *)
Places == [path : Paths \cup {Null}, name : Names \cup {Null}]

(* What a file contributes: the symbols it declares and exports, what its  *)
(* specifiers resolve to, and the heritage and call edges of its symbols.  *)
SourceType ==
  [parse : {"OK", "FAILED", "NOT_PARSED"}, isTest : BOOLEAN,
   declares : SUBSET Names, exports : SUBSET Names,
   imports : SUBSET [status : Resolutions, target : Paths \cup IMPORTABLE],
   uses : SUBSET [kind : {"EXTENDS", "IMPLEMENTS", "CALLS"}, from : Names,
                  to : [path : Paths, name : Names]]]

ASSUME GraphConstants ==
  /\ IsFiniteSet(Paths) /\ IsFiniteSet(Names) /\ IsFiniteSet(IMPORTABLE)
  /\ NoCommit \notin Commits /\ Null \notin Paths \cup Names
  /\ \A c \in Commits : Tree(c) \subseteq Paths
  /\ \A c \in Commits, p \in Paths : Source(c, p) \in SourceType
  /\ ROW_BATCH \in Nat \ {0} /\ ATTEMPTS \in Nat
  /\ BATCH_SIZES \in [0 .. 2 -> Nat \ {0}]

FileIds == [path : Paths, by : Rebuilds]
SymbolIds == [file : FileIds, name : Names, by : Rebuilds]
FileRows == [id : FileIds, sha : Commits, parse : {"OK", "FAILED", "NOT_PARSED"},
             symbols : Nat, inbound : Nat]
EdgeEnds == FileIds \cup SymbolIds \cup {Null}

ASSUME GraphIds == NoRow \notin FileRows
-----------------------------------------------------------------------------
(* The resolved graph of a commit, by name instead of by id.               *)

Symbols(c, p) == IF Source(c, p).parse = "OK" THEN Source(c, p).declares ELSE {}

File(p) == [path |-> p, name |-> Null]
Symbol(p, n) == [path |-> p, name |-> n]
Nowhere == [path |-> Null, name |-> Null]

Link(kind, from, to, label) == [kind |-> kind, from |-> from, to |-> to, label |-> label]

(* A resolved import whose target has no record points nowhere; one that   *)
(* is external or unresolved keeps its package or specifier.               *)
ImportLink(p, i, S) ==
  IF i.status = "RESOLVED"
    THEN Link("IMPORTS", File(p), IF i.target \in S THEN File(i.target) ELSE Nowhere, Null)
    ELSE Link("IMPORTS", File(p), Nowhere, i)

(* The edges pass 2 derives from the records of the files S.               *)
FileLinks(c, S, p) ==
  LET src == Source(c, p) IN
  {Link("CONTAINS", File(p), Symbol(p, n), Null) : n \in Symbols(c, p)} \cup
  {Link("EXPORTS", File(p), Symbol(p, n), Null) : n \in src.exports \cap Symbols(c, p)} \cup
  {ImportLink(p, i, S) : i \in src.imports} \cup
  {Link(u.kind, Symbol(p, u.from), u.to, Null) :
     u \in {v \in src.uses : /\ v.from \in Symbols(c, p) /\ v.to.path \in S
                             /\ v.to.name \in Symbols(c, v.to.path)}} \cup
  {Link("TESTS", File(p), File(i.target), Null) :
     i \in {j \in src.imports : /\ src.isTest /\ j.status = "RESOLVED" /\ j.target \in S
                                /\ ~Source(c, j.target).isTest}}

(* Only a file that parsed has imports, exports and uses.                  *)
Links(c, S) == UNION {FileLinks(c, S, p) : p \in {q \in S : Source(c, q).parse = "OK"}}

(* A link between rows: FileId and SymbolId give the ids of its ends.      *)
EdgeOf(l, FileId(_), SymbolId(_, _)) ==
  LET Row(x) == CASE x.path = Null -> Null
                  [] x.path # Null /\ x.name = Null -> FileId(x.path)
                  [] OTHER -> SymbolId(x.path, x.name)
  IN [kind |-> l.kind, from |-> Row(l.from), to |-> Row(l.to), label |-> l.label]

(* CodeDependency_edge_identity_key: the label is not part of it.          *)
Identity(e) == <<e.kind, e.from, e.to>>
Identities(E) == {Identity(e) : e \in E}
Resolution(e) == IF e.label = Null THEN "RESOLVED" ELSE e.label.status
-----------------------------------------------------------------------------
(* Rebuilds.                                                               *)

InProgress(a) == at[a] \notin {"unused", "returned", "failed"}
At(a, step) == at[a] = step
Goto(a, step) == at' = [at EXCEPT ![a] = step]

(* What a rebuild keeps in memory is gone when it ends.                    *)
End(a, outcome) ==
  /\ Goto(a, outcome)
  /\ goal' = [goal EXCEPT ![a] = NoCommit]
  /\ batch' = [batch EXCEPT ![a] = 0]
  /\ left' = [left EXCEPT ![a] = {}]
  /\ found' = [found EXCEPT ![a] = [p \in {} |-> Null]]
  /\ pending' = [pending EXCEPT ![a] = {}]
  /\ counts' = [counts EXCEPT ![a] = [p \in {} |-> 0]]
  /\ UNCHANGED alone

LiveFiles == {fileRow[p].id : p \in {q \in Paths : fileRow[q] # NoRow}}

(* A statement or parse batch takes the next n paths of a loop.            *)
Chunks(S, n) ==
  {T \in SUBSET S : Cardinality(T) = (IF Cardinality(S) < n THEN Cardinality(S) ELSE n)}

BugSubtracts(attempt) == BATCH_SIZES[0] - 2 * attempt

BugHalvesOn(attempt) == BATCH_SIZES[0] \div (2 ^ attempt)

batchSizeForAttempt(attempt) ==
  IF attempt <= 0 THEN BATCH_SIZES[0] ELSE IF attempt = 1 THEN BATCH_SIZES[1] ELSE BATCH_SIZES[2]

(* The tarball is fetched, extracted and walked; nothing is written yet.   *)
BeginRebuild(a) ==
  /\ At(a, "unused")
  /\ Cardinality({b \in Rebuilds : InProgress(b)}) < CONCURRENCY
  /\ \E c \in Commits, attempt \in 0 .. ATTEMPTS :
       /\ goal' = [goal EXCEPT ![a] = c]
       /\ batch' = [batch EXCEPT ![a] = batchSizeForAttempt(attempt)]
       /\ left' = [left EXCEPT ![a] = Tree(c)]
  /\ alone' = [b \in Rebuilds |-> b = a /\ \A d \in Rebuilds : ~InProgress(d)]
  /\ Goto(a, "upsert")
  /\ UNCHANGED <<graphRows, found, pending, counts>>

(* INSERT ... ON CONFLICT DO UPDATE: an existing row keeps its id and the  *)
(* columns the graph fills; a new one starts with their defaults.          *)
UpsertRepositoryFiles(a) ==
  /\ At(a, "upsert")
  /\ \E S \in Chunks(left[a], ROW_BATCH) :
       /\ fileRow' = [p \in Paths |->
            IF p \notin S THEN fileRow[p]
            ELSE IF fileRow[p] # NoRow THEN [fileRow[p] EXCEPT !.sha = goal[a]]
            ELSE [id |-> [path |-> p, by |-> a], sha |-> goal[a], parse |-> "OK",
                  symbols |-> 0, inbound |-> 0]]
       /\ left' = [left EXCEPT ![a] = @ \ S]
       /\ Goto(a, IF left[a] \ S = {} THEN "sweep" ELSE "upsert")
  /\ UNCHANGED <<symbolRows, edgeRows, goal, batch, found, pending, counts, alone>>

BugSweepsNothing(a) ==
  /\ At(a, "sweep")
  /\ Goto(a, "read-back")
  /\ UNCHANGED <<graphRows, rebuildVars>>

(* Rows of other commits go, and their symbols with them; edges stay.      *)
SweepStaleRepositoryFiles(a) ==
  /\ At(a, "sweep")
  /\ fileRow' = [p \in Paths |->
       IF fileRow[p] # NoRow /\ fileRow[p].sha # goal[a] THEN NoRow ELSE fileRow[p]]
  /\ symbolRows' = {s \in symbolRows :
       \E p \in Paths : /\ fileRow[p] # NoRow /\ fileRow[p].sha = goal[a]
                        /\ fileRow[p].id = s.file}
  /\ Goto(a, "read-back")
  /\ UNCHANGED <<edgeRows, rebuildVars>>

FindRepositoryFilesByCommit(a) ==
  /\ At(a, "read-back")
  /\ found' = [found EXCEPT ![a] =
       [p \in {q \in Paths : fileRow[q] # NoRow /\ fileRow[q].sha = goal[a]} |-> fileRow[p].id]]
  /\ Goto(a, "delete-edges")
  /\ UNCHANGED <<graphRows, goal, batch, left, pending, counts, alone>>

BugKeepsEdges(a) ==
  /\ At(a, "delete-edges")
  /\ Goto(a, "delete-symbols")
  /\ UNCHANGED <<graphRows, rebuildVars>>

DeleteCodeDependencies(a) ==
  /\ At(a, "delete-edges")
  /\ edgeRows' = {}
  /\ Goto(a, "delete-symbols")
  /\ UNCHANGED <<fileRow, symbolRows, rebuildVars>>

DeleteCodeSymbols(a) ==
  /\ At(a, "delete-symbols")
  /\ symbolRows' = {}
  /\ left' = [left EXCEPT ![a] = {p \in DOMAIN found[a] : Source(goal[a], p).parse # "NOT_PARSED"}]
  /\ Goto(a, "parse")
  /\ UNCHANGED <<fileRow, edgeRows, goal, batch, found, pending, counts, alone>>

(* Pass 1 generates the ids of the symbols and keeps them for pass 2.      *)
SymbolOf(a, p, n) == [file |-> found[a][p], name |-> n, by |-> a]
ParsedSymbols(a, S) == UNION {{SymbolOf(a, p, n) : n \in Symbols(goal[a], p)} : p \in S}

(* The insert is rejected if a file row is gone (foreign key) or another   *)
(* rebuild inserted the symbol (unique identity).                          *)
Rejected(new) ==
  \E s \in new : \/ s.file \notin LiveFiles
                 \/ \E t \in symbolRows : t.file = s.file /\ t.name = s.name

RunPass1(a) ==
  /\ At(a, "parse")
  /\ \E S \in Chunks(left[a], batch[a]) :
       IF Rejected(ParsedSymbols(a, S))
         THEN End(a, "failed") /\ UNCHANGED symbolRows
         ELSE /\ symbolRows' = symbolRows \cup ParsedSymbols(a, S)
              /\ left' = [left EXCEPT ![a] = @ \ S]
              /\ Goto(a, IF left[a] \ S = {} THEN "resolve" ELSE "parse")
              /\ UNCHANGED <<goal, batch, found, pending, counts, alone>>
  /\ UNCHANGED <<fileRow, edgeRows>>

(* Pass 2 works on the records in memory, not on the rows.                 *)
ResolvedEdges(a) ==
  {EdgeOf(l, LAMBDA p : found[a][p], LAMBDA p, n : SymbolOf(a, p, n)) :
     l \in Links(goal[a], DOMAIN found[a])}

ResolveGraph(a) ==
  /\ At(a, "resolve")
  /\ pending' = [pending EXCEPT ![a] = ResolvedEdges(a)]
  /\ Goto(a, "insert-edges")
  /\ UNCHANGED <<graphRows, goal, batch, left, found, counts, alone>>

(* ON CONFLICT DO NOTHING: of edges with one identity the first stays.     *)
Insertable(new) ==
  {kept \in SUBSET new :
     /\ Identities(kept) = Identities(new) \ Identities(edgeRows)
     /\ \A d, e \in kept : Identity(d) = Identity(e) => d = e}

(* Statements are per kind and resolution, in an order the edges determine.*)
NextGroup(E) ==
  LET first == CHOOSE e \in E : TRUE
  IN {e \in E : e.kind = first.kind /\ Resolution(e) = Resolution(first)}

InsertCodeDependencies(a) ==
  /\ At(a, "insert-edges") /\ pending[a] # {}
  /\ \E kept \in Insertable(NextGroup(pending[a])) : edgeRows' = edgeRows \cup kept
  /\ pending' = [pending EXCEPT ![a] = @ \ NextGroup(pending[a])]
  /\ UNCHANGED <<fileRow, symbolRows, at, goal, batch, left, found, counts, alone>>

(* Edges to the file, and to the symbols that have a row in it.            *)
InboundEdges(id) ==
  {e \in edgeRows : e.to = id} \cup {e \in edgeRows : e.to \in symbolRows /\ e.to.file = id}

BugCountsEarly(a) ==
  /\ At(a, "insert-edges")
  /\ counts' = [counts EXCEPT ![a] =
       [p \in DOMAIN found[a] |-> Cardinality(InboundEdges(found[a][p]))]]
  /\ left' = [left EXCEPT ![a] = DOMAIN found[a]]
  /\ Goto(a, "metadata")
  /\ UNCHANGED <<graphRows, goal, batch, found, pending, alone>>

CountInboundEdgesByFile(a) ==
  /\ At(a, "insert-edges") /\ pending[a] = {}
  /\ counts' = [counts EXCEPT ![a] =
       [p \in DOMAIN found[a] |-> Cardinality(InboundEdges(found[a][p]))]]
  /\ left' = [left EXCEPT ![a] = DOMAIN found[a]]
  /\ Goto(a, "metadata")
  /\ UNCHANGED <<graphRows, goal, batch, found, pending, alone>>

UpdateRepositoryFileGraphMetadata(a) ==
  /\ At(a, "metadata")
  /\ \E S \in Chunks(left[a], ROW_BATCH) :
       /\ fileRow' = [p \in Paths |->
            IF p \in S /\ fileRow[p] # NoRow /\ fileRow[p].id = found[a][p]
              THEN [fileRow[p] EXCEPT !.parse = Source(goal[a], p).parse,
                                      !.symbols = Cardinality(Symbols(goal[a], p)),
                                      !.inbound = counts[a][p]]
              ELSE fileRow[p]]
       /\ left' = [left EXCEPT ![a] = @ \ S]
       /\ Goto(a, IF left[a] \ S = {} THEN "return" ELSE "metadata")
  /\ UNCHANGED <<symbolRows, edgeRows, goal, batch, found, pending, counts, alone>>

ReturnResult(a) ==
  /\ At(a, "return")
  /\ End(a, "returned")
  /\ UNCHANGED graphRows

(* The fetch is refused, a statement is rejected, or the worker dies.      *)
RebuildFails(a) ==
  /\ InProgress(a)
  /\ End(a, "failed")
  /\ UNCHANGED graphRows

RebuildStep(a) ==
  \/ UpsertRepositoryFiles(a) \/ SweepStaleRepositoryFiles(a)
  \/ FindRepositoryFilesByCommit(a) \/ DeleteCodeDependencies(a) \/ DeleteCodeSymbols(a)
  \/ RunPass1(a) \/ ResolveGraph(a) \/ InsertCodeDependencies(a)
  \/ CountInboundEdgesByFile(a) \/ UpdateRepositoryFileGraphMetadata(a) \/ ReturnResult(a)

GraphInit ==
  /\ fileRow = [p \in Paths |-> NoRow]
  /\ symbolRows = {} /\ edgeRows = {}
  /\ at = [a \in Rebuilds |-> "unused"]
  /\ goal = [a \in Rebuilds |-> NoCommit]
  /\ batch = [a \in Rebuilds |-> 0]
  /\ left = [a \in Rebuilds |-> {}]
  /\ found = [a \in Rebuilds |-> [p \in {} |-> Null]]
  /\ pending = [a \in Rebuilds |-> {}]
  /\ counts = [a \in Rebuilds |-> [p \in {} |-> 0]]
  /\ alone = [a \in Rebuilds |-> FALSE]

GraphNext == \E a \in Rebuilds : BeginRebuild(a) \/ RebuildStep(a) \/ RebuildFails(a)

GraphSpec == GraphInit /\ [][GraphNext]_graphVars
-----------------------------------------------------------------------------
(* The rows are the graph of commit c.                                     *)

LiveFileId(p) == fileRow[p].id
LiveSymbolId(p, n) == CHOOSE s \in symbolRows : s.file = fileRow[p].id /\ s.name = n

CompleteFiles(c) ==
  \A p \in Paths :
    /\ (fileRow[p] # NoRow) = (p \in Tree(c))
    /\ fileRow[p] # NoRow =>
         /\ fileRow[p].sha = c
         /\ fileRow[p].parse = Source(c, p).parse
         /\ fileRow[p].symbols = Cardinality(Symbols(c, p))
         /\ fileRow[p].inbound = Cardinality(InboundEdges(fileRow[p].id))

CompleteSymbols(c) ==
  /\ \A s \in symbolRows : \E p \in Tree(c) :
       fileRow[p] # NoRow /\ s.file = fileRow[p].id /\ s.name \in Symbols(c, p)
  /\ \A p \in Tree(c) : \A n \in Symbols(c, p) :
       \E s \in symbolRows : /\ s.file = fileRow[p].id /\ s.name = n
                             /\ \A t \in symbolRows : t.file = s.file /\ t.name = n => t = s

(* Every edge of the commit has a row, and there is no other row; but of   *)
(* edges that share an identity one has the row.  That is what the unique  *)
(* key lets be stored: see EveryImportHasARow.                             *)
CompleteEdges(c) ==
  LET expected == {EdgeOf(l, LiveFileId, LiveSymbolId) : l \in Links(c, Tree(c))} IN
  /\ edgeRows \subseteq expected
  /\ Identities(edgeRows) = Identities(expected)

CompleteFor(c) == CompleteFiles(c) /\ CompleteSymbols(c) /\ CompleteEdges(c)
-----------------------------------------------------------------------------
(* Properties.                                                             *)

PathsTo(m, T) == DOMAIN m \subseteq Paths /\ m \in [DOMAIN m -> T]
Labels == {Null} \cup [status : Resolutions, target : Paths \cup IMPORTABLE]
EdgeRows == [kind : Kinds, from : EdgeEnds, to : EdgeEnds, label : Labels]
Steps == {"unused", "upsert", "sweep", "read-back", "delete-edges", "delete-symbols",
          "parse", "resolve", "insert-edges", "metadata", "return", "returned", "failed"}

(* The types of the stored rows and of what a rebuild keeps in memory; the *)
(* row of a path carries an id of that path.                               *)
GraphTypeOK ==
  /\ fileRow \in [Paths -> FileRows \cup {NoRow}]
  /\ \A p \in Paths : fileRow[p] # NoRow => fileRow[p].id.path = p
  /\ symbolRows \subseteq SymbolIds
  /\ edgeRows \subseteq EdgeRows
  /\ at \in [Rebuilds -> Steps]
  /\ goal \in [Rebuilds -> Commits \cup {NoCommit}]
  /\ batch \in [Rebuilds -> Nat]
  /\ left \in [Rebuilds -> SUBSET Paths]
  /\ DOMAIN found = Rebuilds /\ \A a \in Rebuilds : PathsTo(found[a], FileIds)
  /\ pending \in [Rebuilds -> SUBSET EdgeRows]
  /\ DOMAIN counts = Rebuilds /\ \A a \in Rebuilds : PathsTo(counts[a], Nat)
  /\ alone \in [Rebuilds -> BOOLEAN]

Contents ==
  INSTANCE GraphContents WITH
    complete <- {c \in Commits : CompleteFor(c)},
    goalOf <- goal,
    exclusive <- alone,
    returned <- {a \in Rebuilds : At(a, "returned")}

(* A rebuild that ran alone returns only when the stored files, symbols,   *)
(* edges (as far as the unique key can hold them) and inbound counts are   *)
(* those of its commit, from whatever rows an earlier rebuild left when it *)
(* died (indexer.service.ts, indexRepository).                             *)
ImplementsGraphContents == Contents!Spec

(* "Every resolved specifier, all three resolutions get a row" (docs/      *)
(* indexing.md:315, graph-builder.ts:668): a rebuild that ran alone has    *)
(* stored each import edge it derived when it is about to return.  It does *)
(* not hold: a package or an unresolved specifier is no part of the key of *)
(* an edge, so that of all such imports of a file one has a row.           *)
EveryImportHasARow ==
  \A a \in Rebuilds : alone[a] /\ At(a, "return") =>
    {e \in ResolvedEdges(a) : e.kind = "IMPORTS"} \subseteq edgeRows

PastDeletes == {"delete-symbols", "parse", "resolve", "insert-edges", "metadata", "return"}
Resolves(x) == x = Null \/ x \in LiveFiles \/ x \in symbolRows

(* Edges have no foreign keys.  Those an alone rebuild leaves between any  *)
(* two of its transactions refer to rows that exist, once it deleted the   *)
(* old ones (graph-builder.ts:774): a reader of the graph meets dangling   *)
(* edges only between the sweep of files and that delete.                  *)
FreshEdgesNeverDangle ==
  \A a \in Rebuilds : alone[a] /\ at[a] \in PastDeletes =>
    \A e \in edgeRows : Resolves(e.from) /\ Resolves(e.to)

(* Rebuilds end, on every attempt: no batch size is zero (graph-builder  *)
(* .ts:142), so that each loop over the files gets through them.           *)
RebuildsEnd == (\E a \in Rebuilds : InProgress(a)) ~> (\A a \in Rebuilds : ~InProgress(a))
=============================================================================
