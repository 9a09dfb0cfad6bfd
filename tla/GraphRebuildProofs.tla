------------------------- MODULE GraphRebuildProofs -------------------------
(***************************************************************************)
(* Proofs about GraphRebuild, for every number of rebuilds, all commits    *)
(* and every size of statements and batches.                               *)
(***************************************************************************)
EXTENDS GraphRebuild, FiniteSetTheorems, TLAPS

USE GraphConstants, GraphIds

(***************************************************************************)
(* The resolved graph of a commit.                                         *)
(***************************************************************************)

LinkType == [kind : Kinds, from : Places, to : Places, label : Labels]

(* What a link may connect.                                                *)
Ends(c, S) ==
  {Nowhere} \cup {File(p) : p \in S} \cup UNION {{Symbol(p, n) : n \in Symbols(c, p)} : p \in S}

LEMMA SymbolsAreNames ==
  ASSUME NEW c \in Commits, NEW p \in Paths
  PROVE  Symbols(c, p) \subseteq Names /\ IsFiniteSet(Symbols(c, p)) /\ Cardinality(Symbols(c, p)) \in Nat
<1>1. Source(c, p) \in SourceType
  OBVIOUS
<1>2. Symbols(c, p) \subseteq Names
  BY <1>1 DEF Symbols, SourceType
<1>. QED BY <1>2, FS_Subset, FS_CardinalityType

LEMMA EndsArePlaces ==
  ASSUME NEW c \in Commits, NEW S \in SUBSET Paths, NEW x \in Ends(c, S)
  PROVE  x \in Places
BY SymbolsAreNames DEF Ends, Places, Nowhere, File, Symbol

(* A link connects files and symbols of the commit, or leads nowhere.      *)
LEMMA LinkEnds ==
  ASSUME NEW c \in Commits, NEW S \in SUBSET Paths, NEW l \in Links(c, S)
  PROVE  l \in LinkType /\ l.from \in Ends(c, S) /\ l.to \in Ends(c, S)
<1>1. PICK p \in S : l \in FileLinks(c, S, p)
  BY DEF Links
<1>. DEFINE src == Source(c, p)
<1>2. src \in SourceType
  OBVIOUS
<1>3. SUFFICES l.from \in Ends(c, S) /\ l.to \in Ends(c, S) /\ l = Link(l.kind, l.from, l.to, l.label)
                /\ l.kind \in Kinds /\ l.label \in Labels
  BY EndsArePlaces DEF LinkType, Link
<1>4. CASE \E n \in Symbols(c, p) : l = Link("CONTAINS", File(p), Symbol(p, n), Null)
  BY <1>4 DEF Link, Ends, Kinds, Labels
<1>5. CASE \E n \in Symbols(c, p) : l = Link("EXPORTS", File(p), Symbol(p, n), Null)
  BY <1>5 DEF Link, Ends, Kinds, Labels
<1>6. CASE \E i \in src.imports : l = ImportLink(p, i, S)
  <2>1. PICK i \in src.imports : l = ImportLink(p, i, S)
    BY <1>6
  <2>2. i \in [status : Resolutions, target : Paths \cup IMPORTABLE]
    BY <1>2 DEF SourceType
  <2>. QED BY <2>1, <2>2 DEF ImportLink, Link, Ends, Kinds, Labels
<1>7. CASE \E u \in src.uses : /\ l = Link(u.kind, Symbol(p, u.from), u.to, Null)
                              /\ u.from \in Symbols(c, p) /\ u.to.path \in S
                              /\ u.to.name \in Symbols(c, u.to.path)
  <2>1. PICK u \in src.uses : /\ l = Link(u.kind, Symbol(p, u.from), u.to, Null)
                              /\ u.from \in Symbols(c, p) /\ u.to.path \in S
                              /\ u.to.name \in Symbols(c, u.to.path)
    BY <1>7
  <2>2. u.kind \in Kinds /\ u.to \in [path : Paths, name : Names]
    BY <1>2 DEF SourceType, Kinds
  <2>3. u.to = Symbol(u.to.path, u.to.name)
    BY <2>2 DEF Symbol
  <2>. QED BY <2>1, <2>2, <2>3 DEF Link, Ends, Labels
<1>8. CASE \E i \in src.imports : l = Link("TESTS", File(p), File(i.target), Null) /\ i.target \in S
  BY <1>8 DEF Link, Ends, Kinds, Labels
<1>. QED BY <1>1, <1>4, <1>5, <1>6, <1>7, <1>8 DEF FileLinks

LEMMA FiniteCover ==
  ASSUME NEW S, IsFiniteSet(S), NEW T, NEW f, \A t \in T : \E s \in S : f[s] = t
  PROVE  IsFiniteSet(T)
<1>. DEFINE U == {s \in S : f[s] \in T}
            g == [s \in U |-> f[s]]
<1>1. IsFiniteSet(U)
  BY FS_Subset
<1>2. g \in Surjection(U, T)
  BY DEF Surjection
<1>. HIDE DEF U, g
<1>. QED BY <1>1, <1>2, FS_Surjection

(* There are finitely many.                                                *)
LEMMA LinksAreFinite ==
  ASSUME NEW c \in Commits, NEW S \in SUBSET Paths
  PROVE  IsFiniteSet(Links(c, S))
<1>. DEFINE targets == Paths \cup IMPORTABLE
            statuses == Resolutions \X targets
            imports == [status : Resolutions, target : targets]
            places == (Paths \cup {Null}) \X (Names \cup {Null})
            fields == Kinds \X (Places \X (Places \X Labels))
<1>0. IsFiniteSet({Null})
  BY FS_Singleton
<1>1. IsFiniteSet(Resolutions) /\ IsFiniteSet(Kinds)
  <2>1. IsFiniteSet({"RESOLVED"}) /\ IsFiniteSet({"EXTERNAL"}) /\ IsFiniteSet({"UNRESOLVED"})
        /\ IsFiniteSet({"CONTAINS"}) /\ IsFiniteSet({"EXPORTS"}) /\ IsFiniteSet({"IMPORTS"})
        /\ IsFiniteSet({"EXTENDS"}) /\ IsFiniteSet({"IMPLEMENTS"}) /\ IsFiniteSet({"CALLS"})
        /\ IsFiniteSet({"TESTS"})
    BY FS_Singleton
  <2>2. IsFiniteSet({"RESOLVED"} \cup {"EXTERNAL"}) /\ IsFiniteSet({"CONTAINS"} \cup {"EXPORTS"})
        /\ IsFiniteSet({"IMPORTS"} \cup {"EXTENDS"}) /\ IsFiniteSet({"IMPLEMENTS"} \cup {"CALLS"})
    BY <2>1, FS_Union
  <2>3. IsFiniteSet(({"RESOLVED"} \cup {"EXTERNAL"}) \cup {"UNRESOLVED"})
        /\ IsFiniteSet(({"CONTAINS"} \cup {"EXPORTS"}) \cup ({"IMPORTS"} \cup {"EXTENDS"}))
        /\ IsFiniteSet(({"IMPLEMENTS"} \cup {"CALLS"}) \cup {"TESTS"})
    BY <2>1, <2>2, FS_Union
  <2>4. IsFiniteSet((({"CONTAINS"} \cup {"EXPORTS"}) \cup ({"IMPORTS"} \cup {"EXTENDS"}))
                     \cup (({"IMPLEMENTS"} \cup {"CALLS"}) \cup {"TESTS"}))
    BY <2>3, FS_Union
  <2>5. Resolutions = ({"RESOLVED"} \cup {"EXTERNAL"}) \cup {"UNRESOLVED"}
    BY DEF Resolutions
  <2>6. Kinds = (({"CONTAINS"} \cup {"EXPORTS"}) \cup ({"IMPORTS"} \cup {"EXTENDS"}))
                     \cup (({"IMPLEMENTS"} \cup {"CALLS"}) \cup {"TESTS"})
    BY DEF Kinds
  <2>. QED BY <2>3, <2>4, <2>5, <2>6
<1>2. IsFiniteSet(targets)
  BY FS_Union
<1>3. IsFiniteSet(statuses)
  BY <1>1, <1>2, FS_Product
<1>4. IsFiniteSet(imports)
  <2>. DEFINE f == [x \in statuses |-> [status |-> x[1], target |-> x[2]]]
  <2>1. \A i \in imports : \E x \in statuses : f[x] = i
    <3>. TAKE i \in imports
    <3>1. <<i.status, i.target>> \in statuses /\ f[<<i.status, i.target>>] = i
      OBVIOUS
    <3>. HIDE DEF f, statuses
    <3>. QED BY <3>1
  <2>. HIDE DEF f, statuses, imports
  <2>. QED BY <1>3, <2>1, FiniteCover
<1>5. IsFiniteSet(Labels)
  <2>1. Labels = {Null} \cup imports
    BY DEF Labels
  <2>. HIDE DEF imports
  <2>. QED BY <1>0, <1>4, <2>1, FS_Union
<1>6. IsFiniteSet(Places)
  <2>1. IsFiniteSet(Paths \cup {Null}) /\ IsFiniteSet(Names \cup {Null})
    BY <1>0, FS_Union
  <2>2. IsFiniteSet(places)
    BY <2>1, FS_Product
  <2>. DEFINE f == [x \in places |-> [path |-> x[1], name |-> x[2]]]
  <2>3. \A i \in Places : \E x \in places : f[x] = i
    <3>. TAKE i \in Places
    <3>1. <<i.path, i.name>> \in places /\ f[<<i.path, i.name>>] = i
      BY DEF Places
    <3>. HIDE DEF f, places
    <3>. QED BY <3>1
  <2>. HIDE DEF f, places
  <2>. QED BY <2>2, <2>3, FiniteCover
<1>7. IsFiniteSet(fields)
  <2>1. IsFiniteSet(Places \X Labels)
    BY <1>5, <1>6, FS_Product
  <2>2. IsFiniteSet(Places \X (Places \X Labels))
    BY <1>6, <2>1, FS_Product
  <2>. QED BY <1>1, <2>2, FS_Product
<1>. DEFINE f == [x \in fields |-> Link(x[1], x[2][1], x[2][2][1], x[2][2][2])]
<1>8. \A l \in Links(c, S) : \E x \in fields : f[x] = l
  <2>. TAKE l \in Links(c, S)
  <2>1. l \in LinkType
    BY LinkEnds
  <2>2. <<l.kind, <<l.from, <<l.to, l.label>>>>>> \in fields
    BY <2>1 DEF LinkType
  <2>3. l = Link(l.kind, l.from, l.to, l.label)
    BY <2>1 DEF LinkType, Link
  <2>4. f[<<l.kind, <<l.from, <<l.to, l.label>>>>>>] = l
    BY <2>2, <2>3
  <2>. HIDE DEF f, fields
  <2>. QED BY <2>2, <2>4
<1>. HIDE DEF f, fields
<1>. QED BY <1>7, <1>8, FiniteCover

(***************************************************************************)
(* Types.                                                                  *)
(***************************************************************************)

(* The row of a link's end, by the ids that rebuild a has in memory.       *)
MemoryRow(a, x) ==
  CASE x.path = Null -> Null
    [] x.path # Null /\ x.name = Null -> found[a][x.path]
    [] OTHER -> SymbolOf(a, x.path, x.name)

MemoryEdge(a, l) ==
  [kind |-> l.kind, from |-> MemoryRow(a, l.from), to |-> MemoryRow(a, l.to), label |-> l.label]

LEMMA ResolvedIs ==
  ASSUME NEW a
  PROVE  ResolvedEdges(a) = {MemoryEdge(a, l) : l \in Links(goal[a], DOMAIN found[a])}
BY DEF ResolvedEdges, EdgeOf, MemoryEdge, MemoryRow

LEMMA MemoryRows ==
  ASSUME GraphTypeOK, NEW a \in Rebuilds, goal[a] \in Commits,
         NEW x \in Ends(goal[a], DOMAIN found[a])
  PROVE  /\ MemoryRow(a, x) \in EdgeEnds
         /\ \/ MemoryRow(a, x) = Null
            \/ \E p \in DOMAIN found[a] : MemoryRow(a, x) = found[a][p]
            \/ MemoryRow(a, x) \in ParsedSymbols(a, DOMAIN found[a])
<1>. DEFINE S == DOMAIN found[a]
<1>1. S \subseteq Paths /\ \A p \in S : found[a][p] \in FileIds
  BY DEF GraphTypeOK, PathsTo
<1>2. CASE x = Nowhere
  BY <1>2 DEF MemoryRow, Nowhere, EdgeEnds
<1>3. CASE \E p \in S : x = File(p)
  BY <1>1, <1>3 DEF MemoryRow, File, EdgeEnds
<1>4. CASE \E p \in S : \E n \in Symbols(goal[a], p) : x = Symbol(p, n)
  <2>0. PICK p \in S : \E n \in Symbols(goal[a], p) : x = Symbol(p, n)
    BY <1>4
  <2>1. PICK n \in Symbols(goal[a], p) : x = Symbol(p, n)
    BY <2>0
  <2>2. n \in Names
    BY <1>1, SymbolsAreNames
  <2>3. MemoryRow(a, x) = SymbolOf(a, p, n)
    BY <1>1, <2>1, <2>2 DEF MemoryRow, Symbol
  <2>4. SymbolOf(a, p, n) \in SymbolIds
    BY <1>1, <2>2 DEF SymbolOf, SymbolIds
  <2>5. SymbolOf(a, p, n) \in ParsedSymbols(a, S)
    BY <2>1 DEF ParsedSymbols
  <2>. QED BY <2>3, <2>4, <2>5 DEF EdgeEnds
<1>. QED BY <1>2, <1>3, <1>4 DEF Ends

LEMMA ResolvedTypes ==
  ASSUME GraphTypeOK, NEW a \in Rebuilds, goal[a] \in Commits
  PROVE  ResolvedEdges(a) \subseteq EdgeRows /\ IsFiniteSet(ResolvedEdges(a))
<1>. DEFINE L == Links(goal[a], DOMAIN found[a])
<1>1. DOMAIN found[a] \in SUBSET Paths
  BY DEF GraphTypeOK, PathsTo
<1>2. ASSUME NEW l \in L PROVE MemoryEdge(a, l) \in EdgeRows
  BY <1>1, LinkEnds, MemoryRows DEF MemoryEdge, EdgeRows, LinkType
<1>3. IsFiniteSet(ResolvedEdges(a))
  <2>. DEFINE f == [l \in L |-> MemoryEdge(a, l)]
  <2>1. \A e \in ResolvedEdges(a) : \E l \in L : f[l] = e
    BY ResolvedIs
  <2>2. IsFiniteSet(L)
    BY <1>1, LinksAreFinite
  <2>. HIDE DEF f, L
  <2>. QED BY <2>1, <2>2, FiniteCover
<1>. QED BY <1>2, <1>3, ResolvedIs

(* What a rebuild does next determines what it has in memory.              *)
Shape(a) ==
  /\ IF InProgress(a) THEN goal[a] \in Commits ELSE goal[a] = NoCommit
  /\ At(a, "upsert") => left[a] \subseteq Tree(goal[a])
  /\ at[a] \in {"parse", "metadata"} => left[a] \subseteq DOMAIN found[a]
  /\ At(a, "metadata") => DOMAIN counts[a] = DOMAIN found[a]

(* Rows are only written for paths of their commit.                        *)
RowsBelong == \A p \in Paths : fileRow[p] # NoRow => p \in Tree(fileRow[p].sha)

TypeInv ==
  /\ GraphTypeOK
  /\ IsFiniteSet(edgeRows) /\ \A a \in Rebuilds : IsFiniteSet(pending[a])
  /\ \A a \in Rebuilds : Shape(a)
  /\ RowsBelong

LEMMA TypeInit == GraphInit => TypeInv
<1>. SUFFICES ASSUME GraphInit PROVE TypeInv
  OBVIOUS
<1>1. IsFiniteSet({})
  BY FS_EmptySet
<1>2. [p \in {} |-> Null] \in [{} -> FileIds] /\ [p \in {} |-> 0] \in [{} -> Nat]
  OBVIOUS
<1>3. GraphTypeOK
  BY <1>2 DEF GraphInit, GraphTypeOK, PathsTo, Steps
<1>. QED BY <1>1, <1>3 DEF GraphInit, TypeInv, Shape, RowsBelong, InProgress, At

(* Others keep their shape when only rebuild a moves.                      *)
LEMMA OthersKeepShape ==
  ASSUME NEW a \in Rebuilds, \A b \in Rebuilds : Shape(b),
         \A b \in Rebuilds \ {a} : /\ at'[b] = at[b] /\ goal'[b] = goal[b] /\ left'[b] = left[b]
                                  /\ found'[b] = found[b] /\ counts'[b] = counts[b],
         Shape(a)'
  PROVE  (\A b \in Rebuilds : Shape(b))'
BY DEF Shape, InProgress, At

LEMMA ChunksAreParts ==
  ASSUME NEW S, NEW n, NEW T \in Chunks(S, n)
  PROVE  T \subseteq S
BY DEF Chunks

LEMMA BatchSizes ==
  ASSUME NEW attempt \in Nat
  PROVE  batchSizeForAttempt(attempt) \in Nat \ {0}
BY DEF batchSizeForAttempt

LEMMA TypeBegin ==
  ASSUME TypeInv, NEW a \in Rebuilds, BeginRebuild(a)
  PROVE  TypeInv'
<1>1. PICK c \in Commits, attempt \in 0 .. ATTEMPTS :
        /\ goal' = [goal EXCEPT ![a] = c]
        /\ batch' = [batch EXCEPT ![a] = batchSizeForAttempt(attempt)]
        /\ left' = [left EXCEPT ![a] = Tree(c)]
  BY DEF BeginRebuild
<1>2. batchSizeForAttempt(attempt) \in Nat
  BY BatchSizes
<1>3. /\ at' = [at EXCEPT ![a] = "upsert"] /\ alone' \in [Rebuilds -> BOOLEAN]
      /\ UNCHANGED <<fileRow, symbolRows, edgeRows, found, pending, counts>>
  BY DEF BeginRebuild, Goto, graphRows
<1>4. GraphTypeOK'
  BY <1>1, <1>2, <1>3 DEF TypeInv, GraphTypeOK, Steps, PathsTo
<1>5. Shape(a)'
  BY <1>1, <1>3 DEF TypeInv, GraphTypeOK, Shape, InProgress, At
<1>6. (\A b \in Rebuilds : Shape(b))'
  BY <1>1, <1>3, <1>5, OthersKeepShape DEF TypeInv, GraphTypeOK
<1>. QED BY <1>3, <1>4, <1>6 DEF TypeInv, RowsBelong

LEMMA TypeEnd ==
  ASSUME TypeInv, NEW a \in Rebuilds, NEW outcome \in {"returned", "failed"}, End(a, outcome),
         UNCHANGED graphRows
  PROVE  TypeInv'
<1>1. [p \in {} |-> Null] \in [{} -> FileIds] /\ [p \in {} |-> 0] \in [{} -> Nat]
  OBVIOUS
<1>2. GraphTypeOK'
  BY <1>1 DEF TypeInv, GraphTypeOK, End, Goto, Steps, PathsTo, graphRows
<1>3. Shape(a)'
  BY DEF TypeInv, GraphTypeOK, Shape, InProgress, At, End, Goto
<1>4. (\A b \in Rebuilds : Shape(b))'
  BY <1>3, OthersKeepShape DEF TypeInv, GraphTypeOK, End, Goto
<1>5. (\A b \in Rebuilds : IsFiniteSet(pending[b]))'
  BY FS_EmptySet DEF TypeInv, GraphTypeOK, End
<1>. QED BY <1>2, <1>4, <1>5 DEF TypeInv, RowsBelong, graphRows

LEMMA TypeUpsert ==
  ASSUME TypeInv, NEW a \in Rebuilds, UpsertRepositoryFiles(a)
  PROVE  TypeInv'
<1>1. PICK S \in Chunks(left[a], ROW_BATCH) :
        /\ fileRow' = [p \in Paths |->
             IF p \notin S THEN fileRow[p]
             ELSE IF fileRow[p] # NoRow THEN [fileRow[p] EXCEPT !.sha = goal[a]]
             ELSE [id |-> [path |-> p, by |-> a], sha |-> goal[a], parse |-> "OK",
                   symbols |-> 0, inbound |-> 0]]
        /\ left' = [left EXCEPT ![a] = @ \ S]
        /\ Goto(a, IF left[a] \ S = {} THEN "sweep" ELSE "upsert")
  BY DEF UpsertRepositoryFiles
<1>2. S \subseteq left[a]
  BY ChunksAreParts
<1>3. goal[a] \in Commits /\ left[a] \subseteq Tree(goal[a])
  BY DEF TypeInv, Shape, InProgress, At, UpsertRepositoryFiles
<1>4. UNCHANGED <<symbolRows, edgeRows, goal, batch, found, pending, counts, alone>>
  BY DEF UpsertRepositoryFiles
<1>5. \A p \in Paths : \/ fileRow'[p] = NoRow
                       \/ /\ fileRow'[p] \in FileRows /\ fileRow'[p].id.path = p
                          /\ p \in Tree(fileRow'[p].sha)
  <2>. TAKE p \in Paths
  <2>1. fileRow[p] \in FileRows \cup {NoRow} /\ (fileRow[p] # NoRow => fileRow[p].id.path = p)
        /\ (fileRow[p] # NoRow => p \in Tree(fileRow[p].sha))
    BY DEF TypeInv, GraphTypeOK, RowsBelong
  <2>2. CASE p \notin S
    BY <1>1, <2>1, <2>2
  <2>3. CASE p \in S /\ fileRow[p] # NoRow
    <3>1. fileRow'[p] = [fileRow[p] EXCEPT !.sha = goal[a]]
      BY <1>1, <2>3
    <3>. QED BY <1>2, <1>3, <2>1, <2>3, <3>1 DEF FileRows
  <2>4. CASE p \in S /\ fileRow[p] = NoRow
    <3>1. fileRow'[p] = [id |-> [path |-> p, by |-> a], sha |-> goal[a], parse |-> "OK",
                         symbols |-> 0, inbound |-> 0]
      BY <1>1, <2>4
    <3>. QED BY <1>2, <1>3, <2>4, <3>1 DEF FileRows, FileIds
  <2>. QED BY <2>2, <2>3, <2>4
<1>6. GraphTypeOK'
  <2>1. fileRow' \in [Paths -> FileRows \cup {NoRow}]
    BY <1>1, <1>5
  <2>. QED BY <1>1, <1>4, <1>5, <2>1 DEF TypeInv, GraphTypeOK, Goto, Steps, PathsTo
<1>7. Shape(a)'
  BY <1>1, <1>3, <1>4 DEF TypeInv, GraphTypeOK, Shape, InProgress, At, Goto
<1>8. (\A b \in Rebuilds : Shape(b))'
  BY <1>1, <1>4, <1>7, OthersKeepShape DEF TypeInv, GraphTypeOK, Goto
<1>. QED BY <1>4, <1>5, <1>6, <1>8 DEF TypeInv, RowsBelong

LEMMA TypeSweep ==
  ASSUME TypeInv, NEW a \in Rebuilds, SweepStaleRepositoryFiles(a)
  PROVE  TypeInv'
<1>1. /\ fileRow' = [p \in Paths |->
           IF fileRow[p] # NoRow /\ fileRow[p].sha # goal[a] THEN NoRow ELSE fileRow[p]]
      /\ symbolRows' \subseteq symbolRows
      /\ at' = [at EXCEPT ![a] = "read-back"] /\ at[a] = "sweep"
      /\ UNCHANGED <<edgeRows, goal, batch, left, found, pending, counts, alone>>
  BY DEF SweepStaleRepositoryFiles, Goto, rebuildVars, At
<1>2. GraphTypeOK'
  BY <1>1 DEF TypeInv, GraphTypeOK, Steps, PathsTo
<1>3. Shape(a)'
  BY <1>1 DEF TypeInv, GraphTypeOK, Shape, InProgress, At
<1>4. (\A b \in Rebuilds : Shape(b))'
  BY <1>1, <1>3, OthersKeepShape DEF TypeInv, GraphTypeOK
<1>. QED BY <1>1, <1>2, <1>4 DEF TypeInv, RowsBelong

LEMMA TypeReadBack ==
  ASSUME TypeInv, NEW a \in Rebuilds, FindRepositoryFilesByCommit(a)
  PROVE  TypeInv'
<1>. DEFINE ids == [p \in {q \in Paths : fileRow[q] # NoRow /\ fileRow[q].sha = goal[a]} |-> fileRow[p].id]
<1>1. /\ found' = [found EXCEPT ![a] = ids]
      /\ at' = [at EXCEPT ![a] = "delete-edges"] /\ at[a] = "read-back"
      /\ UNCHANGED <<fileRow, symbolRows, edgeRows, goal, batch, left, pending, counts, alone>>
  BY DEF FindRepositoryFilesByCommit, Goto, graphRows, At
<1>2. PathsTo(ids, FileIds)
  BY DEF PathsTo, TypeInv, GraphTypeOK, FileRows
<1>3. GraphTypeOK'
  <2>. HIDE DEF ids
  <2>. QED BY <1>1, <1>2 DEF TypeInv, GraphTypeOK, Steps
<1>4. Shape(a)'
  BY <1>1 DEF TypeInv, GraphTypeOK, Shape, InProgress, At
<1>5. (\A b \in Rebuilds : Shape(b))'
  <2>. HIDE DEF ids
  <2>. QED BY <1>1, <1>4, OthersKeepShape DEF TypeInv, GraphTypeOK
<1>. QED BY <1>1, <1>3, <1>5 DEF TypeInv, RowsBelong

LEMMA TypeDeleteEdges ==
  ASSUME TypeInv, NEW a \in Rebuilds, DeleteCodeDependencies(a)
  PROVE  TypeInv'
<1>1. /\ edgeRows' = {}
      /\ at' = [at EXCEPT ![a] = "delete-symbols"] /\ at[a] = "delete-edges"
      /\ UNCHANGED <<fileRow, symbolRows, goal, batch, left, found, pending, counts, alone>>
  BY DEF DeleteCodeDependencies, Goto, rebuildVars, At
<1>2. GraphTypeOK'
  BY <1>1 DEF TypeInv, GraphTypeOK, Steps, PathsTo
<1>3. Shape(a)'
  BY <1>1 DEF TypeInv, GraphTypeOK, Shape, InProgress, At
<1>4. (\A b \in Rebuilds : Shape(b))'
  BY <1>1, <1>3, OthersKeepShape DEF TypeInv, GraphTypeOK
<1>. QED BY <1>1, <1>2, <1>4, FS_EmptySet DEF TypeInv, RowsBelong

LEMMA TypeDeleteSymbols ==
  ASSUME TypeInv, NEW a \in Rebuilds, DeleteCodeSymbols(a)
  PROVE  TypeInv'
<1>. DEFINE S == {p \in DOMAIN found[a] : Source(goal[a], p).parse # "NOT_PARSED"}
<1>1. /\ symbolRows' = {} /\ left' = [left EXCEPT ![a] = S]
      /\ at' = [at EXCEPT ![a] = "parse"] /\ at[a] = "delete-symbols"
      /\ UNCHANGED <<fileRow, edgeRows, goal, batch, found, pending, counts, alone>>
  BY DEF DeleteCodeSymbols, Goto, At
<1>2. S \subseteq DOMAIN found[a] /\ DOMAIN found[a] \subseteq Paths
  BY DEF TypeInv, GraphTypeOK, PathsTo
<1>. HIDE DEF S
<1>3. GraphTypeOK'
  BY <1>1, <1>2 DEF TypeInv, GraphTypeOK, Steps, PathsTo
<1>4. Shape(a)'
  BY <1>1, <1>2 DEF TypeInv, GraphTypeOK, Shape, InProgress, At
<1>5. (\A b \in Rebuilds : Shape(b))'
  BY <1>1, <1>4, OthersKeepShape DEF TypeInv, GraphTypeOK
<1>. QED BY <1>1, <1>3, <1>5 DEF TypeInv, RowsBelong

LEMMA ParsedTypes ==
  ASSUME GraphTypeOK, NEW a \in Rebuilds, goal[a] \in Commits, NEW S \in SUBSET DOMAIN found[a]
  PROVE  ParsedSymbols(a, S) \subseteq SymbolIds
<1>1. \A p \in S : p \in Paths /\ found[a][p] \in FileIds
  BY DEF GraphTypeOK, PathsTo
<1>. QED BY <1>1, SymbolsAreNames DEF ParsedSymbols, SymbolOf, SymbolIds

LEMMA TypePass1 ==
  ASSUME TypeInv, NEW a \in Rebuilds, RunPass1(a)
  PROVE  TypeInv'
<1>1. PICK S \in Chunks(left[a], batch[a]) :
       IF Rejected(ParsedSymbols(a, S))
         THEN End(a, "failed") /\ UNCHANGED symbolRows
         ELSE /\ symbolRows' = symbolRows \cup ParsedSymbols(a, S)
              /\ left' = [left EXCEPT ![a] = @ \ S]
              /\ Goto(a, IF left[a] \ S = {} THEN "resolve" ELSE "parse")
              /\ UNCHANGED <<goal, batch, found, pending, counts, alone>>
  BY DEF RunPass1
<1>2. at[a] = "parse" /\ UNCHANGED <<fileRow, edgeRows>>
  BY DEF RunPass1, At
<1>3. CASE Rejected(ParsedSymbols(a, S))
  BY <1>1, <1>2, <1>3, TypeEnd DEF graphRows
<1>4. CASE ~Rejected(ParsedSymbols(a, S))
  <2>1. /\ symbolRows' = symbolRows \cup ParsedSymbols(a, S)
        /\ left' = [left EXCEPT ![a] = @ \ S]
        /\ at' = [at EXCEPT ![a] = IF left[a] \ S = {} THEN "resolve" ELSE "parse"]
        /\ UNCHANGED <<goal, batch, found, pending, counts, alone>>
    BY <1>1, <1>4 DEF Goto
  <2>2. S \subseteq left[a] /\ left[a] \subseteq DOMAIN found[a] /\ goal[a] \in Commits
    BY <1>2, ChunksAreParts DEF TypeInv, Shape, InProgress
  <2>3. ParsedSymbols(a, S) \subseteq SymbolIds
    BY <2>2, ParsedTypes DEF TypeInv
  <2>4. GraphTypeOK'
    BY <1>2, <2>1, <2>3 DEF TypeInv, GraphTypeOK, Steps, PathsTo
  <2>5. Shape(a)'
    BY <1>2, <2>1, <2>2 DEF TypeInv, GraphTypeOK, Shape, InProgress, At
  <2>6. (\A b \in Rebuilds : Shape(b))'
    BY <2>1, <2>5, OthersKeepShape DEF TypeInv, GraphTypeOK
  <2>. QED BY <1>2, <2>1, <2>4, <2>6 DEF TypeInv, RowsBelong
<1>. QED BY <1>3, <1>4

LEMMA TypeResolve ==
  ASSUME TypeInv, NEW a \in Rebuilds, ResolveGraph(a)
  PROVE  TypeInv'
<1>1. /\ pending' = [pending EXCEPT ![a] = ResolvedEdges(a)]
      /\ at' = [at EXCEPT ![a] = "insert-edges"] /\ at[a] = "resolve"
      /\ UNCHANGED <<fileRow, symbolRows, edgeRows, goal, batch, left, found, counts, alone>>
  BY DEF ResolveGraph, Goto, graphRows, At
<1>2. ResolvedEdges(a) \subseteq EdgeRows /\ IsFiniteSet(ResolvedEdges(a))
  BY <1>1, ResolvedTypes DEF TypeInv, Shape, InProgress
<1>3. GraphTypeOK'
  BY <1>1, <1>2 DEF TypeInv, GraphTypeOK, Steps, PathsTo
<1>4. Shape(a)'
  BY <1>1 DEF TypeInv, GraphTypeOK, Shape, InProgress, At
<1>5. (\A b \in Rebuilds : Shape(b))'
  BY <1>1, <1>4, OthersKeepShape DEF TypeInv, GraphTypeOK
<1>6. (\A b \in Rebuilds : IsFiniteSet(pending[b]))'
  BY <1>1, <1>2 DEF TypeInv, GraphTypeOK
<1>. QED BY <1>1, <1>3, <1>5, <1>6 DEF TypeInv, RowsBelong

LEMMA GroupsAreParts ==
  ASSUME NEW E, E # {}
  PROVE  NextGroup(E) \subseteq E /\ NextGroup(E) # {}
BY DEF NextGroup

LEMMA TypeInsert ==
  ASSUME TypeInv, NEW a \in Rebuilds, InsertCodeDependencies(a)
  PROVE  TypeInv'
<1>1. /\ pending' = [pending EXCEPT ![a] = @ \ NextGroup(pending[a])]
      /\ pending[a] # {}
      /\ UNCHANGED <<fileRow, symbolRows, at, goal, batch, left, found, counts, alone>>
  BY DEF InsertCodeDependencies
<1>2. PICK kept \in Insertable(NextGroup(pending[a])) : edgeRows' = edgeRows \cup kept
  BY DEF InsertCodeDependencies
<1>3. kept \subseteq pending[a]
  BY <1>1, GroupsAreParts DEF Insertable
<1>4. IsFiniteSet(edgeRows') /\ \A b \in Rebuilds : IsFiniteSet(pending'[b])
  <2>1. IsFiniteSet(kept)
    BY <1>3, FS_Subset DEF TypeInv
  <2>2. IsFiniteSet(pending[a] \ NextGroup(pending[a]))
    BY FS_Subset DEF TypeInv
  <2>. QED BY <1>1, <1>2, <2>1, <2>2, FS_Union DEF TypeInv, GraphTypeOK
<1>5. GraphTypeOK'
  BY <1>1, <1>2, <1>3 DEF TypeInv, GraphTypeOK, PathsTo
<1>6. (\A b \in Rebuilds : Shape(b))'
  BY <1>1 DEF TypeInv, Shape, InProgress, At
<1>. QED BY <1>1, <1>4, <1>5, <1>6 DEF TypeInv, RowsBelong

LEMMA InboundCounts ==
  ASSUME IsFiniteSet(edgeRows), NEW id
  PROVE  Cardinality(InboundEdges(id)) \in Nat
<1>1. InboundEdges(id) \subseteq edgeRows
  BY DEF InboundEdges
<1>. QED BY <1>1, FS_Subset, FS_CardinalityType

LEMMA TypeCount ==
  ASSUME TypeInv, NEW a \in Rebuilds, CountInboundEdgesByFile(a)
  PROVE  TypeInv'
<1>. DEFINE m == [p \in DOMAIN found[a] |-> Cardinality(InboundEdges(found[a][p]))]
<1>1. /\ counts' = [counts EXCEPT ![a] = m] /\ left' = [left EXCEPT ![a] = DOMAIN found[a]]
      /\ at' = [at EXCEPT ![a] = "metadata"] /\ at[a] = "insert-edges"
      /\ UNCHANGED <<fileRow, symbolRows, edgeRows, goal, batch, found, pending, alone>>
  BY DEF CountInboundEdgesByFile, Goto, graphRows, At
<1>2. PathsTo(m, Nat) /\ DOMAIN m = DOMAIN found[a]
  BY InboundCounts DEF TypeInv, GraphTypeOK, PathsTo
<1>. HIDE DEF m
<1>3. GraphTypeOK'
  BY <1>1, <1>2 DEF TypeInv, GraphTypeOK, Steps, PathsTo
<1>4. Shape(a)'
  BY <1>1, <1>2 DEF TypeInv, GraphTypeOK, Shape, InProgress, At
<1>5. (\A b \in Rebuilds : Shape(b))'
  BY <1>1, <1>4, OthersKeepShape DEF TypeInv, GraphTypeOK
<1>. QED BY <1>1, <1>3, <1>5 DEF TypeInv, RowsBelong

LEMMA TypeMetadata ==
  ASSUME TypeInv, NEW a \in Rebuilds, UpdateRepositoryFileGraphMetadata(a)
  PROVE  TypeInv'
<1>1. PICK S \in Chunks(left[a], ROW_BATCH) :
       /\ fileRow' = [p \in Paths |->
            IF p \in S /\ fileRow[p] # NoRow /\ fileRow[p].id = found[a][p]
              THEN [fileRow[p] EXCEPT !.parse = Source(goal[a], p).parse,
                                      !.symbols = Cardinality(Symbols(goal[a], p)),
                                      !.inbound = counts[a][p]]
              ELSE fileRow[p]]
       /\ left' = [left EXCEPT ![a] = @ \ S]
       /\ at' = [at EXCEPT ![a] = IF left[a] \ S = {} THEN "return" ELSE "metadata"]
  BY DEF UpdateRepositoryFileGraphMetadata, Goto
<1>2. at[a] = "metadata" /\ UNCHANGED <<symbolRows, edgeRows, goal, batch, found, pending, counts, alone>>
  BY DEF UpdateRepositoryFileGraphMetadata, At
<1>3. S \subseteq DOMAIN counts[a] /\ left[a] \subseteq DOMAIN found[a] /\ goal[a] \in Commits
  BY <1>2, ChunksAreParts DEF TypeInv, Shape, InProgress, At
<1>4. \A p \in Paths : \/ fileRow'[p] = NoRow
                       \/ /\ fileRow'[p] \in FileRows /\ fileRow'[p].id.path = p
                          /\ p \in Tree(fileRow'[p].sha)
  <2>. TAKE p \in Paths
  <2>1. fileRow[p] \in FileRows \cup {NoRow} /\ (fileRow[p] # NoRow => fileRow[p].id.path = p)
        /\ (fileRow[p] # NoRow => p \in Tree(fileRow[p].sha))
    BY DEF TypeInv, GraphTypeOK, RowsBelong
  <2>2. CASE fileRow'[p] = fileRow[p]
    BY <2>1, <2>2
  <2>3. CASE p \in S /\ fileRow[p] # NoRow /\ fileRow[p].id = found[a][p]
    <3>1. fileRow'[p] = [fileRow[p] EXCEPT !.parse = Source(goal[a], p).parse,
                                      !.symbols = Cardinality(Symbols(goal[a], p)),
                                      !.inbound = counts[a][p]]
      BY <1>1, <2>3
    <3>2. counts[a][p] \in Nat
      BY <1>3, <2>3 DEF TypeInv, GraphTypeOK, PathsTo
    <3>3. Source(goal[a], p).parse \in {"OK", "FAILED", "NOT_PARSED"}
      <4>1. Source(goal[a], p) \in SourceType
        BY <1>3
      <4>. QED BY <4>1 DEF SourceType
    <3>4. Cardinality(Symbols(goal[a], p)) \in Nat
      BY <1>3, SymbolsAreNames
    <3>. QED BY <2>1, <2>3, <3>1, <3>2, <3>3, <3>4 DEF FileRows
  <2>. QED BY <1>1, <2>2, <2>3
<1>5. GraphTypeOK'
  <2>1. fileRow' \in [Paths -> FileRows \cup {NoRow}]
    BY <1>1, <1>4
  <2>2. \A p \in Paths : fileRow'[p] # NoRow => fileRow'[p].id.path = p
    BY <1>4
  <2>3. left' \in [Rebuilds -> SUBSET Paths] /\ at' \in [Rebuilds -> Steps]
    BY <1>1 DEF TypeInv, GraphTypeOK, Steps
  <2>. QED BY <1>2, <2>1, <2>2, <2>3 DEF TypeInv, GraphTypeOK, PathsTo
<1>6. Shape(a)'
  BY <1>1, <1>2, <1>3 DEF TypeInv, GraphTypeOK, Shape, InProgress, At
<1>7. (\A b \in Rebuilds : Shape(b))'
  BY <1>1, <1>2, <1>6, OthersKeepShape DEF TypeInv, GraphTypeOK
<1>. QED BY <1>2, <1>4, <1>5, <1>7 DEF TypeInv, RowsBelong

LEMMA TypeStep == TypeInv /\ [GraphNext]_graphVars => TypeInv'
<1>. SUFFICES ASSUME TypeInv, [GraphNext]_graphVars PROVE TypeInv'
  OBVIOUS
<1>1. CASE UNCHANGED graphVars
  BY <1>1 DEF TypeInv, GraphTypeOK, PathsTo, Shape, InProgress, At, RowsBelong,
              graphVars, graphRows, rebuildVars
<1>2. ASSUME NEW a \in Rebuilds, ReturnResult(a) \/ RebuildFails(a) PROVE TypeInv'
  BY <1>2, TypeEnd DEF ReturnResult, RebuildFails
<1>. QED BY <1>1, <1>2, TypeBegin, TypeUpsert, TypeSweep, TypeReadBack, TypeDeleteEdges,
            TypeDeleteSymbols, TypePass1, TypeResolve, TypeInsert, TypeCount, TypeMetadata
         DEF GraphNext, RebuildStep

(* Rows, ids and what a rebuild has in memory keep their types.            *)
THEOREM GraphTypes == GraphSpec => []GraphTypeOK
<1>1. TypeInv => GraphTypeOK
  BY DEF TypeInv
<1>. QED BY <1>1, TypeInit, TypeStep, PTL DEF GraphSpec

(***************************************************************************)
(* A rebuild that runs alone.                                              *)
(***************************************************************************)

Alone(a) == alone[a] /\ InProgress(a)

(* The paths that its present loop has dealt with have their row.          *)
Filed(a) ==
  \A p \in Tree(goal[a]) \ left[a] : fileRow[p] # NoRow /\ fileRow[p].sha = goal[a]

(* The file rows are those of the commit, and it has their ids.            *)
Swept(a) ==
  \A p \in Paths : /\ fileRow[p] # NoRow <=> p \in Tree(goal[a])
                   /\ fileRow[p] # NoRow => fileRow[p].sha = goal[a]

ReadBack(a) ==
  /\ Swept(a)
  /\ DOMAIN found[a] = Tree(goal[a])
  /\ \A p \in Tree(goal[a]) : found[a][p] = fileRow[p].id

(* The symbol rows are those of the files S.                               *)
Inserted(a, S) == symbolRows = ParsedSymbols(a, S)

(* With the edges E, the edge rows would be those of the commit.           *)
Linked(a, E) ==
  /\ edgeRows \cup E \subseteq ResolvedEdges(a)
  /\ Identities(edgeRows) \cup Identities(E) = Identities(ResolvedEdges(a))

Described(a, p) ==
  /\ fileRow[p].parse = Source(goal[a], p).parse
  /\ fileRow[p].symbols = Cardinality(Symbols(goal[a], p))
  /\ fileRow[p].inbound = Cardinality(InboundEdges(found[a][p]))

(* What the rows are when a rebuild that runs alone does its next step.    *)
Stage(a) ==
  /\ At(a, "upsert") => Filed(a)
  /\ At(a, "sweep") => Filed(a) /\ left[a] = {}
  /\ At(a, "read-back") => Swept(a)
  /\ At(a, "delete-edges") => ReadBack(a)
  /\ At(a, "delete-symbols") => ReadBack(a) /\ edgeRows = {}
  /\ At(a, "parse") => ReadBack(a) /\ edgeRows = {} /\ Inserted(a, Tree(goal[a]) \ left[a])
  /\ At(a, "resolve") => ReadBack(a) /\ edgeRows = {} /\ Inserted(a, Tree(goal[a]))
  /\ At(a, "insert-edges") => ReadBack(a) /\ Inserted(a, Tree(goal[a])) /\ Linked(a, pending[a])
  /\ At(a, "metadata") =>
       /\ ReadBack(a) /\ Inserted(a, Tree(goal[a])) /\ Linked(a, {})
       /\ \A p \in Tree(goal[a]) : counts[a][p] = Cardinality(InboundEdges(found[a][p]))
       /\ \A p \in Tree(goal[a]) \ left[a] : Described(a, p)
  /\ At(a, "return") =>
       /\ ReadBack(a) /\ Inserted(a, Tree(goal[a])) /\ Linked(a, {})
       /\ \A p \in Tree(goal[a]) : Described(a, p)

AloneInv ==
  \A a \in Rebuilds : Alone(a) => Stage(a) /\ \A b \in Rebuilds \ {a} : ~InProgress(b)

LEMMA StageUpsert ==
  ASSUME TypeInv, NEW a \in Rebuilds, Stage(a), UpsertRepositoryFiles(a)
  PROVE  Stage(a)'
<1>1. PICK S \in Chunks(left[a], ROW_BATCH) :
        /\ fileRow' = [p \in Paths |->
             IF p \notin S THEN fileRow[p]
             ELSE IF fileRow[p] # NoRow THEN [fileRow[p] EXCEPT !.sha = goal[a]]
             ELSE [id |-> [path |-> p, by |-> a], sha |-> goal[a], parse |-> "OK",
                   symbols |-> 0, inbound |-> 0]]
        /\ left' = [left EXCEPT ![a] = @ \ S]
        /\ at' = [at EXCEPT ![a] = IF left[a] \ S = {} THEN "sweep" ELSE "upsert"]
  BY DEF UpsertRepositoryFiles, Goto
<1>2. UpsertRepositoryFiles(a) /\ at[a] = "upsert" /\ Filed(a) /\ goal' = goal /\ goal[a] \in Commits
  BY DEF UpsertRepositoryFiles, At, Stage, TypeInv, Shape, InProgress
<1>3. left'[a] = left[a] \ S /\ at'[a] = IF left[a] \ S = {} THEN "sweep" ELSE "upsert"
  BY <1>1 DEF TypeInv, GraphTypeOK
<1>4. \A p \in Tree(goal[a]) \ left'[a] : fileRow'[p] # NoRow /\ fileRow'[p].sha = goal[a]
  <2>. TAKE p \in Tree(goal[a]) \ left'[a]
  <2>1. p \in Paths
    BY <1>2
  <2>2. CASE p \notin S
    BY <1>1, <1>2, <1>3, <2>1, <2>2 DEF Filed
  <2>3. CASE p \in S /\ fileRow[p] # NoRow
    <3>1. fileRow'[p] = [fileRow[p] EXCEPT !.sha = goal[a]]
      BY <1>1, <2>1, <2>3
    <3>2. fileRow[p] \in FileRows
      BY <2>1, <2>3 DEF TypeInv, GraphTypeOK
    <3>3. fileRow'[p] \in FileRows
      BY <1>2, <3>1, <3>2 DEF FileRows
    <3>. QED BY <3>1, <3>2, <3>3 DEF FileRows
  <2>4. CASE p \in S /\ fileRow[p] = NoRow
    <3>1. fileRow'[p] = [id |-> [path |-> p, by |-> a], sha |-> goal[a], parse |-> "OK",
                         symbols |-> 0, inbound |-> 0]
      BY <1>1, <2>1, <2>4
    <3>2. fileRow'[p] \in FileRows
      BY <1>2, <2>1, <3>1 DEF FileRows, FileIds
    <3>. QED BY <3>1, <3>2
  <2>. QED BY <2>2, <2>3, <2>4
<1>. QED BY <1>2, <1>3, <1>4 DEF Stage, At, Filed

LEMMA StageSweep ==
  ASSUME TypeInv, NEW a \in Rebuilds, Stage(a), SweepStaleRepositoryFiles(a)
  PROVE  Stage(a)'
<1>1. /\ fileRow' = [p \in Paths |->
           IF fileRow[p] # NoRow /\ fileRow[p].sha # goal[a] THEN NoRow ELSE fileRow[p]]
      /\ at'[a] = "read-back" /\ at[a] = "sweep" /\ goal' = goal /\ goal[a] \in Commits
  BY DEF SweepStaleRepositoryFiles, Goto, rebuildVars, At, TypeInv, GraphTypeOK, Shape, InProgress
<1>2. \A p \in Tree(goal[a]) : p \in Paths /\ fileRow[p] # NoRow /\ fileRow[p].sha = goal[a]
  BY <1>1 DEF Stage, At, Filed
<1>3. \A p \in Paths : fileRow[p] # NoRow /\ fileRow[p].sha = goal[a] => p \in Tree(goal[a])
  BY DEF TypeInv, RowsBelong
<1>4. Swept(a)'
  BY <1>1, <1>2, <1>3 DEF Swept
<1>. QED BY <1>1, <1>4 DEF Stage, At

LEMMA StageReadBack ==
  ASSUME TypeInv, NEW a \in Rebuilds, Stage(a), FindRepositoryFilesByCommit(a)
  PROVE  Stage(a)'
<1>. DEFINE S == {q \in Paths : fileRow[q] # NoRow /\ fileRow[q].sha = goal[a]}
<1>1. /\ found'[a] = [p \in S |-> fileRow[p].id]
      /\ at'[a] = "delete-edges" /\ at[a] = "read-back" /\ UNCHANGED <<fileRow, goal>>
      /\ goal[a] \in Commits
  BY DEF FindRepositoryFilesByCommit, Goto, graphRows, At, TypeInv, GraphTypeOK, Shape, InProgress
<1>2. Swept(a)
  BY <1>1 DEF Stage, At
<1>3. S = Tree(goal[a])
  BY <1>1, <1>2 DEF Swept
<1>4. ReadBack(a)'
  BY <1>1, <1>2, <1>3 DEF ReadBack, Swept
<1>. QED BY <1>1, <1>4 DEF Stage, At

LEMMA StageDeleteEdges ==
  ASSUME TypeInv, NEW a \in Rebuilds, Stage(a), DeleteCodeDependencies(a)
  PROVE  Stage(a)'
<1>1. /\ edgeRows' = {} /\ at'[a] = "delete-symbols" /\ at[a] = "delete-edges"
      /\ UNCHANGED <<fileRow, goal, found>>
  BY DEF DeleteCodeDependencies, Goto, rebuildVars, At, TypeInv, GraphTypeOK
<1>. QED BY <1>1 DEF Stage, At, ReadBack, Swept

LEMMA StageDeleteSymbols ==
  ASSUME TypeInv, NEW a \in Rebuilds, Stage(a), DeleteCodeSymbols(a)
  PROVE  Stage(a)'
<1>. DEFINE S == {p \in DOMAIN found[a] : Source(goal[a], p).parse # "NOT_PARSED"}
<1>1. /\ symbolRows' = {} /\ left'[a] = S
      /\ at'[a] = "parse" /\ at[a] = "delete-symbols"
      /\ UNCHANGED <<fileRow, edgeRows, goal, found>>
  BY DEF DeleteCodeSymbols, Goto, At, TypeInv, GraphTypeOK
<1>2. ReadBack(a) /\ edgeRows = {}
  BY <1>1 DEF Stage, At
<1>3. \A p \in Tree(goal[a]) \ S : Symbols(goal[a], p) = {}
  BY <1>2 DEF ReadBack, Symbols
<1>4. \A p \in (Tree(goal[a]) \ left[a])' : Symbols(goal'[a], p) = {}
  BY <1>1, <1>3
<1>5. Inserted(a, Tree(goal[a]) \ left[a])'
  BY <1>1, <1>4 DEF Inserted, ParsedSymbols
<1>6. ReadBack(a)'
  BY <1>1, <1>2 DEF ReadBack, Swept
<1>. QED BY <1>1, <1>2, <1>5, <1>6 DEF Stage, At

LEMMA StagePass1 ==
  ASSUME TypeInv, NEW a \in Rebuilds, Stage(a), RunPass1(a), InProgress(a)'
  PROVE  Stage(a)'
<1>1. PICK S \in Chunks(left[a], batch[a]) :
       IF Rejected(ParsedSymbols(a, S))
         THEN End(a, "failed") /\ UNCHANGED symbolRows
         ELSE /\ symbolRows' = symbolRows \cup ParsedSymbols(a, S)
              /\ left' = [left EXCEPT ![a] = @ \ S]
              /\ Goto(a, IF left[a] \ S = {} THEN "resolve" ELSE "parse")
              /\ UNCHANGED <<goal, batch, found, pending, counts, alone>>
  BY DEF RunPass1
<1>2. ~Rejected(ParsedSymbols(a, S))
  BY <1>1 DEF End, Goto, InProgress, TypeInv, GraphTypeOK
<1>3. /\ symbolRows' = symbolRows \cup ParsedSymbols(a, S) /\ left'[a] = left[a] \ S
      /\ at'[a] = IF left[a] \ S = {} THEN "resolve" ELSE "parse"
      /\ at[a] = "parse" /\ UNCHANGED <<fileRow, edgeRows, goal, found>>
  BY <1>1, <1>2 DEF Goto, RunPass1, At, TypeInv, GraphTypeOK
<1>4. ReadBack(a) /\ edgeRows = {} /\ Inserted(a, Tree(goal[a]) \ left[a])
  BY <1>3 DEF Stage, At
<1>5. S \subseteq left[a] /\ left[a] \subseteq Tree(goal[a])
  BY <1>3, <1>4, ChunksAreParts DEF TypeInv, Shape, ReadBack
<1>6. symbolRows' = ParsedSymbols(a, Tree(goal[a]) \ (left[a] \ S))
  BY <1>3, <1>4, <1>5 DEF Inserted, ParsedSymbols
<1>7. \A U : ParsedSymbols(a, U)' = ParsedSymbols(a, U)
  BY <1>3 DEF ParsedSymbols, SymbolOf
<1>8. Inserted(a, Tree(goal[a]) \ left[a])'
  <2>1. ParsedSymbols(a, Tree(goal[a]) \ left[a])' = ParsedSymbols(a, Tree(goal[a]) \ (left[a] \ S))
    BY <1>3 DEF ParsedSymbols, SymbolOf
  <2>. QED BY <1>6, <2>1 DEF Inserted
<1>9. at'[a] = "resolve" => Inserted(a, Tree(goal[a]))'
  <2>. SUFFICES ASSUME at'[a] = "resolve" PROVE Inserted(a, Tree(goal[a]))'
    OBVIOUS
  <2>1. Tree(goal[a]) \ (left[a] \ S) = Tree(goal[a])
    BY <1>3
  <2>. QED BY <1>3, <1>6, <1>7, <2>1 DEF Inserted
<1>10. ReadBack(a)'
  BY <1>3, <1>4 DEF ReadBack, Swept
<1>. QED BY <1>3, <1>4, <1>8, <1>9, <1>10 DEF Stage, At

(* What pass 1 and pass 2 derive depends only on the commit and the ids.   *)
LEMMA SameDerived ==
  ASSUME NEW a \in Rebuilds, goal'[a] = goal[a], found'[a] = found[a]
  PROVE  /\ ParsedSymbols(a, Tree(goal[a]))' = ParsedSymbols(a, Tree(goal[a]))
         /\ ResolvedEdges(a)' = ResolvedEdges(a)
<1>1. ParsedSymbols(a, Tree(goal[a]))' = ParsedSymbols(a, Tree(goal[a]))
  BY DEF ParsedSymbols, SymbolOf
<1>2. ResolvedEdges(a)' = ResolvedEdges(a)
  BY DEF ResolvedEdges, EdgeOf, SymbolOf
<1>. QED BY <1>1, <1>2

LEMMA StageResolve ==
  ASSUME TypeInv, NEW a \in Rebuilds, Stage(a), ResolveGraph(a)
  PROVE  Stage(a)'
<1>1. /\ pending'[a] = ResolvedEdges(a) /\ at'[a] = "insert-edges" /\ at[a] = "resolve"
      /\ UNCHANGED <<fileRow, symbolRows, edgeRows, goal, found>>
  BY DEF ResolveGraph, Goto, At, graphRows, TypeInv, GraphTypeOK
<1>2. ReadBack(a) /\ edgeRows = {} /\ Inserted(a, Tree(goal[a]))
  BY <1>1 DEF Stage, At
<1>3. ReadBack(a)' /\ Inserted(a, Tree(goal[a]))'
  BY <1>1, <1>2, SameDerived DEF ReadBack, Swept, Inserted
<1>4. Identities({}) = {}
  BY DEF Identities
<1>5. Linked(a, pending[a])'
  BY <1>1, <1>2, <1>4, SameDerived DEF Linked
<1>. QED BY <1>1, <1>3, <1>5 DEF Stage, At

LEMMA IdentitiesOfUnion ==
  ASSUME NEW D, NEW E
  PROVE  Identities(D \cup E) = Identities(D) \cup Identities(E)
BY DEF Identities

LEMMA StageInsert ==
  ASSUME TypeInv, NEW a \in Rebuilds, Stage(a), InsertCodeDependencies(a)
  PROVE  Stage(a)'
<1>. DEFINE G == NextGroup(pending[a])
<1>1. PICK kept \in Insertable(G) : edgeRows' = edgeRows \cup kept
  BY DEF InsertCodeDependencies
<1>2. /\ pending'[a] = pending[a] \ G /\ at'[a] = "insert-edges" /\ at[a] = "insert-edges"
      /\ UNCHANGED <<fileRow, symbolRows, goal, found>>
  BY DEF InsertCodeDependencies, At, TypeInv, GraphTypeOK
<1>3. ReadBack(a) /\ Inserted(a, Tree(goal[a])) /\ Linked(a, pending[a])
  BY <1>2 DEF Stage, At
<1>4. kept \subseteq G /\ G \subseteq pending[a] /\ Identities(kept) = Identities(G) \ Identities(edgeRows)
  BY DEF Insertable, NextGroup
<1>. HIDE DEF G
<1>5. Identities(pending[a]) = Identities(G) \cup Identities(pending[a] \ G)
  <2>1. pending[a] = G \cup (pending[a] \ G)
    BY <1>4
  <2>. QED BY <2>1, IdentitiesOfUnion
<1>6. Identities(edgeRows') = Identities(edgeRows) \cup Identities(kept)
  BY <1>1, IdentitiesOfUnion
<1>7. /\ edgeRows' \cup pending'[a] \subseteq ResolvedEdges(a)
      /\ Identities(edgeRows') \cup Identities(pending'[a]) = Identities(ResolvedEdges(a))
  BY <1>1, <1>2, <1>3, <1>4, <1>5, <1>6 DEF Linked
<1>8. Linked(a, pending[a])'
  BY <1>2, <1>7, SameDerived DEF Linked
<1>9. ReadBack(a)' /\ Inserted(a, Tree(goal[a]))'
  BY <1>2, <1>3, SameDerived DEF ReadBack, Swept, Inserted
<1>. QED BY <1>2, <1>8, <1>9 DEF Stage, At

LEMMA StageCount ==
  ASSUME TypeInv, NEW a \in Rebuilds, Stage(a), CountInboundEdgesByFile(a)
  PROVE  Stage(a)'
<1>1. /\ counts'[a] = [p \in DOMAIN found[a] |-> Cardinality(InboundEdges(found[a][p]))]
      /\ left'[a] = DOMAIN found[a] /\ pending[a] = {}
      /\ at'[a] = "metadata" /\ at[a] = "insert-edges"
      /\ UNCHANGED <<fileRow, symbolRows, edgeRows, goal, found>>
  BY DEF CountInboundEdgesByFile, Goto, At, graphRows, TypeInv, GraphTypeOK
<1>2. ReadBack(a) /\ Inserted(a, Tree(goal[a])) /\ Linked(a, {})
  BY <1>1 DEF Stage, At
<1>3. ReadBack(a)' /\ Inserted(a, Tree(goal[a]))' /\ Linked(a, {})'
  BY <1>1, <1>2, SameDerived DEF ReadBack, Swept, Inserted, Linked
<1>4. (\A p \in Tree(goal[a]) : counts[a][p] = Cardinality(InboundEdges(found[a][p])))'
  BY <1>1, <1>2 DEF ReadBack, InboundEdges
<1>5. (Tree(goal[a]) \ left[a])' = {}
  BY <1>1, <1>2 DEF ReadBack
<1>. QED BY <1>1, <1>3, <1>4, <1>5 DEF Stage, At

(* writeFileMetadata of a row leaves a row. *)
LEMMA RowRewritten ==
  ASSUME NEW row \in FileRows, NEW parse \in {"OK", "FAILED", "NOT_PARSED"},
         NEW symbols \in Nat, NEW inbound \in Nat, NEW written,
         written = [row EXCEPT !.parse = parse, !.symbols = symbols, !.inbound = inbound]
  PROVE  written \in FileRows
BY DEF FileRows

LEMMA StageMetadata ==
  ASSUME TypeInv, NEW a \in Rebuilds, Stage(a), UpdateRepositoryFileGraphMetadata(a)
  PROVE  Stage(a)'
<1>1. PICK S \in Chunks(left[a], ROW_BATCH) :
       /\ fileRow' = [p \in Paths |->
            IF p \in S /\ fileRow[p] # NoRow /\ fileRow[p].id = found[a][p]
              THEN [fileRow[p] EXCEPT !.parse = Source(goal[a], p).parse,
                                      !.symbols = Cardinality(Symbols(goal[a], p)),
                                      !.inbound = counts[a][p]]
              ELSE fileRow[p]]
       /\ left' = [left EXCEPT ![a] = @ \ S]
       /\ Goto(a, IF left[a] \ S = {} THEN "return" ELSE "metadata")
  BY DEF UpdateRepositoryFileGraphMetadata
<1>2. /\ left'[a] = left[a] \ S /\ at'[a] = IF left[a] \ S = {} THEN "return" ELSE "metadata"
      /\ at[a] = "metadata" /\ goal[a] \in Commits
      /\ UNCHANGED <<symbolRows, edgeRows, goal, found, counts>>
  BY <1>1 DEF UpdateRepositoryFileGraphMetadata, Goto, At, TypeInv, GraphTypeOK, Shape, InProgress
<1>3. /\ ReadBack(a) /\ Inserted(a, Tree(goal[a])) /\ Linked(a, {})
      /\ \A p \in Tree(goal[a]) : counts[a][p] = Cardinality(InboundEdges(found[a][p]))
      /\ \A p \in Tree(goal[a]) \ left[a] : Described(a, p)
  BY <1>2 DEF Stage, At
<1>4. \A p \in Paths : fileRow[p] = NoRow => fileRow'[p] = NoRow
  BY <1>1
<1>5. ASSUME NEW p \in Paths, fileRow[p] # NoRow
      PROVE  /\ fileRow'[p] # NoRow /\ fileRow'[p].sha = fileRow[p].sha /\ fileRow'[p].id = fileRow[p].id
             /\ p \in S => /\ fileRow'[p].parse = Source(goal[a], p).parse
                           /\ fileRow'[p].symbols = Cardinality(Symbols(goal[a], p))
                           /\ fileRow'[p].inbound = counts[a][p]
             /\ p \notin S => fileRow'[p] = fileRow[p]
  <2>1. fileRow[p] \in FileRows
    BY <1>5 DEF TypeInv, GraphTypeOK
  <2>2. CASE p \notin S
    BY <1>1, <1>5, <2>2
  <2>3. CASE p \in S
    <3>1. fileRow[p].id = found[a][p]
      BY <1>3, <1>5 DEF ReadBack, Swept
    <3>2. fileRow'[p] = [fileRow[p] EXCEPT !.parse = Source(goal[a], p).parse,
                                      !.symbols = Cardinality(Symbols(goal[a], p)),
                                      !.inbound = counts[a][p]]
      BY <1>1, <1>5, <2>3, <3>1
    <3>3. fileRow'[p].sha = fileRow[p].sha /\ fileRow'[p].id = fileRow[p].id
          /\ fileRow'[p].parse = Source(goal[a], p).parse
          /\ fileRow'[p].symbols = Cardinality(Symbols(goal[a], p))
          /\ fileRow'[p].inbound = counts[a][p]
      BY <2>1, <3>2 DEF FileRows
    <3>4. fileRow'[p] # NoRow
      <4>1. counts[a][p] \in Nat /\ Cardinality(Symbols(goal[a], p)) \in Nat
        BY <1>2, <1>3, <2>3, ChunksAreParts, SymbolsAreNames DEF TypeInv, GraphTypeOK, PathsTo, Shape, At
      <4>2. Source(goal[a], p).parse \in {"OK", "FAILED", "NOT_PARSED"}
        <5>1. Source(goal[a], p) \in SourceType
          BY <1>2
        <5>. QED BY <5>1 DEF SourceType
      <4>3. fileRow'[p] \in FileRows
        <5> DEFINE parse == Source(goal[a], p).parse
                   symbols == Cardinality(Symbols(goal[a], p))
                   inbound == counts[a][p]
        <5>1. fileRow'[p] = [fileRow[p] EXCEPT !.parse = parse, !.symbols = symbols,
                                               !.inbound = inbound]
          BY <3>2
        <5>2. parse \in {"OK", "FAILED", "NOT_PARSED"} /\ symbols \in Nat /\ inbound \in Nat
          BY <4>1, <4>2
        <5>. HIDE DEF parse, symbols, inbound
        <5>. QED BY <2>1, <5>1, <5>2, RowRewritten
      <4>. QED BY <4>3, GraphIds
    <3>. QED BY <2>3, <3>3, <3>4
  <2>. QED BY <2>2, <2>3
<1>6. ReadBack(a)'
  BY <1>2, <1>3, <1>4, <1>5 DEF ReadBack, Swept
<1>7. \A p \in Tree(goal[a]) \ left'[a] : /\ fileRow'[p].parse = Source(goal[a], p).parse
                                         /\ fileRow'[p].symbols = Cardinality(Symbols(goal[a], p))
                                         /\ fileRow'[p].inbound = counts[a][p]
  <2>. TAKE p \in Tree(goal[a]) \ left'[a]
  <2>1. p \in Paths /\ fileRow[p] # NoRow
    BY <1>2, <1>3 DEF ReadBack, Swept
  <2>2. CASE p \in S
    BY <1>5, <2>1, <2>2
  <2>3. CASE p \notin S
    BY <1>2, <1>3, <1>5, <2>1, <2>3 DEF Described
  <2>. QED BY <2>2, <2>3
<1>8. \A p \in Tree(goal[a]) : counts[a][p] = Cardinality(InboundEdges(found[a][p])')
  BY <1>2, <1>3 DEF InboundEdges
<1>9. (\A p \in Tree(goal[a]) \ left[a] : Described(a, p))'
  BY <1>2, <1>7, <1>8 DEF Described, InboundEdges
<1>10. (\A p \in Tree(goal[a]) : counts[a][p] = Cardinality(InboundEdges(found[a][p])))'
  BY <1>2, <1>8 DEF InboundEdges
<1>11. Inserted(a, Tree(goal[a]))' /\ Linked(a, {})'
  BY <1>2, <1>3, SameDerived DEF Inserted, Linked
<1>12. CASE left[a] \ S = {}
  <2>1. Tree(goal'[a]) \ left'[a] = Tree(goal'[a])
    BY <1>2, <1>12
  <2>. QED BY <1>2, <1>6, <1>9, <1>11, <1>12, <2>1 DEF Stage, At
<1>13. CASE left[a] \ S # {}
  BY <1>2, <1>6, <1>9, <1>10, <1>11, <1>13 DEF Stage, At
<1>. QED BY <1>12, <1>13

LEMMA StageStutter ==
  ASSUME NEW a \in Rebuilds, Stage(a), UNCHANGED graphVars
  PROVE  Stage(a)'
<1>1. UNCHANGED <<fileRow, symbolRows, edgeRows, at, goal, left, found, pending, counts>>
  BY DEF graphVars, graphRows, rebuildVars
<1>2. (Filed(a) => Filed(a)') /\ (Swept(a) => Swept(a)') /\ (ReadBack(a) => ReadBack(a)')
  BY <1>1 DEF Filed, Swept, ReadBack
<1>3. Inserted(a, Tree(goal[a])) => Inserted(a, Tree(goal[a]))'
  BY <1>1, SameDerived DEF Inserted
<1>4. Inserted(a, Tree(goal[a]) \ left[a]) => Inserted(a, Tree(goal[a]) \ left[a])'
  <2>1. ParsedSymbols(a, Tree(goal[a]) \ left[a])' = ParsedSymbols(a, Tree(goal[a]) \ left[a])
    BY <1>1 DEF ParsedSymbols, SymbolOf
  <2>. QED BY <1>1, <2>1 DEF Inserted
<1>5. (Linked(a, pending[a]) => Linked(a, pending[a])') /\ (Linked(a, {}) => Linked(a, {})')
  BY <1>1, SameDerived DEF Linked
<1>6. /\ (\A p \in Tree(goal[a]) \ left[a] : Described(a, p))
           => (\A p \in Tree(goal[a]) \ left[a] : Described(a, p))'
      /\ (\A p \in Tree(goal[a]) : Described(a, p)) => (\A p \in Tree(goal[a]) : Described(a, p))'
  BY <1>1 DEF Described, InboundEdges
<1>7. (\A p \in Tree(goal[a]) : counts[a][p] = Cardinality(InboundEdges(found[a][p])))
        => (\A p \in Tree(goal[a]) : counts[a][p] = Cardinality(InboundEdges(found[a][p])))'
  BY <1>1 DEF InboundEdges
<1>. QED BY <1>1, <1>2, <1>3, <1>4, <1>5, <1>6, <1>7 DEF Stage, At

LEMMA AloneInit == GraphInit => AloneInv
BY DEF GraphInit, AloneInv, Alone, InProgress

LEMMA AloneBegin ==
  ASSUME TypeInv, AloneInv, NEW a \in Rebuilds, BeginRebuild(a)
  PROVE  AloneInv'
<1>1. /\ at' = [at EXCEPT ![a] = "upsert"]
      /\ alone' = [b \in Rebuilds |-> b = a /\ \A d \in Rebuilds : ~InProgress(d)]
      /\ left'[a] = Tree(goal'[a])
  BY DEF BeginRebuild, Goto, TypeInv, GraphTypeOK
<1>2. Stage(a)'
  BY <1>1 DEF Stage, At, Filed, TypeInv, GraphTypeOK
<1>. QED BY <1>1, <1>2 DEF AloneInv, Alone, InProgress, TypeInv, GraphTypeOK

(* A rebuild that moves is in progress, and nobody else moves.             *)
LEMMA OnlyOneMoves ==
  ASSUME TypeInv, NEW a \in Rebuilds, RebuildStep(a) \/ RebuildFails(a)
  PROVE  InProgress(a) /\ alone' = alone /\ \A b \in Rebuilds \ {a} : at'[b] = at[b]
<1>1. CASE RunPass1(a)
  BY <1>1 DEF RunPass1, End, Goto, At, InProgress, TypeInv, GraphTypeOK
<1>2. CASE ReturnResult(a) \/ RebuildFails(a)
  BY <1>2 DEF ReturnResult, RebuildFails, End, Goto, At, InProgress, TypeInv, GraphTypeOK
<1>3. CASE UpsertRepositoryFiles(a) \/ UpdateRepositoryFileGraphMetadata(a)
  BY <1>3 DEF UpsertRepositoryFiles, UpdateRepositoryFileGraphMetadata, Goto, At, InProgress,
              TypeInv, GraphTypeOK
<1>4. CASE SweepStaleRepositoryFiles(a) \/ FindRepositoryFilesByCommit(a) \/ DeleteCodeDependencies(a)
  BY <1>4 DEF SweepStaleRepositoryFiles, FindRepositoryFilesByCommit, DeleteCodeDependencies,
              rebuildVars, Goto, At, InProgress, TypeInv, GraphTypeOK
<1>5. CASE DeleteCodeSymbols(a) \/ ResolveGraph(a) \/ CountInboundEdgesByFile(a)
  BY <1>5 DEF DeleteCodeSymbols, ResolveGraph, CountInboundEdgesByFile,
              Goto, At, InProgress, TypeInv, GraphTypeOK
<1>6. CASE InsertCodeDependencies(a)
  BY <1>6 DEF InsertCodeDependencies, At, InProgress
<1>. QED BY <1>1, <1>2, <1>3, <1>4, <1>5, <1>6 DEF RebuildStep

LEMMA AloneStep == TypeInv /\ AloneInv /\ [GraphNext]_graphVars => AloneInv'
<1>. SUFFICES ASSUME TypeInv, AloneInv, [GraphNext]_graphVars PROVE AloneInv'
  OBVIOUS
<1>1. CASE UNCHANGED graphVars
  BY <1>1, StageStutter DEF AloneInv, Alone, InProgress, graphVars, rebuildVars
<1>2. ASSUME NEW a \in Rebuilds, RebuildStep(a) \/ RebuildFails(a) PROVE AloneInv'
  <2>1. InProgress(a) /\ alone' = alone /\ \A b \in Rebuilds \ {a} : at'[b] = at[b]
    BY <1>2, OnlyOneMoves
  <2>2. \A b \in Rebuilds \ {a} : ~Alone(b)'
    BY <2>1 DEF AloneInv, Alone, InProgress
  <2>3. ASSUME Alone(a)' PROVE Stage(a)' /\ \A b \in Rebuilds \ {a} : ~InProgress(b)'
    <3>1. Alone(a) /\ InProgress(a)'
      BY <2>1, <2>3 DEF Alone
    <3>2. Stage(a) /\ \A b \in Rebuilds \ {a} : ~InProgress(b)
      BY <3>1 DEF AloneInv
    <3>3. ~ReturnResult(a) /\ ~RebuildFails(a)
      BY <3>1 DEF ReturnResult, RebuildFails, End, Goto, InProgress, TypeInv, GraphTypeOK
    <3>4. Stage(a)'
      BY <1>2, <3>1, <3>2, <3>3, StageUpsert, StageSweep, StageReadBack, StageDeleteEdges,
         StageDeleteSymbols, StagePass1, StageResolve, StageInsert, StageCount, StageMetadata
         DEF RebuildStep
    <3>5. \A b \in Rebuilds \ {a} : ~InProgress(b)'
      BY <2>1, <3>2 DEF InProgress
    <3>. QED BY <3>4, <3>5
  <2>. QED BY <2>2, <2>3 DEF AloneInv
<1>. QED BY <1>1, <1>2, AloneBegin DEF GraphNext

LEMMA GraphInvariant == GraphSpec => [](TypeInv /\ AloneInv)
<1>1. TypeInv /\ AloneInv /\ [GraphNext]_graphVars => (TypeInv /\ AloneInv)'
  BY TypeStep, AloneStep
<1>. QED BY <1>1, TypeInit, AloneInit, PTL DEF GraphSpec

(* What an alone rebuild has stored of the edges refers to its own rows.   *)
LEMMA StoredEdgesResolve ==
  ASSUME TypeInv, NEW a \in Rebuilds, goal[a] \in Commits,
         ReadBack(a), Inserted(a, Tree(goal[a])), NEW e \in ResolvedEdges(a)
  PROVE  Resolves(e.from) /\ Resolves(e.to)
<1>. DEFINE S == DOMAIN found[a]
<1>1. PICK l \in Links(goal[a], S) : e = MemoryEdge(a, l)
  BY ResolvedIs
<1>2. S \in SUBSET Paths /\ S = Tree(goal[a]) /\ symbolRows = ParsedSymbols(a, S)
  BY DEF TypeInv, GraphTypeOK, PathsTo, ReadBack, Inserted
<1>3. \A p \in S : found[a][p] \in LiveFiles
  BY <1>2 DEF ReadBack, Swept, LiveFiles
<1>4. \A x \in Ends(goal[a], S) : Resolves(MemoryRow(a, x))
  BY <1>2, <1>3, MemoryRows DEF TypeInv, Resolves
<1>5. l.from \in Ends(goal[a], S) /\ l.to \in Ends(goal[a], S)
  BY <1>2, LinkEnds
<1>. QED BY <1>1, <1>4, <1>5 DEF MemoryEdge

(* Between any two transactions of a rebuild that runs alone, once it has  *)
(* deleted the old edges, every edge refers to rows that exist.            *)
THEOREM FreshEdges == GraphSpec => []FreshEdgesNeverDangle
<1>1. ASSUME TypeInv, AloneInv PROVE FreshEdgesNeverDangle
  <2>. SUFFICES ASSUME NEW a \in Rebuilds, alone[a], at[a] \in PastDeletes, NEW e \in edgeRows
                PROVE  Resolves(e.from) /\ Resolves(e.to)
    BY DEF FreshEdgesNeverDangle
  <2>1. Alone(a) /\ goal[a] \in Commits
    BY <1>1 DEF Alone, InProgress, PastDeletes, TypeInv, Shape
  <2>2. Stage(a)
    BY <1>1, <2>1 DEF AloneInv
  <2>3. ReadBack(a) /\ Inserted(a, Tree(goal[a])) /\ e \in ResolvedEdges(a)
    BY <2>2 DEF Stage, At, PastDeletes, Linked
  <2>. QED BY <1>1, <2>1, <2>3, StoredEdgesResolve
<1>. QED BY <1>1, GraphInvariant, PTL

(***************************************************************************)
(* Rebuilding implements GraphContents.                                    *)
(***************************************************************************)

(* The row of a link's end, by what is stored.                             *)
LiveRow(x) ==
  CASE x.path = Null -> Null
    [] x.path # Null /\ x.name = Null -> LiveFileId(x.path)
    [] OTHER -> LiveSymbolId(x.path, x.name)

LiveEdge(l) ==
  [kind |-> l.kind, from |-> LiveRow(l.from), to |-> LiveRow(l.to), label |-> l.label]

LEMMA ReturnsComplete ==
  ASSUME TypeInv, AloneInv, NEW a \in Rebuilds, alone[a], At(a, "return")
  PROVE  goal[a] \in Commits /\ CompleteFor(goal[a])
<1>1. Alone(a) /\ goal[a] \in Commits
  BY DEF Alone, InProgress, At, TypeInv, Shape
<1>2. Stage(a)
  BY <1>1 DEF AloneInv
<1>3. /\ ReadBack(a) /\ Inserted(a, Tree(goal[a])) /\ Linked(a, {})
      /\ \A p \in Tree(goal[a]) : Described(a, p)
  BY <1>2 DEF Stage
<1>. DEFINE c == goal[a]
            S == Tree(c)
<1>4. S \subseteq Paths /\ DOMAIN found[a] = S
      /\ \A p \in S : fileRow[p] # NoRow /\ found[a][p] = fileRow[p].id
  BY <1>1, <1>3 DEF ReadBack, Swept
<1>5. CompleteFiles(c)
  BY <1>1, <1>3, <1>4 DEF CompleteFiles, ReadBack, Swept, Described
<1>6. \A s : s \in symbolRows <=> \E p \in S : \E n \in Symbols(c, p) : s = SymbolOf(a, p, n)
  BY <1>3 DEF Inserted, ParsedSymbols
<1>7. ASSUME NEW p \in S, NEW n \in Symbols(c, p)
      PROVE  /\ SymbolOf(a, p, n) \in symbolRows
             /\ SymbolOf(a, p, n).file = fileRow[p].id /\ SymbolOf(a, p, n).name = n
             /\ \A t \in symbolRows : t.file = fileRow[p].id /\ t.name = n => t = SymbolOf(a, p, n)
  BY <1>4, <1>6, <1>7 DEF SymbolOf
<1>8. CompleteSymbols(c)
  <2>1. ASSUME NEW s \in symbolRows
        PROVE  \E p \in S : fileRow[p] # NoRow /\ s.file = fileRow[p].id /\ s.name \in Symbols(c, p)
    BY <1>4, <1>6 DEF SymbolOf
  <2>. QED BY <1>7, <2>1 DEF CompleteSymbols
<1>9. \A p \in S : \A n \in Symbols(c, p) : LiveSymbolId(p, n) = SymbolOf(a, p, n)
  BY <1>7 DEF LiveSymbolId
<1>10. \A x \in Ends(c, S) : LiveRow(x) = MemoryRow(a, x)
  <2>. TAKE x \in Ends(c, S)
  <2>1. CASE x = Nowhere
    BY <2>1 DEF LiveRow, MemoryRow, Nowhere
  <2>2. CASE \E p \in S : x = File(p)
    BY <1>4, <2>2 DEF LiveRow, MemoryRow, File, LiveFileId
  <2>3. CASE \E p \in S : \E n \in Symbols(c, p) : x = Symbol(p, n)
    <3>1. PICK p \in S : \E n \in Symbols(c, p) : x = Symbol(p, n)
      BY <2>3
    <3>2. PICK n \in Symbols(c, p) : x = Symbol(p, n)
      BY <3>1
    <3>3. p # Null /\ n # Null
      BY <1>1, <1>4, SymbolsAreNames
    <3>. QED BY <1>9, <3>2, <3>3 DEF LiveRow, MemoryRow, Symbol
  <2>. QED BY <2>1, <2>2, <2>3 DEF Ends
<1>11. \A l \in Links(c, S) : LiveEdge(l) = MemoryEdge(a, l)
  BY <1>1, <1>4, <1>10, LinkEnds DEF LiveEdge, MemoryEdge
<1>12. {EdgeOf(l, LiveFileId, LiveSymbolId) : l \in Links(c, S)} = ResolvedEdges(a)
  <2>1. {EdgeOf(l, LiveFileId, LiveSymbolId) : l \in Links(c, S)} = {LiveEdge(l) : l \in Links(c, S)}
    BY DEF EdgeOf, LiveEdge, LiveRow
  <2>. QED BY <1>4, <1>11, <2>1, ResolvedIs
<1>13. CompleteEdges(c)
  <2>1. edgeRows \subseteq ResolvedEdges(a) /\ Identities(edgeRows) = Identities(ResolvedEdges(a))
    BY <1>3 DEF Linked, Identities
  <2>. QED BY <1>12, <2>1 DEF CompleteEdges
<1>. QED BY <1>1, <1>5, <1>8, <1>13 DEF CompleteFor

(* Whether the rows are the graph of a commit depends only on the rows.    *)
LEMMA SameComplete ==
  ASSUME UNCHANGED graphRows
  PROVE  {c \in Commits : CompleteFor(c)}' = {c \in Commits : CompleteFor(c)}
<1>1. UNCHANGED <<fileRow, symbolRows, edgeRows>>
  BY DEF graphRows
<1>2. \A c \in Commits : CompleteFiles(c)' <=> CompleteFiles(c)
  BY <1>1 DEF CompleteFiles, InboundEdges
<1>3. \A c \in Commits : CompleteSymbols(c)' <=> CompleteSymbols(c)
  BY <1>1 DEF CompleteSymbols
<1>4. \A c \in Commits : CompleteEdges(c)' <=> CompleteEdges(c)
  BY <1>1 DEF CompleteEdges, EdgeOf, LiveFileId, LiveSymbolId
<1>. QED BY <1>2, <1>3, <1>4 DEF CompleteFor

(* Every step of a rebuild is a step of what GraphContents promises: rows  *)
(* change only while a rebuild is in progress, and one that ran alone      *)
(* returns only when they are the graph of its commit, of edges with one   *)
(* identity one, from whatever rows an earlier rebuild left when it died.  *)
THEOREM RebuildsGraphContents == GraphSpec => ImplementsGraphContents
<1>. DEFINE complete == {c \in Commits : CompleteFor(c)}
            returned == {a \in Rebuilds : At(a, "returned")}
<1>1. GraphInit => Contents!Init
  BY DEF GraphInit, Contents!Init, At
<1>2. TypeInv /\ AloneInv /\ [GraphNext]_graphVars => [Contents!Next]_Contents!vars
  <2>. SUFFICES ASSUME TypeInv, AloneInv, [GraphNext]_graphVars
                PROVE  [Contents!Next]_Contents!vars
    OBVIOUS
  <2>0. \A a \in Rebuilds : InProgress(a) <=> goal[a] # NoCommit
    BY DEF TypeInv, Shape
  <2>1. CASE UNCHANGED graphVars
    <3>1. complete' = complete /\ returned' = returned /\ goal' = goal /\ alone' = alone
      BY <2>1, SameComplete DEF graphVars, rebuildVars, At
    <3>. QED BY <3>1 DEF Contents!vars
  <2>2. ASSUME NEW a \in Rebuilds, BeginRebuild(a) PROVE Contents!Begin(a)
    <3>1. complete' = complete
      BY <2>2, SameComplete DEF BeginRebuild
    <3>2. At(a, "unused") /\ at' = [at EXCEPT ![a] = "upsert"]
      BY <2>2 DEF BeginRebuild, Goto
    <3>3. returned' = returned /\ a \notin returned /\ goal[a] = NoCommit
      BY <2>0, <3>2 DEF At, InProgress, TypeInv, GraphTypeOK
    <3>4. \E c \in Commits : goal' = [goal EXCEPT ![a] = c]
      BY <2>2 DEF BeginRebuild
    <3>5. alone' = [b \in Rebuilds |-> b = a /\ \A d \in Rebuilds : goal[d] = NoCommit]
      BY <2>0, <2>2 DEF BeginRebuild
    <3>. QED BY <3>1, <3>3, <3>4, <3>5 DEF Contents!Begin
  <2>3. ASSUME NEW a \in Rebuilds, End(a, "failed"), UNCHANGED graphRows, InProgress(a)
        PROVE  Contents!Abandon(a)
    <3>1. complete' = complete
      BY <2>3, SameComplete
    <3>2. returned' = returned
      BY <2>3 DEF End, Goto, At, InProgress, TypeInv, GraphTypeOK
    <3>. QED BY <2>0, <2>3, <3>1, <3>2 DEF End, Contents!Abandon
  <2>4. ASSUME NEW a \in Rebuilds, ReturnResult(a) PROVE Contents!Finish(a)
    <3>1. complete' = complete
      BY <2>4, SameComplete DEF ReturnResult
    <3>2. At(a, "return") /\ End(a, "returned")
      BY <2>4 DEF ReturnResult
    <3>3. returned' = returned \cup {a}
      BY <3>2 DEF End, Goto, At, TypeInv, GraphTypeOK
    <3>4. alone[a] => goal[a] \in complete
      BY <3>2, ReturnsComplete
    <3>5. goal[a] # NoCommit
      BY <2>0, <3>2 DEF InProgress, At
    <3>. QED BY <3>1, <3>2, <3>3, <3>4, <3>5 DEF End, Contents!Finish
  <2>5. ASSUME NEW a \in Rebuilds, RebuildStep(a), ~ReturnResult(a), ~End(a, "failed")
        PROVE  Contents!Write(a)
    <3>1. InProgress(a) /\ alone' = alone /\ \A b \in Rebuilds \ {a} : at'[b] = at[b]
      BY <2>5, OnlyOneMoves
    <3>2. goal' = goal /\ at'[a] # "returned"
      <4>1. CASE RunPass1(a)
        BY <2>5, <4>1 DEF RunPass1, Goto, TypeInv, GraphTypeOK
      <4>2. CASE UpsertRepositoryFiles(a) \/ UpdateRepositoryFileGraphMetadata(a)
        BY <4>2 DEF UpsertRepositoryFiles, UpdateRepositoryFileGraphMetadata, Goto,
                    TypeInv, GraphTypeOK
      <4>3. CASE SweepStaleRepositoryFiles(a) \/ FindRepositoryFilesByCommit(a)
                 \/ DeleteCodeDependencies(a)
        BY <4>3 DEF SweepStaleRepositoryFiles, FindRepositoryFilesByCommit,
                    DeleteCodeDependencies, rebuildVars, Goto, TypeInv, GraphTypeOK
      <4>4. CASE DeleteCodeSymbols(a) \/ ResolveGraph(a) \/ CountInboundEdgesByFile(a)
        BY <4>4 DEF DeleteCodeSymbols, ResolveGraph, CountInboundEdgesByFile, Goto,
                    TypeInv, GraphTypeOK
      <4>5. CASE InsertCodeDependencies(a)
        BY <4>5 DEF InsertCodeDependencies, At
      <4>. QED BY <2>5, <4>1, <4>2, <4>3, <4>4, <4>5 DEF RebuildStep
    <3>3. returned' = returned
      BY <3>1, <3>2 DEF At, InProgress
    <3>. QED BY <2>0, <3>1, <3>2, <3>3 DEF Contents!Write
  <2>6. ASSUME NEW a \in Rebuilds, RebuildStep(a) PROVE Contents!Next \/ UNCHANGED Contents!vars
    <3>1. CASE ReturnResult(a)
      BY <2>4, <3>1 DEF Contents!Next
    <3>2. CASE End(a, "failed") /\ ~ReturnResult(a)
      <4>1. InProgress(a)
        BY <2>6, OnlyOneMoves
      <4>2. RunPass1(a)
        BY <2>6, <3>2 DEF RebuildStep, End, Goto, UpsertRepositoryFiles, SweepStaleRepositoryFiles,
           FindRepositoryFilesByCommit, DeleteCodeDependencies, DeleteCodeSymbols, ResolveGraph,
           InsertCodeDependencies, CountInboundEdgesByFile, UpdateRepositoryFileGraphMetadata,
           At, TypeInv, GraphTypeOK
      <4>3. UNCHANGED graphRows
        BY <3>2, <4>2 DEF RunPass1, End, Goto, At, graphRows, TypeInv, GraphTypeOK
      <4>. QED BY <2>3, <3>2, <4>1, <4>3 DEF Contents!Next
    <3>. QED BY <2>5, <2>6, <3>1, <3>2 DEF Contents!Next
  <2>. QED BY <2>1, <2>2, <2>3, <2>6 DEF GraphNext, RebuildFails, Contents!Next
<1>. QED BY <1>1, <1>2, GraphInvariant, PTL DEF GraphSpec, ImplementsGraphContents, Contents!Spec

(***************************************************************************)
(* Rebuilds wind down: the safety half of RebuildsEnd.                     *)
(***************************************************************************)

Phase(step) ==
  CASE step = "unused" -> 11 [] step = "upsert" -> 10 [] step = "sweep" -> 9
    [] step = "read-back" -> 8 [] step = "delete-edges" -> 7 [] step = "delete-symbols" -> 6
    [] step = "parse" -> 5 [] step = "resolve" -> 4 [] step = "insert-edges" -> 3
    [] step = "metadata" -> 2 [] step = "return" -> 1 [] OTHER -> 0

(* What the loops of a rebuild still have before them.                     *)
Todo(a) == Cardinality(left[a]) + Cardinality(pending[a])

(* The rebuild gets on to a later phase, or its loop through some files.   *)
Nearer(a) ==
  \/ Phase(at'[a]) < Phase(at[a])
  \/ at'[a] = at[a] /\ Todo(a)' < Todo(a)

(* Every transaction of a rebuild brings it nearer to its end, on every    *)
(* attempt and with every batch size, and no other rebuild throws it back. *)
RebuildsWindDown ==
  [][\A a \in Rebuilds :
       /\ Todo(a) \in Nat
       /\ Nearer(a) \/ UNCHANGED <<at[a], Todo(a)>>
       /\ BeginRebuild(a) \/ RebuildStep(a) \/ RebuildFails(a) => Nearer(a)]_graphVars

BatchInv == \A a \in Rebuilds : InProgress(a) => batch[a] \in Nat \ {0}

LEMMA BatchStep == TypeInv /\ BatchInv /\ [GraphNext]_graphVars => BatchInv'
<1>. SUFFICES ASSUME TypeInv, BatchInv, [GraphNext]_graphVars PROVE BatchInv'
  OBVIOUS
<1>1. CASE UNCHANGED graphVars
  BY <1>1 DEF BatchInv, InProgress, graphVars, rebuildVars
<1>2. ASSUME NEW a \in Rebuilds, BeginRebuild(a) PROVE BatchInv'
  <2>1. PICK attempt \in 0 .. ATTEMPTS : batch' = [batch EXCEPT ![a] = batchSizeForAttempt(attempt)]
    BY <1>2 DEF BeginRebuild
  <2>2. at' = [at EXCEPT ![a] = "upsert"]
    BY <1>2 DEF BeginRebuild, Goto
  <2>. QED BY <2>1, <2>2, BatchSizes DEF BatchInv, InProgress, TypeInv, GraphTypeOK
<1>3. ASSUME NEW a \in Rebuilds, RebuildStep(a) \/ RebuildFails(a) PROVE BatchInv'
  <2>1. InProgress(a) /\ \A b \in Rebuilds \ {a} : at'[b] = at[b]
    BY <1>3, OnlyOneMoves
  <2>2. /\ \A b \in Rebuilds \ {a} : batch'[b] = batch[b]
        /\ batch'[a] = batch[a] \/ ~InProgress(a)'
    <3>1. CASE RunPass1(a)
      BY <3>1 DEF RunPass1, End, Goto, InProgress, TypeInv, GraphTypeOK
    <3>2. CASE ReturnResult(a) \/ RebuildFails(a)
      BY <3>2 DEF ReturnResult, RebuildFails, End, Goto, InProgress, TypeInv, GraphTypeOK
    <3>3. CASE ~RunPass1(a) /\ ~ReturnResult(a) /\ ~RebuildFails(a)
      BY <1>3, <3>3 DEF RebuildStep, UpsertRepositoryFiles, SweepStaleRepositoryFiles,
         FindRepositoryFilesByCommit, DeleteCodeDependencies, DeleteCodeSymbols, ResolveGraph,
         InsertCodeDependencies, CountInboundEdgesByFile, UpdateRepositoryFileGraphMetadata, rebuildVars
    <3>. QED BY <3>1, <3>2, <3>3
  <2>. QED BY <2>1, <2>2 DEF BatchInv, InProgress
<1>. QED BY <1>1, <1>2, <1>3 DEF GraphNext

LEMMA PathSetsAreFinite ==
  ASSUME TypeInv, NEW a \in Rebuilds
  PROVE  /\ IsFiniteSet(left[a]) /\ IsFiniteSet(pending[a])
         /\ Cardinality(left[a]) \in Nat /\ Cardinality(pending[a]) \in Nat /\ Todo(a) \in Nat
<1>1. IsFiniteSet(left[a]) /\ IsFiniteSet(pending[a])
  BY GraphConstants, FS_Subset DEF TypeInv, GraphTypeOK
<1>2. Cardinality(left[a]) \in Nat /\ Cardinality(pending[a]) \in Nat
  BY <1>1, FS_CardinalityType
<1>. QED BY <1>1, <1>2 DEF Todo

(* A statement takes at least one path while there is one.                 *)
LEMMA ChunksGetOn ==
  ASSUME NEW S, IsFiniteSet(S), NEW n \in Nat \ {0}, NEW T \in Chunks(S, n), S \ T # {}
  PROVE  Cardinality(S \ T) < Cardinality(S)
<1>1. Cardinality(S) \in Nat /\ Cardinality(S) # 0
  BY FS_CardinalityType, FS_EmptySet
<1>2. T \subseteq S /\ T # {}
  BY <1>1, FS_EmptySet DEF Chunks
<1>. QED BY <1>2, FS_Subset, FS_CardinalityType

LEMMA GroupsGetOn ==
  ASSUME NEW E, IsFiniteSet(E), E # {}
  PROVE  Cardinality(E \ NextGroup(E)) < Cardinality(E)
BY GroupsAreParts, FS_Subset, FS_CardinalityType

LEMMA RebuildGetsOn ==
  ASSUME TypeInv, BatchInv, NEW a \in Rebuilds, BeginRebuild(a) \/ RebuildStep(a) \/ RebuildFails(a)
  PROVE  /\ Nearer(a)
         /\ \A b \in Rebuilds \ {a} : at'[b] = at[b] /\ left'[b] = left[b] /\ pending'[b] = pending[b]
<1> DEFINE Done == /\ Nearer(a)
                   /\ \A b \in Rebuilds \ {a} : /\ at'[b] = at[b] /\ left'[b] = left[b]
                                                /\ pending'[b] = pending[b]
<1>1. /\ DOMAIN at = Rebuilds /\ DOMAIN left = Rebuilds /\ DOMAIN pending = Rebuilds
      /\ at \in [Rebuilds -> Steps] /\ left \in [Rebuilds -> SUBSET Paths]
      /\ pending \in [Rebuilds -> SUBSET EdgeRows]
  BY DEF TypeInv, GraphTypeOK
<1>2. ASSUME NEW step, Goto(a, step), Phase(step) < Phase(at[a])
      PROVE  Nearer(a) /\ \A b \in Rebuilds \ {a} : at'[b] = at[b]
  BY <1>1, <1>2 DEF Goto, Nearer
<1>3. ASSUME NEW n \in Nat \ {0}, NEW S \in Chunks(left[a], n), left' = [left EXCEPT ![a] = @ \ S],
             UNCHANGED pending, NEW next, Phase(next) < Phase(at[a]),
             Goto(a, IF left[a] \ S = {} THEN next ELSE at[a])
      PROVE  Done
  <2>1. CASE left[a] \ S = {}
    BY <1>1, <1>2, <1>3, <2>1
  <2>2. CASE left[a] \ S # {}
    <3>1. Cardinality(left[a] \ S) < Cardinality(left[a])
      BY <1>3, <2>2, PathSetsAreFinite, ChunksGetOn
    <3>2. left'[a] = left[a] \ S /\ pending'[a] = pending[a] /\ at'[a] = at[a]
      BY <1>1, <1>3, <2>2 DEF Goto
    <3>3. Cardinality(left[a] \ S) \in Nat
      BY PathSetsAreFinite, FS_Subset, FS_CardinalityType
    <3>4. Nearer(a)
      BY <3>1, <3>2, <3>3, PathSetsAreFinite DEF Nearer, Todo
    <3>. QED BY <1>1, <1>3, <2>2, <3>4 DEF Goto
  <2>. QED BY <2>1, <2>2
<1>4. ASSUME NEW outcome \in {"returned", "failed"}, End(a, outcome), InProgress(a)
      PROVE  Done
  <2>1. Phase(outcome) < Phase(at[a])
    BY <1>1, <1>4 DEF Phase, InProgress, Steps
  <2>. QED BY <1>1, <1>2, <1>4, <2>1 DEF End
<1>. HIDE DEF Done
<1>. SUFFICES Done
  BY DEF Done
<1>5. CASE BeginRebuild(a)
  <2>1. at[a] = "unused" /\ Goto(a, "upsert") /\ UNCHANGED pending
    BY <1>5 DEF BeginRebuild, At
  <2>2. PICK c \in Commits : left' = [left EXCEPT ![a] = Tree(c)]
    BY <1>5 DEF BeginRebuild
  <2>3. Phase("upsert") < Phase(at[a])
    BY <2>1 DEF Phase
  <2>. QED BY <1>1, <1>2, <2>1, <2>2, <2>3 DEF Done
<1>6. CASE UpsertRepositoryFiles(a)
  <2>1. at[a] = "upsert" /\ UNCHANGED pending /\ Phase("sweep") < Phase(at[a])
    BY <1>6 DEF UpsertRepositoryFiles, At, Phase
  <2>2. PICK S \in Chunks(left[a], ROW_BATCH) : /\ left' = [left EXCEPT ![a] = @ \ S]
                                              /\ Goto(a, IF left[a] \ S = {} THEN "sweep" ELSE "upsert")
    BY <1>6 DEF UpsertRepositoryFiles
  <2>. QED BY <1>3, <2>1, <2>2, GraphConstants
<1>7. CASE SweepStaleRepositoryFiles(a) \/ FindRepositoryFilesByCommit(a) \/ DeleteCodeDependencies(a)
  <2>1. /\ \E step : Goto(a, step) /\ Phase(step) < Phase(at[a])
        /\ UNCHANGED <<left, pending>>
    BY <1>7 DEF SweepStaleRepositoryFiles, FindRepositoryFilesByCommit, DeleteCodeDependencies,
                rebuildVars, At, Phase
  <2>. QED BY <1>2, <2>1 DEF Done
<1>8. CASE DeleteCodeSymbols(a) \/ ResolveGraph(a) \/ CountInboundEdgesByFile(a)
  <2>1. \E step : Goto(a, step) /\ Phase(step) < Phase(at[a])
    BY <1>8 DEF DeleteCodeSymbols, ResolveGraph, CountInboundEdgesByFile, At, Phase
  <2>2. \A b \in Rebuilds \ {a} : left'[b] = left[b] /\ pending'[b] = pending[b]
    BY <1>1, <1>8 DEF DeleteCodeSymbols, ResolveGraph, CountInboundEdgesByFile
  <2>. QED BY <1>2, <2>1, <2>2 DEF Done
<1>9. CASE RunPass1(a)
  <2>1. at[a] = "parse" /\ Phase("resolve") < Phase(at[a]) /\ InProgress(a)
    BY <1>9 DEF RunPass1, At, Phase, InProgress
  <2>2. PICK S \in Chunks(left[a], batch[a]) :
          \/ End(a, "failed")
          \/ /\ left' = [left EXCEPT ![a] = @ \ S] /\ UNCHANGED pending
             /\ Goto(a, IF left[a] \ S = {} THEN "resolve" ELSE "parse")
    BY <1>9 DEF RunPass1
  <2>. QED BY <1>3, <1>4, <2>1, <2>2 DEF BatchInv
<1>10. CASE InsertCodeDependencies(a)
  <2>1. /\ pending' = [pending EXCEPT ![a] = @ \ NextGroup(pending[a])] /\ pending[a] # {}
        /\ UNCHANGED <<at, left>>
    BY <1>10 DEF InsertCodeDependencies
  <2>2. Cardinality(pending'[a]) < Cardinality(pending[a]) /\ Cardinality(pending'[a]) \in Nat
    BY <1>1, <2>1, PathSetsAreFinite, GroupsGetOn, FS_Subset, FS_CardinalityType
  <2>3. Nearer(a)
    BY <2>1, <2>2, PathSetsAreFinite DEF Nearer, Todo
  <2>. QED BY <1>1, <2>1, <2>3 DEF Done
<1>11. CASE UpdateRepositoryFileGraphMetadata(a)
  <2>1. at[a] = "metadata" /\ UNCHANGED pending
    BY <1>11 DEF UpdateRepositoryFileGraphMetadata, At
  <2>3. Phase("return") < Phase(at[a])
    BY <2>1 DEF Phase
  <2>2. PICK S \in Chunks(left[a], ROW_BATCH) :
          /\ left' = [left EXCEPT ![a] = @ \ S]
          /\ Goto(a, IF left[a] \ S = {} THEN "return" ELSE "metadata")
    BY <1>11 DEF UpdateRepositoryFileGraphMetadata
  <2>. QED BY <1>3, <2>1, <2>2, <2>3, GraphConstants
<1>12. CASE ReturnResult(a) \/ RebuildFails(a)
  <2>1. InProgress(a) /\ (End(a, "returned") \/ End(a, "failed"))
    BY <1>12 DEF ReturnResult, RebuildFails, At, InProgress
  <2>. QED BY <1>4, <2>1
<1>. QED BY <1>5, <1>6, <1>7, <1>8, <1>9, <1>10, <1>11, <1>12 DEF RebuildStep

(* For all commits and batch sizes, and rebuilds that overlap and die.     *)
THEOREM RebuildsAlwaysWindDown == GraphSpec => RebuildsWindDown
<1>1. GraphInit => BatchInv
  BY DEF GraphInit, BatchInv, InProgress
<1>2. ASSUME TypeInv, BatchInv, [GraphNext]_graphVars, NEW a \in Rebuilds
      PROVE  /\ Todo(a) \in Nat
             /\ Nearer(a) \/ UNCHANGED <<at[a], Todo(a)>>
             /\ BeginRebuild(a) \/ RebuildStep(a) \/ RebuildFails(a) => Nearer(a)
  <2>1. Todo(a) \in Nat
    BY <1>2, PathSetsAreFinite
  <2>2. BeginRebuild(a) \/ RebuildStep(a) \/ RebuildFails(a) => Nearer(a)
    BY <1>2, RebuildGetsOn
  <2>3. Nearer(a) \/ UNCHANGED <<at[a], Todo(a)>>
    <3>1. CASE \E b \in Rebuilds \ {a} : BeginRebuild(b) \/ RebuildStep(b) \/ RebuildFails(b)
      <4>1. PICK b \in Rebuilds \ {a} : BeginRebuild(b) \/ RebuildStep(b) \/ RebuildFails(b)
        BY <3>1
      <4>2. at'[a] = at[a] /\ left'[a] = left[a] /\ pending'[a] = pending[a]
        BY <1>2, <4>1, RebuildGetsOn
      <4>. QED BY <4>2 DEF Todo
    <3>2. CASE UNCHANGED graphVars
      BY <3>2 DEF graphVars, rebuildVars, Todo
    <3>. QED BY <1>2, <2>2, <3>1, <3>2 DEF GraphNext
  <2>. QED BY <2>1, <2>2, <2>3
<1>3. TypeInv /\ BatchInv /\ [GraphNext]_graphVars =>
        [\A a \in Rebuilds :
           /\ Todo(a) \in Nat
           /\ Nearer(a) \/ UNCHANGED <<at[a], Todo(a)>>
           /\ BeginRebuild(a) \/ RebuildStep(a) \/ RebuildFails(a) => Nearer(a)]_graphVars
  BY <1>2
<1>. QED BY <1>1, <1>3, TypeInit, TypeStep, BatchStep, PTL DEF GraphSpec, RebuildsWindDown
=============================================================================
