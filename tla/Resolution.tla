----------------------------- MODULE Resolution -----------------------------
(***************************************************************************)
(* What the edges of the graph between symbols are guessed from: calls,    *)
(* and the names a class extends or implements, resolved by rules of       *)
(* falling confidence over the files of one commit.  tree changes by one   *)
(* file per commit, and the graph is a function of it.                     *)
(*                                                                         *)
(* A file has its symbols in order, its imports in order, and its uses of  *)
(* names.  Functions, arrow functions, hooks and components are all        *)
(* FUNCTION here, and classes and interfaces CLASS.                        *)
(***************************************************************************)
EXTENDS ImportResolution

CONSTANTS
  Files,           \* the paths a commit may have
  MayHold(_),     \* MayHold(p): what the file at p may hold
  Specifiers,      \* what may be imported
  NoName,          \* undefined
  CALL_AMBIGUITY_MAX_CANDIDATES

ASSUME ResolutionConstants ==
  /\ CALL_AMBIGUITY_MAX_CANDIDATES \in Nat \ {0}
  /\ \A p \in Files : p \in Path \ {<<>>, NoPath} /\ RESOLVED(p) # NoPath
  /\ \A s \in Specifiers : s.path \in Path \ {<<>>}
  /\ \A p \in Files : \A c \in MayHold(p) :
       \A i \in DOMAIN c.imports : c.imports[i].specifier \in Specifiers

VARIABLE tree      \* tree[p]: the content of p, for the files there are

commitVars == <<tree>>

SymbolsOf(t) == UNION {{p} \X DOMAIN t[p].symbols : p \in DOMAIN t}
SymbolAt(t, s) == t[s[1]].symbols[s[2]]
-----------------------------------------------------------------------------
BARE_CALL_KINDS == {"FUNCTION"}
CALLABLE_KINDS == {"FUNCTION", "METHOD"}
HERITAGE_KINDS == {"CLASS"}

(* What a use may name, in its own file and among all symbols.             *)
KindsOf(use) ==
  IF use.kind # "CALLS" THEN HERITAGE_KINDS
  ELSE IF use.receiver = NoName THEN BARE_CALL_KINDS ELSE {"METHOD"}

First(S) == {i \in S : \A j \in S : i <= j}

(* A method of the caller's own class, if it is called on this.            *)
resolveSameFile(t, p, use) ==
  LET symbols == t[p].symbols
      caller == symbols[use.from]
      named == {i \in DOMAIN symbols : symbols[i].name = use.name /\ symbols[i].kind \in KindsOf(use)}
      own == {i \in named : /\ use.receiver = "this" /\ caller.kind = "METHOD" /\ caller.parent # NoName
                            /\ symbols[i].parent = caller.parent}
  IN {p} \X First(IF own # {} THEN own ELSE named)

(* Only the first import that binds the name is looked at.                 *)
ImportOf(t, p, use) ==
  First({i \in DOMAIN t[p].imports :
           /\ ~t[p].imports[i].isTypeOnly
           /\ IF use.receiver = NoName THEN use.name \in t[p].imports[i].named
                                       ELSE use.receiver = t[p].imports[i].namespace})

ResolutionOf(t, p, i) == resolveImport(t[p].imports[i].specifier, p, DOMAIN t)

resolveNamedImport(t, p, use) ==
  LET kinds == IF use.kind = "CALLS" THEN CALLABLE_KINDS ELSE HERITAGE_KINDS
      targets == {q \in DOMAIN t : \E i \in ImportOf(t, p, use) : ResolutionOf(t, p, i) = RESOLVED(q)}
  IN UNION {{q} \X First({k \in DOMAIN t[q].symbols :
                            t[q].symbols[k].name = use.name /\ t[q].symbols[k].kind \in kinds}) : q \in targets}

packageName(p) == LET pkg == Nearest(PACKAGES, p) IN IF pkg = NoPath THEN NoName ELSE pkg.name

PER_PACKAGE == \E pkg \in PACKAGES : pkg.inWorkspace

BugOneBucket(p) == NoName

IndexKey(p) == IF PER_PACKAGE THEN packageName(p) ELSE NoName

(* The class of a method that is called must be imported.                  *)
isReceiverClassInScope(t, p, use, class) ==
  \/ use.receiver = "this"
  \/ \E i \in DOMAIN t[p].imports :
       /\ ~t[p].imports[i].isTypeOnly /\ class # NoName
       /\ t[p].imports[i].default = class \/ class \in t[p].imports[i].named

candidatesForName(t, p, use) ==
  {s \in SymbolsOf(t) :
     /\ IndexKey(s[1]) = IndexKey(p)
     /\ SymbolAt(t, s).name = use.name /\ SymbolAt(t, s).kind \in KindsOf(use)
     /\ KindsOf(use) = {"METHOD"} => isReceiverClassInScope(t, p, use, SymbolAt(t, s).parent)}

(* Of several, those of the package, or of the top directory, or all.      *)
narrowAmbiguousCandidates(p, candidates) ==
  LET samePackage == {s \in candidates : packageName(p) # NoName /\ packageName(s[1]) = packageName(p)}
      sameTopLevelDir == {s \in candidates : Head(s[1]) = Head(p)}
  IN IF samePackage # {} THEN samePackage
     ELSE IF sameTopLevelDir # {} THEN sameTopLevelDir ELSE candidates

(* Too many candidates are none.                                           *)
Guesses(p, candidates) ==
  LET narrowed == narrowAmbiguousCandidates(p, candidates)
  IN IF Cardinality(narrowed) > CALL_AMBIGUITY_MAX_CANDIDATES THEN {} ELSE narrowed

(* An edge's confidence follows from its rule and how many share it.       *)
Edges(rule, targets) == {[to |-> s, rule |-> rule, of |-> Cardinality(targets)] : s \in targets}

BugGuessesFirst(t, p, use) ==
  LET candidates == candidatesForName(t, p, use)
  IN IF Cardinality(candidates) = 1 THEN Edges("UNIQUE_REPO_MATCH", candidates)
     ELSE IF resolveSameFile(t, p, use) # {} THEN Edges("SAME_FILE", resolveSameFile(t, p, use))
     ELSE IF resolveNamedImport(t, p, use) # {} THEN Edges("NAMED_IMPORT", resolveNamedImport(t, p, use))
     ELSE Edges("AMBIGUOUS_TIEBREAK", Guesses(p, candidates))

(* The edges of one use in p, by the first rule that applies.              *)
resolveUse(t, p, use) ==
  LET candidates == candidatesForName(t, p, use)
  IN IF resolveSameFile(t, p, use) # {} THEN Edges("SAME_FILE", resolveSameFile(t, p, use))
     ELSE IF resolveNamedImport(t, p, use) # {} THEN Edges("NAMED_IMPORT", resolveNamedImport(t, p, use))
     ELSE IF Cardinality(candidates) = 1 THEN Edges("UNIQUE_REPO_MATCH", candidates)
     ELSE Edges("AMBIGUOUS_TIEBREAK", Guesses(p, candidates))
-----------------------------------------------------------------------------
TreeInit == tree = [p \in {} |-> NoPath]

Write(p, content) ==
  /\ p \in DOMAIN tree => tree[p] # content
  /\ tree' = [q \in DOMAIN tree \cup {p} |-> IF q = p THEN content ELSE tree[q]]

Remove(p) ==
  /\ p \in DOMAIN tree
  /\ tree' = [q \in DOMAIN tree \ {p} |-> tree[q]]

TreeNext == \E p \in Files : Remove(p) \/ \E c \in MayHold(p) : Write(p, c)

TreeSpec == TreeInit /\ [][TreeNext]_commitVars
-----------------------------------------------------------------------------
Changed(p) ==
  IF p \in DOMAIN tree /\ p \in DOMAIN tree' THEN tree[p] # tree'[p]
  ELSE p \in DOMAIN tree \/ p \in DOMAIN tree'

(* An import means another file, or no file any more, only if that very    *)
(* file came or went: a file that is added takes over the imports it is    *)
(* the better candidate for and leaves all others as they are, also those  *)
(* of aliases, base directories, exports and entry points                  *)
(* (import-resolver.ts:520-565).                                           *)
ImportsFollowTheirFiles ==
  [][\A p \in DOMAIN tree \cup DOMAIN tree', s \in Specifiers :
       LET old == resolveImport(s, p, DOMAIN tree)
           new == resolveImport(s, p, DOMAIN tree')
       IN old # new => \E q \in Files : Changed(q) /\ RESOLVED(q) \in {old, new}]_commitVars

Uses(t) == UNION {{p} \X t[p].uses : p \in DOMAIN t}

Imports(t, p) == {q \in Files : \E i \in DOMAIN t[p].imports : ResolutionOf(t, p, i) = RESOLVED(q)}

Known(t, p, use) == resolveSameFile(t, p, use) # {} \/ resolveNamedImport(t, p, use) # {}

(* A commit changes the edges of a file it does not touch only through the *)
(* files that one imports or, for a use that no import or declaration      *)
(* settles, through files of its own package: what other workspace         *)
(* packages name their symbols does not matter (call-resolver.ts:143-156). *)
UsesFollowTheirFiles ==
  [][\A u \in Uses(tree) :
       LET p == u[1]
       IN (/\ ~Changed(p)
           /\ \A q \in Imports(tree, p) \cup Imports(tree', p) : ~Changed(q)
           /\ Known(tree, p, u[2]) \/ \A q \in Files : Changed(q) => IndexKey(q) # IndexKey(p))
          => resolveUse(tree, p, u[2]) = resolveUse(tree', p, u[2])]_commitVars

(* An edge that leaves its package is backed by an import of the file it   *)
(* leads to, so that the two kinds of edges agree on which packages depend *)
(* on each other (call-resolver.ts:147-151).                               *)
OtherPackagesAreImported ==
  PER_PACKAGE => \A u \in Uses(tree) : \A e \in resolveUse(tree, u[1], u[2]) :
    packageName(e.to[1]) # packageName(u[1]) => e.to[1] \in Imports(tree, u[1])
=============================================================================
