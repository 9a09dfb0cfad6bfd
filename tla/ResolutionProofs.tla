-------------------------- MODULE ResolutionProofs --------------------------
(***************************************************************************)
(* Proofs about ImportResolution and Resolution, for all repositories,     *)
(* manifests and specifiers.                                               *)
(***************************************************************************)
EXTENDS Resolution, SequenceTheorems, WellFoundedInduction, TLAPS

(* What is found among the files S is also found among T, or the file      *)
(* itself is gone, or a better one has come.                               *)
Moves(x, y, S, T) == x # y => x \in S \ T \/ y \in T \ S

ResultMoves(r, s, S, T) ==
  r # s => (\E q \in S \ T : r = RESOLVED(q)) \/ (\E q \in T \ S : s = RESOLVED(q))

(* A nonempty set of numbers has a least one.                              *)
LEMMA Least ==
  ASSUME NEW S \in SUBSET Nat, S # {}
  PROVE  \E n \in S : \A x \in S : n <= x
<1>1. PICK n \in S : \A x \in S : ~(<<x, n>> \in OpToRel(<, Nat))
  BY WFMin, NatLessThanWellFounded
<1>2. \A x \in S : ~(x < n)
  BY <1>1 DEF OpToRel
<1>. QED BY <1>2

(* A bounded one has a greatest one.                                       *)
LEMMA Greatest ==
  ASSUME NEW S \in SUBSET Nat, S # {}, NEW m \in Nat, \A x \in S : x <= m
  PROVE  \E n \in S : \A x \in S : x <= n
<1>. DEFINE T == {m - x : x \in S}
<1>1. T \in SUBSET Nat /\ T # {}
  <2>1. PICK x \in S : TRUE
    OBVIOUS
  <2>2. m - x \in T
    BY <2>1
  <2>3. \A y \in S : m - y \in Nat
    OBVIOUS
  <2>. QED BY <2>2, <2>3
<1>2. PICK t \in T : \A y \in T : t <= y
  <2>. HIDE DEF T
  <2>. QED BY <1>1, Least
<1>3. PICK n \in S : t = m - n
  BY <1>2
<1>4. \A x \in S : m - n <= m - x
  BY <1>2, <1>3
<1>. QED BY <1>4
-----------------------------------------------------------------------------
(* Candidates that are looked at in order: the first hit moves only with   *)
(* the file that it is.                                                    *)
LEMMA FirstHitMoves ==
  ASSUME NEW c, DOMAIN c \subseteq Nat, NEW S, NEW T
  PROVE  Moves(FirstHit(c, S), FirstHit(c, T), S, T)
<1>. DEFINE hs == {i \in DOMAIN c : c[i] \in S}
            ht == {i \in DOMAIN c : c[i] \in T}
            i == CHOOSE n \in hs : \A k \in hs : n <= k
            j == CHOOSE n \in ht : \A k \in ht : n <= k
<1>1. hs # {} => i \in hs /\ \A k \in hs : i <= k
  <2>1. hs \in SUBSET Nat
    OBVIOUS
  <2>. HIDE DEF hs
  <2>. QED BY <2>1, Least
<1>2. ht # {} => j \in ht /\ \A k \in ht : j <= k
  <2>1. ht \in SUBSET Nat
    OBVIOUS
  <2>. HIDE DEF ht
  <2>. QED BY <2>1, Least
<1>3. /\ FirstHit(c, S) = IF hs = {} THEN NoPath ELSE c[i]
      /\ FirstHit(c, T) = IF ht = {} THEN NoPath ELSE c[j]
  BY DEF FirstHit
<1>. HIDE DEF i, j
<1>4. CASE hs = {}
  BY <1>2, <1>3, <1>4 DEF Moves
<1>5. CASE ht = {}
  BY <1>1, <1>3, <1>5 DEF Moves
<1>6. CASE hs # {} /\ ht # {}
  <2>1. c[i] \in T => j <= i
    BY <1>1, <1>2, <1>6
  <2>2. c[j] \in S => i <= j
    BY <1>1, <1>2, <1>6
  <2>3. i \in Nat /\ j \in Nat /\ c[i] \in S /\ c[j] \in T
    BY <1>1, <1>2, <1>6
  <2>4. (c[i] \in T /\ c[j] \in S) => i = j
    BY <2>1, <2>2, <2>3
  <2>5. (c[i] \in T /\ c[j] \in S) => c[i] = c[j]
    BY <2>4
  <2>. QED BY <1>3, <1>6, <2>3, <2>5 DEF Moves
<1>. QED BY <1>4, <1>5, <1>6

LEMMA LadderIsOrdered ==
  ASSUME NEW path
  PROVE  DOMAIN Ladder(path) \subseteq Nat
<1>1. CASE path = <<>>
  BY <1>1 DEF Ladder
<1>2. CASE path # <<>>
  <2>. DEFINE ext == path[Len(path)][2]
              swapped == IF ext \in DOMAIN JS_TO_TS_SWAP
                         THEN <<WithExtension(path, JS_TO_TS_SWAP[ext])>> ELSE <<>>
              extended == [i \in DOMAIN RESOLUTION_EXTENSIONS |-> WithExtension(path, RESOLUTION_EXTENSIONS[i])]
              index == [i \in DOMAIN RESOLUTION_EXTENSIONS |-> Append(path, <<"index", RESOLUTION_EXTENSIONS[i]>>)]
              Z == {WithExtension(path, JS_TO_TS_SWAP[ext]), path} \cup {extended[i] : i \in 1 .. 6}
                     \cup {index[i] : i \in 1 .. 6}
  <2>1. DOMAIN RESOLUTION_EXTENSIONS = 1 .. 6
    BY DEF RESOLUTION_EXTENSIONS
  <2>2. extended \in Seq(Z) /\ index \in Seq(Z)
    BY <2>1
  <2>3. swapped \in Seq(Z) /\ <<path>> \in Seq(Z)
    <3>. DEFINE e == JS_TO_TS_SWAP[ext]
    <3>1. WithExtension(path, e) \in Z /\ path \in Z
      OBVIOUS
    <3>. HIDE DEF Z, e, ext
    <3>2. <<WithExtension(path, e)>> \in Seq(Z) /\ <<path>> \in Seq(Z) /\ <<>> \in Seq(Z)
      BY <3>1
    <3>. QED BY <3>2 DEF e
  <2>4. Ladder(path) = swapped \o <<path>> \o (IF ext = "" THEN extended ELSE <<>>) \o index
    BY <1>2 DEF Ladder
  <2>5. Ladder(path) \in Seq(Z)
    <3>. DEFINE tail == IF ext = "" THEN extended ELSE <<>>
    <3>. HIDE DEF swapped, extended, index, Z, ext
    <3>1. <<>> \in Seq(Z)
      OBVIOUS
    <3>2. tail \in Seq(Z)
      BY <2>2, <3>1, Zenon
    <3>3. Ladder(path) = swapped \o <<path>> \o tail \o index
      BY <2>4
    <3>4. swapped \o <<path>> \in Seq(Z)
      BY <2>3, ConcatProperties
    <3>. HIDE DEF tail
    <3>5. swapped \o <<path>> \o tail \in Seq(Z)
      BY <3>2, <3>4, ConcatProperties
    <3>. QED BY <2>2, <3>3, <3>5, ConcatProperties
  <2>. HIDE DEF Z
  <2>. QED BY <2>5
<1>. QED BY <1>1, <1>2

LEMMA FileMoves ==
  ASSUME NEW dir, NEW segments, NEW S, NEW T
  PROVE  Moves(FileAt(dir, segments, S), FileAt(dir, segments, T), S, T)
<1>. DEFINE path == resolveRepoRelativePath(dir, segments)
<1>1. Moves(FirstHit(Ladder(path), S), FirstHit(Ladder(path), T), S, T)
  <2>. HIDE DEF path
  <2>. QED BY FirstHitMoves, LadderIsOrdered
<1>. HIDE DEF path
<1>. QED BY <1>1 DEF FileAt, resolveViaExtensionLadder, Moves, path

LEMMA LadderMoves ==
  ASSUME NEW path, NEW S, NEW T
  PROVE  Moves(resolveViaExtensionLadder(path, S), resolveViaExtensionLadder(path, T), S, T)
<1>1. Moves(FirstHit(Ladder(path), S), FirstHit(Ladder(path), T), S, T)
  BY FirstHitMoves, LadderIsOrdered
<1>. QED BY <1>1 DEF resolveViaExtensionLadder, Moves

LEMMA TargetMoves ==
  ASSUME NEW targets, DOMAIN targets \subseteq Nat, NEW key, NEW path, NEW dir,
         NEW S, NEW T, NoPath \notin S, NoPath \notin T
  PROVE  Moves(FirstTarget(targets, key, path, dir, S), FirstTarget(targets, key, path, dir, T), S, T)
<1>. DEFINE found(F) == [i \in DOMAIN targets |-> FileAt(dir, Substitute(targets[i], key, path), F)]
            fs == found(S)
            ft == found(T)
            hs == {i \in DOMAIN fs : fs[i] # NoPath}
            ht == {i \in DOMAIN ft : ft[i] # NoPath}
            i == CHOOSE n \in hs : \A k \in hs : n <= k
            j == CHOOSE n \in ht : \A k \in ht : n <= k
<1>1. /\ DOMAIN fs = DOMAIN targets /\ DOMAIN ft = DOMAIN targets
      /\ \A k \in DOMAIN targets : Moves(fs[k], ft[k], S, T)
  BY FileMoves
<1>2. /\ FirstTarget(targets, key, path, dir, S) = IF hs = {} THEN NoPath ELSE fs[i]
      /\ FirstTarget(targets, key, path, dir, T) = IF ht = {} THEN NoPath ELSE ft[j]
  BY DEF FirstTarget
<1>. HIDE DEF fs, ft
<1>3. hs \in SUBSET Nat /\ ht \in SUBSET Nat
  BY <1>1
<1>4. hs # {} => i \in hs /\ \A k \in hs : i <= k
  <2>. HIDE DEF hs
  <2>. QED BY <1>3, Least
<1>5. ht # {} => j \in ht /\ \A k \in ht : j <= k
  <2>. HIDE DEF ht
  <2>. QED BY <1>3, Least
<1>. HIDE DEF i, j
<1>6. \A k \in hs : (k \in ht /\ fs[k] = ft[k]) \/ fs[k] \in S \ T \/ (k \in ht /\ ft[k] \in T \ S)
  <2>. SUFFICES ASSUME NEW k \in hs
                PROVE  (k \in ht /\ fs[k] = ft[k]) \/ fs[k] \in S \ T \/ (k \in ht /\ ft[k] \in T \ S)
    OBVIOUS
  <2>1. k \in DOMAIN targets /\ fs[k] # NoPath
    BY <1>1
  <2>2. ft[k] # NoPath => k \in ht
    BY <1>1, <2>1
  <2>. HIDE DEF hs, ht
  <2>3. fs[k] = ft[k] \/ fs[k] \in S \ T \/ ft[k] \in T \ S
    BY <1>1, <2>1 DEF Moves
  <2>. QED BY <2>1, <2>2, <2>3
<1>7. \A k \in ht : (k \in hs /\ fs[k] = ft[k]) \/ ft[k] \in T \ S \/ (k \in hs /\ fs[k] \in S \ T)
  <2>. SUFFICES ASSUME NEW k \in ht
                PROVE  (k \in hs /\ ft[k] = fs[k]) \/ ft[k] \in T \ S \/ (k \in hs /\ fs[k] \in S \ T)
    OBVIOUS
  <2>1. k \in DOMAIN targets /\ ft[k] # NoPath
    BY <1>1
  <2>2. fs[k] # NoPath => k \in hs
    BY <1>1, <2>1
  <2>. HIDE DEF ht, hs
  <2>3. ft[k] = fs[k] \/ ft[k] \in T \ S \/ fs[k] \in S \ T
    BY <1>1, <2>1 DEF Moves
  <2>. QED BY <2>1, <2>2, <2>3
<1>. HIDE DEF hs, ht
<1>8. CASE hs = {} \/ ht = {}
  BY <1>2, <1>4, <1>5, <1>6, <1>7, <1>8 DEF Moves
<1>9. CASE hs # {} /\ ht # {}
  <2>1. (i \in ht /\ j \in hs) => i = j
    BY <1>3, <1>4, <1>5, <1>9
  <2>2. i \in hs /\ j \in ht
    BY <1>4, <1>5, <1>9
  <2>3. CASE i = j
    BY <1>2, <1>6, <1>9, <2>2, <2>3 DEF Moves
  <2>4. CASE i \notin ht
    BY <1>2, <1>6, <1>9, <2>2, <2>4 DEF Moves
  <2>5. CASE j \notin hs
    BY <1>2, <1>7, <1>9, <2>2, <2>5 DEF Moves
  <2>. QED BY <2>1, <2>3, <2>4, <2>5
<1>. QED BY <1>8, <1>9
-----------------------------------------------------------------------------
(* What is nearest is one of the entries: the directories above a file are *)
(* no longer than its path.                                                *)
LEMMA NearestIsOne ==
  ASSUME NEW entries, \A e \in entries : e.dir \in Path, NEW file \in Path
  PROVE  Nearest(entries, file) # NoPath => Nearest(entries, file) \in entries
<1>. DEFINE above == {e \in entries : StartsWith(Front(file), e.dir)}
            lengths == {Len(e.dir) : e \in above}
<1>1. CASE above = {}
  BY <1>1 DEF Nearest
<1>2. CASE above # {}
  <2>1. Front(file) \in Path
    BY DEF Front, Path
  <2>2. Len(Front(file)) \in Nat /\ \A n \in lengths : n <= Len(Front(file))
    BY <2>1 DEF StartsWith, Path
  <2>3. lengths \in SUBSET Nat /\ lengths # {}
    <3>1. \A e \in above : Len(e.dir) \in Nat
      BY DEF Path
    <3>. QED BY <1>2, <3>1
  <2>4. PICK n \in lengths : \A m \in lengths : m <= n
    <3>. HIDE DEF lengths
    <3>. QED BY <2>2, <2>3, Greatest
  <2>5. \E e \in above : \A d \in above : Len(d.dir) <= Len(e.dir)
    BY <2>4
  <2>6. Nearest(entries, file) = CHOOSE e \in above : \A d \in above : Len(d.dir) <= Len(e.dir)
    BY <1>2 DEF Nearest
  <2>7. Nearest(entries, file) \in above
    <3>. HIDE DEF above
    <3>. QED BY <2>5, <2>6
  <2>. QED BY <2>7
<1>. QED BY <1>1, <1>2

LEMMA AliasIsAKey ==
  ASSUME NEW paths, DOMAIN paths \subseteq Pattern, NEW path \in Path
  PROVE  matchPathsAlias(path, paths) # NoPath => matchPathsAlias(path, paths) \in DOMAIN paths
<1>. DEFINE keys == {k \in DOMAIN paths : Matches(k, path)}
            Outranks(k, l) == ~k.star \/ (l.star /\ Len(k.path) >= Len(l.path))
            lengths == {Len(k.path) : k \in keys}
<1>1. CASE keys = {}
  BY <1>1 DEF matchPathsAlias
<1>2. CASE keys # {}
  <2>1. \E k \in keys : \A l \in keys : Outranks(k, l)
    <3>1. CASE \E k \in keys : ~k.star
      BY <3>1
    <3>2. CASE \A k \in keys : k.star
      <4>1. Len(path) \in Nat /\ \A n \in lengths : n <= Len(path)
        BY <3>2 DEF Matches, StartsWith, Pattern, Path
      <4>2. lengths \in SUBSET Nat /\ lengths # {}
        <5>1. \A k \in keys : Len(k.path) \in Nat
          BY DEF Pattern, Path
        <5>. HIDE DEF keys
        <5>. QED BY <1>2, <5>1
      <4>3. PICK n \in lengths : \A m \in lengths : m <= n
        <5>. HIDE DEF lengths
        <5>. QED BY <4>1, <4>2, Greatest
      <4>4. PICK k \in keys : n = Len(k.path)
        BY <4>3
      <4>5. \A l \in keys : Len(l.path) \in Nat /\ Len(l.path) <= Len(k.path) /\ l.star
        BY <3>2, <4>3, <4>4 DEF Pattern, Path
      <4>6. \A l \in keys : Outranks(k, l)
        <5>. HIDE DEF keys
        <5>. QED BY <4>5, <4>4
      <4>. QED BY <4>6
    <3>. QED BY <3>1, <3>2
  <2>2. matchPathsAlias(path, paths) = CHOOSE k \in keys : \A l \in keys : Outranks(k, l)
    BY <1>2 DEF matchPathsAlias
  <2>3. matchPathsAlias(path, paths) \in keys
    <3>. HIDE DEF keys, Outranks
    <3>. QED BY <2>1, <2>2
  <2>. QED BY <2>3
<1>. QED BY <1>1, <1>2
-----------------------------------------------------------------------------
(* Files none of which can be taken for null.                              *)
Proper(S) == NoPath \notin S /\ \A q \in S : RESOLVED(q) # NoPath

LEMMA ResultOfFile ==
  ASSUME NEW x, NEW y, NEW otherwise, NEW S, NEW T, Proper(S), Proper(T), Moves(x, y, S, T)
  PROVE  ResultMoves(FileOr(x, otherwise), FileOr(y, otherwise), S, T)
BY DEF Proper, Moves, ResultMoves, FileOr

LEMMA AliasMoves ==
  ASSUME NEW s, s.path \in Path, NEW tsconfig \in TSCONFIGS, NEW S, NEW T, Proper(S), Proper(T)
  PROVE  ResultMoves(resolveViaPathsOrBaseUrl(s, tsconfig, S),
                     resolveViaPathsOrBaseUrl(s, tsconfig, T), S, T)
<1>. DEFINE key == matchPathsAlias(s.path, tsconfig.paths)
            dir == IF tsconfig.baseUrl = NoPath THEN tsconfig.dir ELSE tsconfig.baseUrl
            targets == tsconfig.paths[key]
<1>1. DOMAIN tsconfig.paths \subseteq Pattern /\ \A k \in DOMAIN tsconfig.paths : tsconfig.paths[k] \in Seq(Pattern)
  BY ManifestConstants
<1>2. CASE key # NoPath
  <2>1. key \in DOMAIN tsconfig.paths
    BY <1>1, <1>2, AliasIsAKey
  <2>2. DOMAIN targets \subseteq Nat
    BY <1>1, <2>1
  <2>3. \A F : resolveViaPathsOrBaseUrl(s, tsconfig, F)
                 = FileOr(FirstTarget(targets, key, s.path, dir, F), UNRESOLVED(s))
    BY <1>2 DEF resolveViaPathsOrBaseUrl
  <2>. HIDE DEF key, dir, targets
  <2>4. Moves(FirstTarget(targets, key, s.path, dir, S), FirstTarget(targets, key, s.path, dir, T), S, T)
    BY <2>2, TargetMoves DEF Proper
  <2>. QED BY <2>3, <2>4, ResultOfFile
<1>3. CASE key = NoPath /\ tsconfig.baseUrl = NoPath
  BY <1>3 DEF resolveViaPathsOrBaseUrl, ResultMoves
<1>4. CASE key = NoPath /\ tsconfig.baseUrl # NoPath
  <2>1. \A F : resolveViaPathsOrBaseUrl(s, tsconfig, F) = FileOr(FileAt(tsconfig.baseUrl, s.path, F), NoPath)
    BY <1>4 DEF resolveViaPathsOrBaseUrl
  <2>2. Moves(FileAt(tsconfig.baseUrl, s.path, S), FileAt(tsconfig.baseUrl, s.path, T), S, T)
    BY FileMoves
  <2>. QED BY <2>1, <2>2, ResultOfFile
<1>. QED BY <1>2, <1>3, <1>4

LEMMA EntryPointMoves ==
  ASSUME NEW pkg \in PACKAGES, NEW subpath, NEW S, NEW T, Proper(S), Proper(T)
  PROVE  Moves(resolvePackageEntryPoint(pkg, subpath, S), resolvePackageEntryPoint(pkg, subpath, T), S, T)
<1>. DEFINE exported == IF pkg.exports = NoPath THEN NoPath ELSE resolveExportsEntry(pkg.exports, subpath)
            byExports(F) == IF exported = NoPath THEN NoPath ELSE FileAt(pkg.dir, exported, F)
            plain == [i \in DOMAIN pkg.fields |-> [path |-> pkg.fields[i], star |-> FALSE]]
            byFields(F) == FirstTarget(plain, [path |-> <<>>, star |-> FALSE], <<>>, pkg.dir, F)
            byIndex(F) == resolveViaExtensionLadder(pkg.dir, F)
            byPath(F) == FileAt(pkg.dir, subpath, F)
            entry(F) == resolvePackageEntryPoint(pkg, subpath, F)
<1>1. Moves(byExports(S), byExports(T), S, T)
  BY FileMoves DEF Moves
<1>2. Moves(byFields(S), byFields(T), S, T)
  <2>1. DOMAIN plain \subseteq Nat
    BY ManifestConstants
  <2>. HIDE DEF plain
  <2>. QED BY <2>1, TargetMoves DEF Proper
<1>3. Moves(byIndex(S), byIndex(T), S, T)
  BY LadderMoves
<1>4. Moves(byPath(S), byPath(T), S, T)
  BY FileMoves
<1>5. \A F : entry(F) =
        IF byExports(F) # NoPath THEN byExports(F)
        ELSE IF subpath = <<>> THEN IF byFields(F) # NoPath THEN byFields(F) ELSE byIndex(F)
        ELSE IF pkg.exports # NoPath THEN NoPath ELSE byPath(F)
  BY DEF resolvePackageEntryPoint
<1>. HIDE DEF exported, byExports, byFields, byIndex, byPath, entry, plain
<1>6. Moves(entry(S), entry(T), S, T)
  BY <1>1, <1>2, <1>3, <1>4, <1>5 DEF Moves, Proper
<1>. QED BY <1>6 DEF entry

LEMMA SubpathImportMoves ==
  ASSUME NEW s, NEW file, NEW S, NEW T, Proper(S), Proper(T)
  PROVE  ResultMoves(resolveSubpathImport(s, file, S), resolveSubpathImport(s, file, T), S, T)
<1>. DEFINE owner == Nearest(PACKAGES, file)
            known == owner # NoPath /\ s.path \in DOMAIN owner.imports
            target(F) == FileAt(owner.dir, owner.imports[s.path], F)
<1>1. \A F : resolveSubpathImport(s, file, F) =
        IF ~known \/ owner.imports[s.path] = NoPath THEN UNRESOLVED(s) ELSE FileOr(target(F), UNRESOLVED(s))
  BY DEF resolveSubpathImport
<1>2. Moves(target(S), target(T), S, T)
  BY FileMoves
<1>. HIDE DEF owner, known, target
<1>3. ResultMoves(FileOr(target(S), UNRESOLVED(s)), FileOr(target(T), UNRESOLVED(s)), S, T)
  BY <1>2, ResultOfFile
<1>. QED BY <1>1, <1>3 DEF ResultMoves

(* The whole ladder: whatever two sets of files are compared.              *)
LEMMA ImportMoves ==
  ASSUME NEW s, s.path \in Path, NEW file \in Path, NEW S, NEW T, Proper(S), Proper(T)
  PROVE  ResultMoves(resolveImport(s, file, S), resolveImport(s, file, T), S, T)
<1>. DEFINE tsconfig == Nearest(TSCONFIGS, file)
            alias(F) == IF tsconfig = NoPath THEN NoPath ELSE resolveViaPathsOrBaseUrl(s, tsconfig, F)
            name == Head(s.path)
            inWorkspace == {p \in PACKAGES : p.inWorkspace /\ <<p.name, "">> = name}
            pkg == CHOOSE p \in inWorkspace : TRUE
            relative(F) == FileOr(FileAt(Front(file), s.path, F), UNRESOLVED(s))
            entry(F) == FileOr(resolvePackageEntryPoint(pkg, Tail(s.path), F), UNRESOLVED(s))
            subpath(F) == resolveSubpathImport(s, file, F)
            result(F) == resolveImport(s, file, F)
<1>1. \A F : result(F) =
        CASE s.kind = "relative" -> relative(F)
          [] s.kind = "absolute" -> UNRESOLVED(s)
          [] OTHER ->
               IF alias(F) # NoPath THEN alias(F)
               ELSE IF name \in BUILTINS THEN EXTERNAL(name)
               ELSE IF inWorkspace # {} THEN entry(F)
               ELSE IF s.kind = "subpath" THEN subpath(F)
               ELSE EXTERNAL(name)
  BY DEF resolveImport
<1>2. ResultMoves(alias(S), alias(T), S, T)
  <2>1. CASE tsconfig = NoPath
    BY <2>1 DEF ResultMoves
  <2>2. CASE tsconfig # NoPath
    <3>1. tsconfig \in TSCONFIGS
      BY <2>2, NearestIsOne, ManifestConstants
    <3>. HIDE DEF tsconfig
    <3>. QED BY <2>2, <3>1, AliasMoves
  <2>. QED BY <2>1, <2>2
<1>3. ResultMoves(relative(S), relative(T), S, T)
  <2>1. Moves(FileAt(Front(file), s.path, S), FileAt(Front(file), s.path, T), S, T)
    BY FileMoves
  <2>. QED BY <2>1, ResultOfFile
<1>4. inWorkspace # {} => ResultMoves(entry(S), entry(T), S, T)
  <2>. SUFFICES ASSUME inWorkspace # {} PROVE ResultMoves(entry(S), entry(T), S, T)
    OBVIOUS
  <2>1. pkg \in PACKAGES
    OBVIOUS
  <2>. HIDE DEF pkg
  <2>2. Moves(resolvePackageEntryPoint(pkg, Tail(s.path), S), resolvePackageEntryPoint(pkg, Tail(s.path), T), S, T)
    BY <2>1, EntryPointMoves
  <2>. QED BY <2>2, ResultOfFile
<1>5. ResultMoves(subpath(S), subpath(T), S, T)
  BY SubpathImportMoves
<1>. HIDE DEF tsconfig, alias, name, inWorkspace, pkg, relative, entry, subpath, result
<1>6. ResultMoves(result(S), result(T), S, T)
  <2>1. CASE s.kind = "relative"
    BY <1>1, <1>3, <2>1
  <2>2. CASE s.kind = "absolute"
    BY <1>1, <2>2 DEF ResultMoves
  <2>3. CASE s.kind # "relative" /\ s.kind # "absolute"
    <3>1. CASE alias(S) = NoPath /\ alias(T) = NoPath
      BY <1>1, <1>4, <1>5, <2>3, <3>1 DEF ResultMoves
    <3>2. CASE alias(S) # NoPath /\ alias(T) # NoPath
      BY <1>1, <1>2, <2>3, <3>2
    <3>3. CASE alias(S) # NoPath /\ alias(T) = NoPath
      BY <1>1, <1>2, <2>3, <3>3 DEF ResultMoves, Proper
    <3>4. CASE alias(S) = NoPath /\ alias(T) # NoPath
      BY <1>1, <1>2, <2>3, <3>4 DEF ResultMoves, Proper
    <3>. QED BY <3>1, <3>2, <3>3, <3>4
  <2>. QED BY <2>1, <2>2, <2>3
<1>. QED BY <1>6 DEF result
-----------------------------------------------------------------------------
(* Files hold what they may hold.                                          *)
TreeInv == DOMAIN tree \subseteq Files /\ \A p \in DOMAIN tree : tree[p] \in MayHold(p)

LEMMA TreeInvariant == TreeSpec => []TreeInv
<1>1. TreeInit => TreeInv
  BY DEF TreeInit, TreeInv
<1>2. TreeInv /\ [TreeNext]_commitVars => TreeInv'
  BY DEF TreeInv, TreeNext, Write, Remove, commitVars
<1>. QED BY <1>1, <1>2, PTL DEF TreeSpec

LEMMA FilesAreProper ==
  ASSUME NEW S, S \subseteq Files
  PROVE  Proper(S)
BY ResolutionConstants DEF Proper

(* An import means another file, or no file any more, only if that very    *)
(* file came or went (import-resolver.ts:520-565): for all manifests,      *)
(* files and specifiers.                                                   *)
THEOREM ImportsAreStable == TreeSpec => ImportsFollowTheirFiles
<1>. DEFINE Step == \A p \in DOMAIN tree \cup DOMAIN tree', s \in Specifiers :
       LET old == resolveImport(s, p, DOMAIN tree)
           new == resolveImport(s, p, DOMAIN tree')
       IN old # new => \E q \in Files : Changed(q) /\ RESOLVED(q) \in {old, new}
<1>1. TreeInv /\ TreeInv' => Step
  <2>. SUFFICES ASSUME TreeInv, TreeInv', NEW p \in DOMAIN tree \cup DOMAIN tree', NEW s \in Specifiers,
                       resolveImport(s, p, DOMAIN tree) # resolveImport(s, p, DOMAIN tree')
                PROVE  \E q \in Files : /\ Changed(q)
                                       /\ RESOLVED(q) \in {resolveImport(s, p, DOMAIN tree),
                                                           resolveImport(s, p, DOMAIN tree')}
    OBVIOUS
  <2>1. PICK S : S = DOMAIN tree
    OBVIOUS
  <2>2. PICK T : T = DOMAIN tree'
    OBVIOUS
  <2>3. Proper(S) /\ Proper(T) /\ p \in Path /\ s.path \in Path
    BY <2>1, <2>2, FilesAreProper, ResolutionConstants DEF TreeInv
  <2>4. ResultMoves(resolveImport(s, p, S), resolveImport(s, p, T), S, T)
    BY <2>3, ImportMoves
  <2>5. (\E q \in S \ T : resolveImport(s, p, S) = RESOLVED(q))
        \/ (\E q \in T \ S : resolveImport(s, p, T) = RESOLVED(q))
    BY <2>1, <2>2, <2>4 DEF ResultMoves
  <2>6. \A q \in S \ T : q \in Files /\ Changed(q)
    BY <2>1, <2>2 DEF TreeInv, Changed
  <2>7. \A q \in T \ S : q \in Files /\ Changed(q)
    BY <2>1, <2>2 DEF TreeInv, Changed
  <2>. QED BY <2>1, <2>2, <2>5, <2>6, <2>7
<1>2. []TreeInv => [][Step]_commitVars
  BY <1>1, PTL
<1>. QED BY <1>2, TreeInvariant DEF ImportsFollowTheirFiles
-----------------------------------------------------------------------------
LEMMA GuessesAreCandidates ==
  ASSUME NEW p, NEW candidates
  PROVE  Guesses(p, candidates) \subseteq candidates
BY DEF Guesses, narrowAmbiguousCandidates

(* An edge that leaves its package is backed by an import of the file it   *)
(* leads to (call-resolver.ts:147-151), in every workspace.                *)
THEOREM PackagesAgree == TreeSpec => []OtherPackagesAreImported
<1>1. TreeInv => OtherPackagesAreImported
  <2>. SUFFICES ASSUME TreeInv, PER_PACKAGE, NEW u \in Uses(tree), NEW e \in resolveUse(tree, u[1], u[2]),
                       packageName(e.to[1]) # packageName(u[1])
                PROVE  e.to[1] \in Imports(tree, u[1])
    BY DEF OtherPackagesAreImported
  <2>. DEFINE p == u[1]
              use == u[2]
              candidates == candidatesForName(tree, p, use)
  <2>1. \A s \in resolveSameFile(tree, p, use) : s[1] = p
    BY DEF resolveSameFile
  <2>2. \A s \in resolveNamedImport(tree, p, use) : s[1] \in Imports(tree, p)
    BY DEF resolveNamedImport, ImportOf, First, Imports, TreeInv
  <2>3. \A s \in candidates : packageName(s[1]) = packageName(p)
    BY DEF candidatesForName, IndexKey
  <2>4. Guesses(p, candidates) \subseteq candidates
    BY GuessesAreCandidates
  <2>5. e.to \in resolveSameFile(tree, p, use) \cup resolveNamedImport(tree, p, use) \cup candidates
    <3>. HIDE DEF candidates, p, use
    <3>1. resolveUse(tree, p, use) =
            IF resolveSameFile(tree, p, use) # {} THEN Edges("SAME_FILE", resolveSameFile(tree, p, use))
            ELSE IF resolveNamedImport(tree, p, use) # {} THEN Edges("NAMED_IMPORT", resolveNamedImport(tree, p, use))
            ELSE IF Cardinality(candidates) = 1 THEN Edges("UNIQUE_REPO_MATCH", candidates)
            ELSE Edges("AMBIGUOUS_TIEBREAK", Guesses(p, candidates))
      BY DEF resolveUse, candidates
    <3>2. \A rule, S : \A d \in Edges(rule, S) : d.to \in S
      BY DEF Edges
    <3>3. e \in resolveUse(tree, p, use)
      BY DEF p, use
    <3>. QED BY <2>4, <3>1, <3>2, <3>3
  <2>. QED BY <2>1, <2>2, <2>3, <2>5
<1>. QED BY <1>1, TreeInvariant, PTL
-----------------------------------------------------------------------------
Same(t, v, q) ==
  /\ q \in DOMAIN t <=> q \in DOMAIN v
  /\ q \in DOMAIN t => t[q] = v[q]

(* Two trees that agree on p and on the files it imports, in either.       *)
Agree(t, v, p) ==
  /\ DOMAIN t \subseteq Files /\ DOMAIN v \subseteq Files
  /\ p \in DOMAIN t /\ Same(t, v, p)
  /\ \A i \in DOMAIN t[p].imports : t[p].imports[i].specifier \in Specifiers
  /\ \A q \in Imports(t, p) \cup Imports(v, p) : Same(t, v, q)

LEMMA SameResolutions ==
  ASSUME NEW t, NEW v, NEW p, Agree(t, v, p)
  PROVE  \A i \in DOMAIN t[p].imports : ResolutionOf(t, p, i) = ResolutionOf(v, p, i)
<1>. SUFFICES ASSUME NEW i \in DOMAIN t[p].imports PROVE ResolutionOf(t, p, i) = ResolutionOf(v, p, i)
  OBVIOUS
<1>. DEFINE s == t[p].imports[i].specifier
<1>1. v[p] = t[p] /\ s \in Specifiers /\ p \in Files
  BY DEF Agree, Same
<1>2. /\ ResolutionOf(t, p, i) = resolveImport(s, p, DOMAIN t)
      /\ ResolutionOf(v, p, i) = resolveImport(s, p, DOMAIN v)
  BY <1>1 DEF ResolutionOf
<1>3. Proper(DOMAIN t) /\ Proper(DOMAIN v) /\ p \in Path /\ s.path \in Path
  BY <1>1, FilesAreProper, ResolutionConstants DEF Agree
<1>4. ResultMoves(ResolutionOf(t, p, i), ResolutionOf(v, p, i), DOMAIN t, DOMAIN v)
  <2>. HIDE DEF s
  <2>. QED BY <1>2, <1>3, ImportMoves
<1>5. ASSUME NEW q \in DOMAIN t \ DOMAIN v PROVE ResolutionOf(t, p, i) # RESOLVED(q)
  BY <1>5 DEF Agree, Same, Imports
<1>6. ASSUME NEW q \in DOMAIN v \ DOMAIN t PROVE ResolutionOf(v, p, i) # RESOLVED(q)
  BY <1>1, <1>6 DEF Agree, Same, Imports
<1>. QED BY <1>4, <1>5, <1>6 DEF ResultMoves

LEMMA SameKnown ==
  ASSUME NEW t, NEW v, NEW p, NEW use, Agree(t, v, p)
  PROVE  /\ resolveSameFile(t, p, use) = resolveSameFile(v, p, use)
         /\ resolveNamedImport(t, p, use) = resolveNamedImport(v, p, use)
<1>1. v[p] = t[p] /\ p \in DOMAIN v
  BY DEF Agree, Same
<1>2. resolveSameFile(t, p, use) = resolveSameFile(v, p, use)
  BY <1>1 DEF resolveSameFile
<1>3. ImportOf(t, p, use) = ImportOf(v, p, use) /\ ImportOf(t, p, use) \subseteq DOMAIN t[p].imports
  BY <1>1 DEF ImportOf, First
<1>. DEFINE kinds == IF use.kind = "CALLS" THEN CALLABLE_KINDS ELSE HERITAGE_KINDS
            targets(x) == {q \in DOMAIN x : \E i \in ImportOf(x, p, use) : ResolutionOf(x, p, i) = RESOLVED(q)}
            hits(x, q) == {q} \X First({k \in DOMAIN x[q].symbols :
                            x[q].symbols[k].name = use.name /\ x[q].symbols[k].kind \in kinds})
<1>4. \A q \in targets(t) : q \in Imports(t, p)
  BY <1>3 DEF Imports, Agree
<1>5. \A q \in targets(v) : q \in Imports(v, p)
  BY <1>1, <1>3 DEF Imports, Agree
<1>6. targets(t) = targets(v)
  <2>1. \A i \in ImportOf(t, p, use) : ResolutionOf(t, p, i) = ResolutionOf(v, p, i)
    BY <1>3, SameResolutions
  <2>2. \A q \in targets(t) : q \in targets(v)
    BY <1>3, <1>4, <2>1 DEF Agree, Same
  <2>3. \A q \in targets(v) : q \in targets(t)
    BY <1>3, <1>5, <2>1 DEF Agree, Same
  <2>. HIDE DEF targets
  <2>. QED BY <2>2, <2>3
<1>7. \A q \in targets(t) : hits(t, q) = hits(v, q)
  <2>1. \A q \in targets(t) : t[q] = v[q]
    BY <1>4 DEF Agree, Same
  <2>. QED BY <2>1
<1>8. /\ resolveNamedImport(t, p, use) = UNION {hits(t, q) : q \in targets(t)}
      /\ resolveNamedImport(v, p, use) = UNION {hits(v, q) : q \in targets(v)}
  BY DEF resolveNamedImport
<1>9. {hits(t, q) : q \in targets(t)} = {hits(v, q) : q \in targets(v)}
  <2>. HIDE DEF hits, targets
  <2>. QED BY <1>6, <1>7
<1>. QED BY <1>2, <1>8, <1>9

LEMMA SameCandidates ==
  ASSUME NEW t, NEW v, NEW p, NEW use, Agree(t, v, p),
         \A q \in Files : IndexKey(q) = IndexKey(p) => Same(t, v, q)
  PROVE  candidatesForName(t, p, use) = candidatesForName(v, p, use)
<1>1. \A c : isReceiverClassInScope(t, p, use, c) <=> isReceiverClassInScope(v, p, use, c)
  BY DEF isReceiverClassInScope, Agree, Same
<1>2. ASSUME NEW s \in SymbolsOf(t), IndexKey(s[1]) = IndexKey(p)
      PROVE  s \in SymbolsOf(v) /\ SymbolAt(t, s) = SymbolAt(v, s)
  BY <1>2 DEF SymbolsOf, SymbolAt, Agree, Same
<1>3. ASSUME NEW s \in SymbolsOf(v), IndexKey(s[1]) = IndexKey(p)
      PROVE  s \in SymbolsOf(t) /\ SymbolAt(t, s) = SymbolAt(v, s)
  BY <1>3 DEF SymbolsOf, SymbolAt, Agree, Same
<1>4. candidatesForName(t, p, use) \subseteq candidatesForName(v, p, use)
  BY <1>1, <1>2 DEF candidatesForName
<1>5. candidatesForName(v, p, use) \subseteq candidatesForName(t, p, use)
  BY <1>1, <1>3 DEF candidatesForName
<1>. QED BY <1>4, <1>5

LEMMA SameUse ==
  ASSUME NEW t, NEW v, NEW p, NEW use, Agree(t, v, p),
         Known(t, p, use) \/ \A q \in Files : IndexKey(q) = IndexKey(p) => Same(t, v, q)
  PROVE  resolveUse(t, p, use) = resolveUse(v, p, use)
<1>1. /\ resolveSameFile(t, p, use) = resolveSameFile(v, p, use)
      /\ resolveNamedImport(t, p, use) = resolveNamedImport(v, p, use)
  BY SameKnown
<1>2. CASE Known(t, p, use)
  BY <1>1, <1>2 DEF Known, resolveUse
<1>3. CASE ~Known(t, p, use)
  <2>1. candidatesForName(t, p, use) = candidatesForName(v, p, use)
    BY <1>3, SameCandidates
  <2>. QED BY <1>1, <2>1 DEF resolveUse
<1>. QED BY <1>2, <1>3

(* A commit changes the edges of a file it does not touch only through the *)
(* files that one imports or, for a use that nothing settles, through its  *)
(* own package (call-resolver.ts:143-156), in every repository.            *)
THEOREM UsesAreStable == TreeSpec => UsesFollowTheirFiles
<1>. DEFINE Step == \A u \in Uses(tree) :
       LET p == u[1]
       IN (/\ ~Changed(p)
           /\ \A q \in Imports(tree, p) \cup Imports(tree', p) : ~Changed(q)
           /\ Known(tree, p, u[2]) \/ \A q \in Files : Changed(q) => IndexKey(q) # IndexKey(p))
          => resolveUse(tree, p, u[2]) = resolveUse(tree', p, u[2])
<1>1. TreeInv /\ TreeInv' => Step
  <2>. SUFFICES ASSUME TreeInv, TreeInv', NEW u \in Uses(tree), ~Changed(u[1]),
                       \A q \in Imports(tree, u[1]) \cup Imports(tree', u[1]) : ~Changed(q),
                       Known(tree, u[1], u[2]) \/ \A q \in Files : Changed(q) => IndexKey(q) # IndexKey(u[1])
                PROVE  resolveUse(tree, u[1], u[2]) = resolveUse(tree', u[1], u[2])
    BY Zenon
  <2>1. PICK t : t = tree
    OBVIOUS
  <2>2. PICK v : v = tree'
    OBVIOUS
  <2>3. PICK p : p = u[1]
    OBVIOUS
  <2>4. PICK use : use = u[2]
    OBVIOUS
  <2>5. \A q : ~Changed(q) => Same(t, v, q)
    BY <2>1, <2>2 DEF Changed, Same
  <2>6. p \in DOMAIN t
    BY <2>1, <2>3 DEF Uses
  <2>7. \A i \in DOMAIN t[p].imports : t[p].imports[i].specifier \in Specifiers
    BY <2>1, <2>6, ResolutionConstants DEF TreeInv
  <2>8. Agree(t, v, p)
    BY <2>1, <2>2, <2>3, <2>5, <2>6, <2>7 DEF Agree, TreeInv
  <2>9. Known(t, p, use) \/ \A q \in Files : IndexKey(q) = IndexKey(p) => Same(t, v, q)
    BY <2>1, <2>3, <2>4, <2>5
  <2>10. resolveUse(t, p, use) = resolveUse(v, p, use)
    BY <2>8, <2>9, SameUse
  <2>. QED BY <2>1, <2>2, <2>3, <2>4, <2>10
<1>2. []TreeInv => [][Step]_commitVars
  BY <1>1, PTL
<1>. QED BY <1>2, TreeInvariant DEF UsesFollowTheirFiles
=============================================================================
