-------------------------- MODULE ImportResolution --------------------------
(***************************************************************************)
(* What an import specifier refers to: a file of the repository, an        *)
(* external package, or nothing that can be told.  A pure function of the  *)
(* repository's files and manifests.                                       *)
(*                                                                         *)
(* A path is a sequence of segments <<stem, extension>>, from the root; a  *)
(* specifier has a kind and the segments of its text.  A scoped name such  *)
(* as "@repo/db" is one segment.  A "*" stands at the end of a key or of a *)
(* target and for whole segments.                                          *)
(***************************************************************************)
EXTENDS Integers, Sequences, FiniteSets

CONSTANTS
  PACKAGES,    \* the package.json files: their name, dir, exports, ...
  TSCONFIGS,   \* the tsconfig.json files: their dir, baseUrl and paths
  BUILTINS,    \* first segments of Node's own modules
  NoPath      \* null

Segment == STRING \X STRING
Path == Seq(Segment)
Pattern == [path : Path, star : BOOLEAN]

ASSUME ManifestConstants ==
  /\ \A c \in TSCONFIGS :
       /\ c.dir \in Path /\ c.baseUrl \in Path \cup {NoPath}
       /\ DOMAIN c.paths \subseteq Pattern /\ \A k \in DOMAIN c.paths : c.paths[k] \in Seq(Pattern)
  /\ \A p \in PACKAGES : p.name \in STRING /\ p.dir \in Path /\ p.fields \in Seq(Path)

Here == <<".", "">>
Up == <<"..", "">>

RESOLUTION_EXTENSIONS == <<".ts", ".tsx", ".js", ".jsx", ".mjs", ".cjs">>

JS_TO_TS_SWAP ==
  [ext \in {".js", ".jsx", ".mjs", ".cjs"} |->
     CASE ext = ".js" -> ".ts" [] ext = ".jsx" -> ".tsx"
       [] ext = ".mjs" -> ".mts" [] ext = ".cjs" -> ".cts"]

Front(path) == SubSeq(path, 1, Len(path) - 1)
StartsWith(path, prefix) == Len(path) >= Len(prefix) /\ SubSeq(path, 1, Len(prefix)) = prefix
Rest(path, prefix) == SubSeq(path, Len(prefix) + 1, Len(path))

WithExtension(path, ext) == Append(Front(path), <<path[Len(path)][1], ext>>)

(* The paths tried for one that is meant, the best first.  For the root    *)
(* directory they are "", ".ts" and "/index.ts", which no file is called.  *)
Ladder(path) ==
  IF path = <<>> THEN <<>> ELSE
  LET ext == path[Len(path)][2]
      swapped == IF ext \in DOMAIN JS_TO_TS_SWAP
                 THEN <<WithExtension(path, JS_TO_TS_SWAP[ext])>> ELSE <<>>
      extended == [i \in DOMAIN RESOLUTION_EXTENSIONS |-> WithExtension(path, RESOLUTION_EXTENSIONS[i])]
      index == [i \in DOMAIN RESOLUTION_EXTENSIONS |-> Append(path, <<"index", RESOLUTION_EXTENSIONS[i]>>)]
  IN swapped \o <<path>> \o (IF ext = "" THEN extended ELSE <<>>) \o index

FirstHit(candidates, files) ==
  LET hits == {i \in DOMAIN candidates : candidates[i] \in files}
  IN IF hits = {} THEN NoPath ELSE candidates[CHOOSE i \in hits : \A j \in hits : i <= j]

(* A directory that holds files is believed to have an index.              *)
BugBelievesDirectories(path, files) ==
  IF path = NoPath THEN NoPath
  ELSE IF FirstHit(Ladder(path), files) = NoPath /\ \E f \in files : StartsWith(f, path)
  THEN Append(path, <<"index", ".ts">>)
  ELSE FirstHit(Ladder(path), files)

resolveViaExtensionLadder(path, files) ==
  IF path = NoPath THEN NoPath ELSE FirstHit(Ladder(path), files)

(* segments, followed from dir; NoPath if they leave the repository.      *)
resolveRepoRelativePath(dir, segments) ==
  LET After[i \in 0 .. Len(segments)] ==
        IF i = 0 THEN dir
        ELSE IF After[i - 1] = NoPath THEN NoPath
        ELSE IF segments[i] = Here THEN After[i - 1]
        ELSE IF segments[i] # Up THEN Append(After[i - 1], segments[i])
        ELSE IF After[i - 1] = <<>> THEN NoPath ELSE Front(After[i - 1])
  IN After[Len(segments)]

FileAt(dir, segments, files) ==
  resolveViaExtensionLadder(resolveRepoRelativePath(dir, segments), files)
-----------------------------------------------------------------------------
RESOLVED(path) == [status |-> "RESOLVED", target |-> path]
EXTERNAL(name) == [status |-> "EXTERNAL", target |-> <<name>>]
UNRESOLVED(specifier) == [status |-> "UNRESOLVED", target |-> specifier.path]

FileOr(path, otherwise) == IF path = NoPath THEN otherwise ELSE RESOLVED(path)

(* Of the entries of directories above the file, the nearest.              *)
Nearest(entries, file) ==
  LET above == {e \in entries : StartsWith(Front(file), e.dir)}
  IN IF above = {} THEN NoPath ELSE CHOOSE e \in above : \A d \in above : Len(d.dir) <= Len(e.dir)

(* A key with a star stands for more than its prefix.                      *)
Matches(key, path) == IF key.star THEN StartsWith(path, key.path) /\ Len(path) > Len(key.path)
                                  ELSE path = key.path

Substitute(target, key, path) ==
  IF target.star /\ key.star THEN target.path \o Rest(path, key.path) ELSE target.path

(* An exact key outranks the others, and of those the longest counts.      *)
matchPathsAlias(path, paths) ==
  LET keys == {k \in DOMAIN paths : Matches(k, path)}
      Outranks(k, l) == ~k.star \/ (l.star /\ Len(k.path) >= Len(l.path))
  IN IF keys = {} THEN NoPath ELSE CHOOSE k \in keys : \A l \in keys : Outranks(k, l)

(* The files the targets lead to, in order; the first that exists.         *)
FirstTarget(targets, key, path, dir, files) ==
  LET found == [i \in DOMAIN targets |-> FileAt(dir, Substitute(targets[i], key, path), files)]
      hits == {i \in DOMAIN found : found[i] # NoPath}
  IN IF hits = {} THEN NoPath ELSE found[CHOOSE i \in hits : \A j \in hits : i <= j]

(* A specifier that matches a key of paths is nothing else; otherwise      *)
(* baseUrl is only tried.                                                  *)
resolveViaPathsOrBaseUrl(specifier, tsconfig, files) ==
  LET key == matchPathsAlias(specifier.path, tsconfig.paths)
      dir == IF tsconfig.baseUrl = NoPath THEN tsconfig.dir ELSE tsconfig.baseUrl
  IN IF key # NoPath
     THEN FileOr(FirstTarget(tsconfig.paths[key], key, specifier.path, dir, files),
                 UNRESOLVED(specifier))
     ELSE IF tsconfig.baseUrl = NoPath THEN NoPath
     ELSE FileOr(FileAt(tsconfig.baseUrl, specifier.path, files), NoPath)

(* The subpath's own entry, or the first pattern that has a target.        *)
resolveExportsEntry(exports, subpath) ==
  LET exact == {i \in DOMAIN exports : ~exports[i].key.star /\ exports[i].key.path = subpath}
      patterns == {i \in DOMAIN exports : /\ exports[i].key.star /\ Matches(exports[i].key, subpath)
                                          /\ exports[i].target # NoPath}
      First(S) == exports[CHOOSE i \in S : \A j \in S : i <= j]
  IN IF exact # {} /\ First(exact).target = NoPath THEN NoPath
     ELSE IF exact # {} THEN First(exact).target.path
     ELSE IF patterns = {} THEN NoPath
     ELSE Substitute(First(patterns).target, First(patterns).key, subpath)

(* fields: the types, module and main of the manifest, those it has.       *)
resolvePackageEntryPoint(pkg, subpath, files) ==
  LET exported == IF pkg.exports = NoPath THEN NoPath ELSE resolveExportsEntry(pkg.exports, subpath)
      byExports == IF exported = NoPath THEN NoPath ELSE FileAt(pkg.dir, exported, files)
      plain == [i \in DOMAIN pkg.fields |-> [path |-> pkg.fields[i], star |-> FALSE]]
      byFields == FirstTarget(plain, [path |-> <<>>, star |-> FALSE], <<>>, pkg.dir, files)
  IN IF byExports # NoPath THEN byExports
     ELSE IF subpath = <<>>
     THEN IF byFields # NoPath THEN byFields ELSE resolveViaExtensionLadder(pkg.dir, files)
     ELSE IF pkg.exports # NoPath THEN NoPath
     ELSE FileAt(pkg.dir, subpath, files)

resolveSubpathImport(specifier, file, files) ==
  LET owner == Nearest(PACKAGES, file)
      known == owner # NoPath /\ specifier.path \in DOMAIN owner.imports
  IN IF ~known \/ owner.imports[specifier.path] = NoPath THEN UNRESOLVED(specifier)
     ELSE FileOr(FileAt(owner.dir, owner.imports[specifier.path], files), UNRESOLVED(specifier))

(* What specifier means in file, in a repository of these files.           *)
resolveImport(specifier, file, files) ==
  LET tsconfig == Nearest(TSCONFIGS, file)
      alias == IF tsconfig = NoPath THEN NoPath
               ELSE resolveViaPathsOrBaseUrl(specifier, tsconfig, files)
      name == Head(specifier.path)
      inWorkspace == {p \in PACKAGES : p.inWorkspace /\ <<p.name, "">> = name}
  IN CASE specifier.kind = "relative" ->
            FileOr(FileAt(Front(file), specifier.path, files), UNRESOLVED(specifier))
       [] specifier.kind = "absolute" -> UNRESOLVED(specifier)
       [] OTHER ->
            IF alias # NoPath THEN alias
            ELSE IF name \in BUILTINS THEN EXTERNAL(name)
            ELSE IF inWorkspace # {}
            THEN FileOr(resolvePackageEntryPoint(CHOOSE p \in inWorkspace : TRUE,
                                                 Tail(specifier.path), files),
                        UNRESOLVED(specifier))
            ELSE IF specifier.kind = "subpath" THEN resolveSubpathImport(specifier, file, files)
            ELSE EXTERNAL(name)
=============================================================================
