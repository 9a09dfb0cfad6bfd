---------------------------- MODULE MCComponents ----------------------------
(***************************************************************************)
(* Constants for checking the components that share no variable, and their *)
(* sum: a behaviour is one of one of the components ACTIVE, and the others *)
(* stay as they are initially.  The sum has the reachable states of each,  *)
(* and not their product.                                                  *)
(***************************************************************************)
EXTENDS GraphRebuild, InstallationTokens, ConditionalReads, StatusPoller, RateLimit,
        Projects, ParserPool, TarballFetch, ArchiveExtraction, Resolution, TLC

CONSTANT ACTIVE
VARIABLE active

(* GraphRebuild: p1 declares f; p2 is a test that imports p1, a package    *)
(* and a missing file, and calls f.  c2 loses p2 and breaks p1.            *)
GraphTree(c) == IF c = "c1" THEN {"p1", "p2"} ELSE {"p1"}

Plain(state, declares) ==
  [parse |-> state, isTest |-> FALSE, declares |-> declares, exports |-> declares,
   imports |-> {}, uses |-> {}]

GraphSource(c, p) ==
  CASE p = "p1" /\ c = "c1" -> Plain("OK", {"f"})
    [] p = "p1" /\ c = "c2" -> Plain("FAILED", {"f"})
    [] p = "p2" -> [parse |-> "OK", isTest |-> TRUE, declares |-> {"g"}, exports |-> {},
                    imports |-> {[status |-> "RESOLVED", target |-> "p1"],
                                 [status |-> "EXTERNAL", target |-> "x1"],
                                 [status |-> "UNRESOLVED", target |-> "x2"]},
                    uses |-> {[kind |-> "CALLS", from |-> "g", to |-> [path |-> "p1", name |-> "f"]]}]
    [] OTHER -> Plain("NOT_PARSED", {})

GraphBatchSizes == [i \in 0 .. 2 |-> 1]

(* InstallationTokens: two requests of one process; GitHub's clock may be  *)
(* behind or ahead.                                                        *)
MCProcessOf == [q \in Calls |-> "api"]
MCSkews == {-5, 2}

(* Projects: a name whose slug has a suffix of its own.                    *)
MCSlugify(name) == [word |-> "api", suffixes |-> IF name = "API" THEN <<>> ELSE <<3>>]

(* ArchiveExtraction: archives that pass, with files of every bucket; that *)
(* hold an entry outside the tree; whose sizes add up to too much; with    *)
(* too many entries; with one entry that is too large.                     *)
Item(kind, size, marks) == [kind |-> kind, size |-> size, marks |-> marks]
Text(size) == Item("file", size, {})

MCArchives ==
  {<<Item("directory", 0, {}), Text(1)>>, <<Item("declined", 0, {}), Item("file", 1, {"hardIgnored"})>>,
   <<Item("file", 1, {"generated"}), Item("file", 1, {"minified"})>>,
   <<Item("file", 0, {"vendored"}), Item("file", 1, {"nul"})>>, <<Text(1), Text(2)>>,
   <<Text(1), Item("outside", 0, {})>>, <<Text(2), Text(2)>>, <<Text(0), Text(0), Text(0)>>,
   <<Text(4)>>}

(* Resolution: a package "web" with an alias, and a package "db" that web  *)
(* imports by its name, by an exported pattern and by a "#" name of web's. *)
Dir(name) == <<name, "">>
Ts(name) == <<name, ".ts">>

MCPackages ==
  {[name |-> "web", dir |-> <<Dir("web")>>, inWorkspace |-> TRUE, exports |-> NoPath,
    fields |-> <<>>, imports |-> (<<Dir("#u")>> :> <<Here, <<"util", ".js">>>>)],
   [name |-> "db", dir |-> <<Dir("db")>>, inWorkspace |-> TRUE,
    exports |-> <<[key |-> [path |-> <<Dir("u")>>, star |-> TRUE],
                   target |-> [path |-> <<Here>>, star |-> TRUE]]>>,
    fields |-> <<<<Here, <<"dist", ".js">>>>, <<<<"index", ".js">>>>>>, imports |-> << >>]}

MCTsconfigs ==
  {[dir |-> <<Dir("web")>>, baseUrl |-> NoPath,
    paths |-> ([path |-> <<Dir("~")>>, star |-> TRUE]
                 :> <<[path |-> <<Dir("gen")>>, star |-> TRUE], [path |-> <<>>, star |-> TRUE]>>)],
   [dir |-> <<Dir("db")>>, baseUrl |-> <<Dir("db")>>, paths |-> << >>]}

MCBuiltins == {Dir("fs")}

Bare(path) == [kind |-> "bare", path |-> path]
Relative(path) == [kind |-> "relative", path |-> path]

MCSpecifiers ==
  {Bare(<<Dir("db")>>), Bare(<<Dir("db"), Dir("u"), Dir("util")>>), Bare(<<Dir("~"), Dir("util")>>),
   Bare(<<Dir("util")>>), Bare(<<Dir("fs")>>), [kind |-> "subpath", path |-> <<Dir("#u")>>],
   [kind |-> "absolute", path |-> <<Dir("util")>>], Relative(<<Here, <<"util", ".js">>>>),
   Relative(<<Here, Dir("util")>>), Relative(<<Up, Up, Dir("util")>>)}

MCFiles ==
  {<<Dir("web"), Ts("a")>>, <<Dir("web"), Ts("util")>>, <<Dir("web"), Dir("util"), Ts("index")>>,
   <<Dir("db"), Ts("index")>>, <<Dir("db"), Ts("util")>>}

Sym(name, kind, parent) == [name |-> name, kind |-> kind, parent |-> parent]
F == Sym("f", "FUNCTION", NoName)
M == Sym("f", "METHOD", "K")
K == Sym("K", "CLASS", NoName)

Declares(symbols) == [symbols |-> symbols, imports |-> <<>>, uses |-> {}]

Binds(specifier, named, namespace) ==
  [specifier |-> specifier, named |-> named, namespace |-> namespace, default |-> NoName,
   isTypeOnly |-> FALSE]

Use(kind, name, receiver) == [from |-> 1, kind |-> kind, name |-> name, receiver |-> receiver]

User(imports, symbols) ==
  [symbols |-> <<Sym("run", "METHOD", "L")>> \o symbols, imports |-> imports,
   uses |-> {Use("CALLS", "f", NoName), Use("CALLS", "f", "x"), Use("CALLS", "f", "this"),
             Use("EXTENDS", "K", NoName)}]

MCMayHold(p) ==
  CASE p = <<Dir("web"), Ts("a")>> ->
         {User(<<>>, <<>>), User(<<>>, <<M, Sym("f", "METHOD", "L")>>),
          User(<<Binds(Bare(<<Dir("db")>>), {"f", "K"}, NoName)>>, <<K>>),
          User(<<Binds(Relative(<<Here, Dir("util")>>), {"K"}, "x")>>, <<>>)}
    [] p = <<Dir("web"), Ts("util")>> -> {Declares(<<F, F>>), Declares(<<K, M>>)}
    [] OTHER -> {Declares(<<F>>), Declares(<<M, F, K>>)}
-----------------------------------------------------------------------------
allVars == <<active, graphVars, tokenVars, readVars, pollerVars, rateVars, projectVars,
             poolVars, fetchVars, extractionVars, commitVars>>

(* A component that is not active has one initial state.                   *)
OneHome ==
  /\ active # "reads" => resource = CHOOSE b \in Bodies : TRUE
  /\ active # "poller" => row = "PENDING" /\ requested = FALSE
  /\ active # "extraction" => archive = CHOOSE z \in ARCHIVES : TRUE

SumInit ==
  /\ active \in ACTIVE
  /\ GraphInit /\ TokenInit /\ ReadInit /\ PollerInit /\ RateInit /\ ProjectInit
  /\ PoolInit /\ FetchInit /\ ExtractionInit /\ TreeInit
  /\ OneHome

Frame(component, vars) == active # component => UNCHANGED vars

SumNext ==
  /\ UNCHANGED active
  /\ \/ active = "graph" /\ GraphNext
     \/ active = "tokens" /\ TokenNext
     \/ active = "reads" /\ ReadNext
     \/ active = "poller" /\ PollerNext
     \/ active = "rates" /\ RateNext
     \/ active = "projects" /\ ProjectNext
     \/ active = "pool" /\ PoolNext
     \/ active = "fetch" /\ FetchNext
     \/ active = "extraction" /\ ExtractionNext
     \/ active = "resolution" /\ TreeNext
  /\ Frame("graph", graphVars) /\ Frame("tokens", tokenVars) /\ Frame("reads", readVars)
  /\ Frame("poller", pollerVars) /\ Frame("rates", rateVars) /\ Frame("projects", projectVars)
  /\ Frame("pool", poolVars) /\ Frame("fetch", fetchVars) /\ Frame("extraction", extractionVars)
  /\ Frame("resolution", commitVars)

(* What each component's liveness needs, of the active one: some rebuild,  *)
(* load, parse or attempt goes on, and the server answers again and again. *)
PoolGoesOn ==
  \/ RuntimeSettles
  \/ \E l \in Languages : StartLoading(l) \/ GrammarSettles(l) \/ ParserSettles(l)
  \/ \E c \in Parses : Parse(c) \/ ParserMissing(c)

SumFairness ==
  /\ WF_graphVars(active = "graph" /\ \E a \in Rebuilds : RebuildStep(a))
  /\ WF_poolVars(active = "pool" /\ PoolGoesOn)
  /\ WF_extractionVars(active = "extraction" /\ \E a \in Attempts : AttemptStep(a))
  /\ WF_pollerVars(active = "poller" /\ Poll) /\ WF_pollerVars(active = "poller" /\ Serve)
  /\ SF_pollerVars(active = "poller" /\ ServerAnswers) /\ SF_pollerVars(active = "poller" /\ Deliver)

SumSpec == SumInit /\ [][SumNext]_allVars /\ SumFairness
=============================================================================
