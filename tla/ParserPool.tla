------------------------------ MODULE ParserPool ------------------------------
(***************************************************************************)
(* The parsers of one worker process.  Runtime, grammars and parsers are   *)
(* memoised promises: the first caller starts the work, the others await   *)
(* it.  What a promise does between two awaits is one step.  A parsed tree *)
(* is used and deleted without an await.                                   *)
(***************************************************************************)
EXTENDS Naturals

CONSTANTS
  Parses,        \* calls of withParsedTree
  Languages

VARIABLES
  initPromise,       \* of Parser.init: "none", "pending", "fulfilled", "rejected"
  inits,             \* times Parser.init was called
  languagePromise,   \* languagePromise[l]: likewise; "waits" for the runtime
  loads,             \* loads[l]: times Language.load was called
  parserPromise,     \* parserPromise[l]: likewise
  parse,             \* parse[c]: "new", "awaits", "parsed", "failed"
  languageOf         \* languageOf[c]: the language of call c

poolVars == <<initPromise, inits, languagePromise, loads, parserPromise, parse, languageOf>>

Settled(promise) == promise \in {"fulfilled", "rejected"}

(* What runs up to the first await when a promise is created.              *)
ensureInitialized ==
  IF initPromise = "none" THEN initPromise' = "pending" /\ inits' = inits + 1
  ELSE UNCHANGED <<initPromise, inits>>

loadLanguage(l) ==
  IF languagePromise[l] = "none"
    THEN languagePromise' = [languagePromise EXCEPT ![l] = "waits"] /\ ensureInitialized
    ELSE UNCHANGED <<languagePromise, initPromise, inits>>

BugMemoisesLate(l) ==
  IF parserPromise[l] # "fulfilled"
    THEN /\ parserPromise' = [parserPromise EXCEPT ![l] = "waits"]
         /\ languagePromise' = [languagePromise EXCEPT ![l] = "waits"]
         /\ ensureInitialized
    ELSE UNCHANGED <<parserPromise, languagePromise, initPromise, inits>>

getParser(l) ==
  IF parserPromise[l] = "none"
    THEN parserPromise' = [parserPromise EXCEPT ![l] = "waits"] /\ loadLanguage(l)
    ELSE UNCHANGED <<parserPromise, languagePromise, initPromise, inits>>

(* Content over the size guard is refused before anything is loaded.       *)
RefuseContent(c) ==
  /\ parse[c] = "new"
  /\ parse' = [parse EXCEPT ![c] = "failed"]
  /\ UNCHANGED <<initPromise, inits, languagePromise, loads, parserPromise, languageOf>>

CallParse(c) ==
  /\ parse[c] = "new"
  /\ \E l \in Languages : languageOf' = [languageOf EXCEPT ![c] = l] /\ getParser(l)
  /\ parse' = [parse EXCEPT ![c] = "awaits"]
  /\ UNCHANGED loads

RuntimeSettles ==
  /\ initPromise = "pending"
  /\ initPromise' \in {"fulfilled", "rejected"}
  /\ UNCHANGED <<inits, languagePromise, loads, parserPromise, parse, languageOf>>

BugAwaitsSuccess(l) ==
  /\ languagePromise[l] = "waits" /\ initPromise = "fulfilled"
  /\ languagePromise' = [languagePromise EXCEPT ![l] = "pending"]
  /\ loads' = [loads EXCEPT ![l] = @ + 1]
  /\ UNCHANGED <<initPromise, inits, parserPromise, parse, languageOf>>

StartLoading(l) ==
  /\ languagePromise[l] = "waits" /\ Settled(initPromise)
  /\ \/ /\ initPromise = "fulfilled"
        /\ languagePromise' = [languagePromise EXCEPT ![l] = "pending"]
        /\ loads' = [loads EXCEPT ![l] = @ + 1]
     \/ /\ initPromise = "rejected"
        /\ languagePromise' = [languagePromise EXCEPT ![l] = "rejected"]
        /\ UNCHANGED loads
  /\ UNCHANGED <<initPromise, inits, parserPromise, parse, languageOf>>

GrammarSettles(l) ==
  /\ languagePromise[l] = "pending"
  /\ \E outcome \in {"fulfilled", "rejected"} :
       languagePromise' = [languagePromise EXCEPT ![l] = outcome]
  /\ UNCHANGED <<initPromise, inits, loads, parserPromise, parse, languageOf>>

(* new Parser(), setLanguage.                                              *)
ParserSettles(l) ==
  /\ parserPromise[l] = "waits" /\ Settled(languagePromise[l])
  /\ parserPromise' = [parserPromise EXCEPT ![l] = languagePromise[l]]
  /\ UNCHANGED <<initPromise, inits, languagePromise, loads, parse, languageOf>>

(* parse, use and delete; a callback that throws leaves no tree either.    *)
Parse(c) ==
  /\ parse[c] = "awaits" /\ parserPromise[languageOf[c]] = "fulfilled"
  /\ parse' \in {[parse EXCEPT ![c] = "parsed"], [parse EXCEPT ![c] = "failed"]}
  /\ UNCHANGED <<initPromise, inits, languagePromise, loads, parserPromise, languageOf>>

ParserMissing(c) ==
  /\ parse[c] = "awaits" /\ parserPromise[languageOf[c]] = "rejected"
  /\ parse' = [parse EXCEPT ![c] = "failed"]
  /\ UNCHANGED <<initPromise, inits, languagePromise, loads, parserPromise, languageOf>>

PoolInit ==
  /\ initPromise = "none" /\ inits = 0
  /\ languagePromise = [l \in Languages |-> "none"]
  /\ loads = [l \in Languages |-> 0]
  /\ parserPromise = [l \in Languages |-> "none"]
  /\ parse = [c \in Parses |-> "new"]
  /\ languageOf = [c \in Parses |-> CHOOSE l \in Languages : TRUE]

PoolNext ==
  \/ \E c \in Parses : RefuseContent(c) \/ CallParse(c) \/ Parse(c) \/ ParserMissing(c)
  \/ \E l \in Languages : StartLoading(l) \/ GrammarSettles(l) \/ ParserSettles(l)
  \/ RuntimeSettles

PoolSpec == PoolInit /\ [][PoolNext]_poolVars
-----------------------------------------------------------------------------
(* The runtime is started once in a process and each grammar loaded once,  *)
(* however many files are parsed before the first load is over (parser-    *)
(* pool.ts:87-93).                                                         *)
LoadedOnce == inits <= 1 /\ \A l \in Languages : loads[l] <= 1

(* Every call ends, also when the runtime or a grammar cannot be loaded.   *)
ParsesEnd == (\E c \in Parses : parse[c] = "awaits") ~> (\A c \in Parses : parse[c] # "awaits")
=============================================================================
