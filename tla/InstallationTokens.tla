------------------------- MODULE InstallationTokens -------------------------
(***************************************************************************)
(* The access token of one installation: minted at GitHub, cached in Redis *)
(* or, when Redis rejects a command, in the process, and sent with every   *)
(* request.  The auth hook runs once per request, outside the throttling   *)
(* and retry plugins: what they send again carries the token of the first  *)
(* attempt.                                                                *)
(*                                                                         *)
(* A token is the time at which GitHub stops accepting it.  Every await is *)
(* over within LATENCY; a request acts before its deadline or time waits.  *)
(***************************************************************************)
EXTENDS Integers

CONSTANTS
  Calls,           \* requests to GitHub
  Processes,       \* API and worker processes, each with its fallback cache
  ProcessOf,       \* ProcessOf[q]: the process request q belongs to
  LIFETIME,        \* of a token at GitHub: 60 minutes
  CACHE_TTL,       \* TOKEN_CACHE_TTL_SECONDS: 50 minutes
  MARGIN,          \* TOKEN_EXPIRY_SAFETY_MARGIN_SECONDS
  SKEWS,           \* how far GitHub's clock may be ahead of the host's
  LATENCY,
  MINT_ATTEMPTS,   \* TOKEN_MINT_MAX_ATTEMPTS: 3
  WAITS,           \* the waits a rate limit may ask for
  MAX_WAIT,        \* MAX_RATE_LIMIT_WAIT_SECONDS
  MAX_RETRIES,     \* MAX_RATE_LIMIT_RETRIES: 2
  RETRY_WAIT,      \* the longest backoff of the retry plugin
  RETRIES,         \* its retries: 3
  HORIZON,         \* the end of time, for TLC
  Absent           \* no cache entry, no token, no expires_at

ASSUME TokenConstants ==
  /\ ProcessOf \in [Calls -> Processes]
  /\ LIFETIME \in Nat /\ CACHE_TTL \in Nat \ {0} /\ MARGIN \in Nat /\ LATENCY \in Nat
  /\ SKEWS \subseteq Int /\ WAITS \subseteq Nat
  /\ MINT_ATTEMPTS \in Nat /\ MAX_WAIT \in Nat /\ MAX_RETRIES \in Nat
  /\ RETRY_WAIT \in Nat /\ RETRIES \in Nat /\ HORIZON \in Nat
  /\ Absent \notin Int /\ Absent \notin [token : Int, until : Int]

(* How long a request may hold its token: one await, and one for each time *)
(* it is sent again after waiting.                                         *)
HOLD == LATENCY + MAX_RETRIES * (MAX_WAIT + LATENCY) + RETRIES * (RETRY_WAIT + LATENCY)

(* The ten minutes that the cache leaves cover what a request may hold its *)
(* token, the round trip of minting it and the write to the cache.         *)
ASSUME TenMinutesAreEnough == HOLD + 2 * LATENCY <= LIFETIME - CACHE_TTL

VARIABLES
  clock,
  redisEntry,      \* the entry of the installation, or Absent
  fallbackEntry,   \* fallbackEntry[p]: that of process p
  stage,           \* stage[q]: the next await of request q
  held,            \* held[q]: its token
  ttl,             \* ttl[q]: for which it is to cache the token it minted
  deadline,        \* deadline[q]: by when it goes on
  mints,           \* mints[q]: failed attempts of the mint under way
  throttled,       \* throttled[q]: times the rate limit deferred it
  retried          \* retried[q]: times it was sent again after an error

tokenVars == <<clock, redisEntry, fallbackEntry, stage, held, ttl, deadline,
               mints, throttled, retried>>
-----------------------------------------------------------------------------
Larger(a, b) == IF a >= b THEN a ELSE b
Smaller(a, b) == IF a <= b THEN a ELSE b

Entry(token, until) == [token |-> token, until |-> until]

(* InMemoryTokenCache takes an entry for expired, as Redis does, at the    *)
(* instant its time is over.                                               *)
Fresh(entry) == entry # Absent /\ clock < entry.until

BugTrustsExpiry(expiresAt) ==
  IF expiresAt = Absent THEN CACHE_TTL ELSE Larger(0, expiresAt - clock - MARGIN)

effectiveTtl(expiresAt) ==
  IF expiresAt = Absent THEN CACHE_TTL
  ELSE Larger(0, Smaller(CACHE_TTL, expiresAt - clock - MARGIN))

Goes(q, next, by) ==
  /\ stage' = [stage EXCEPT ![q] = next]
  /\ deadline' = [deadline EXCEPT ![q] = by]

(* Nothing of a request is left when it ends.                              *)
EndsAs(q, outcome) ==
  /\ Goes(q, outcome, 0)
  /\ held' = [held EXCEPT ![q] = Absent]
  /\ ttl' = [ttl EXCEPT ![q] = 0]
  /\ mints' = [mints EXCEPT ![q] = 0]
  /\ throttled' = [throttled EXCEPT ![q] = 0]
  /\ retried' = [retried EXCEPT ![q] = 0]

Begin(q) ==
  /\ stage[q] = "idle"
  /\ Goes(q, "get", clock + LATENCY)
  /\ UNCHANGED <<clock, redisEntry, fallbackEntry, held, ttl, mints, throttled, retried>>

(* A process drops an expired entry of its own when it reads it.           *)
ReadFallback(p) ==
  fallbackEntry' = [fallbackEntry EXCEPT ![p] = IF Fresh(@) THEN @ ELSE Absent]

TakesToken(q, entry) ==
  /\ held' = [held EXCEPT ![q] = entry.token]
  /\ Goes(q, "send", clock + LATENCY)

MustMint(q) == held' = held /\ Goes(q, "mint", clock + LATENCY)

GetFromRedis(q) ==
  /\ stage[q] = "get" /\ Fresh(redisEntry)
  /\ TakesToken(q, redisEntry)
  /\ UNCHANGED <<clock, redisEntry, fallbackEntry, ttl, mints, throttled, retried>>

(* Redis has no entry, or rejects the command.                             *)
GetFromFallback(q) ==
  LET own == fallbackEntry[ProcessOf[q]] IN
  /\ stage[q] = "get"
  /\ IF Fresh(own) THEN TakesToken(q, own) ELSE MustMint(q)
  /\ ReadFallback(ProcessOf[q])
  /\ UNCHANGED <<clock, redisEntry, ttl, mints, throttled, retried>>

(* GitHub issued the token at most LATENCY ago.  It states when it expires *)
(* by its own clock, or the statement cannot be read.                      *)
MintSucceeds(q) ==
  /\ stage[q] = "mint"
  /\ \E ago \in 0 .. LATENCY, skew \in SKEWS :
       LET token == clock - ago + LIFETIME IN
       \E expiresAt \in {token + skew, Absent} :
         /\ held' = [held EXCEPT ![q] = token]
         /\ ttl' = [ttl EXCEPT ![q] = effectiveTtl(expiresAt)]
         /\ Goes(q, IF effectiveTtl(expiresAt) > 0 THEN "store" ELSE "send", clock + LATENCY)
  /\ mints' = [mints EXCEPT ![q] = 0]
  /\ UNCHANGED <<clock, redisEntry, fallbackEntry, throttled, retried>>

(* The network or a 5xx.  The backoff is part of the next attempt's await. *)
MintFails(q) ==
  /\ stage[q] = "mint" /\ mints[q] + 1 < MINT_ATTEMPTS
  /\ mints' = [mints EXCEPT ![q] = @ + 1]
  /\ Goes(q, "mint", clock + LATENCY)
  /\ UNCHANGED <<clock, redisEntry, fallbackEntry, held, ttl, throttled, retried>>

(* The last attempt failed, or GitHub answered one: revoked, rate limited, *)
(* or in a way that is not understood.                                     *)
MintThrows(q) ==
  /\ stage[q] = "mint"
  /\ EndsAs(q, "failed")
  /\ UNCHANGED <<clock, redisEntry, fallbackEntry>>

Stored(q) == ttl' = [ttl EXCEPT ![q] = 0] /\ Goes(q, "send", clock + LATENCY)

StoreInRedis(q) ==
  /\ stage[q] = "store"
  /\ redisEntry' = Entry(held[q], clock + ttl[q])
  /\ Stored(q)
  /\ UNCHANGED <<clock, fallbackEntry, held, mints, throttled, retried>>

(* Redis rejects the command, whether or not it executed it.               *)
StoreInFallback(q) ==
  /\ stage[q] = "store"
  /\ redisEntry' \in {redisEntry, Entry(held[q], clock + ttl[q])}
  /\ fallbackEntry' = [fallbackEntry EXCEPT ![ProcessOf[q]] = Entry(held[q], clock + ttl[q])]
  /\ Stored(q)
  /\ UNCHANGED <<clock, held, mints, throttled, retried>>

Answered(q) ==
  /\ stage[q] = "send"
  /\ EndsAs(q, "done")
  /\ UNCHANGED <<clock, redisEntry, fallbackEntry>>

BugWaitsForReset(q, wait) == throttled[q] < MAX_RETRIES

willRetry(q, wait) == wait <= MAX_WAIT /\ throttled[q] < MAX_RETRIES

RateLimited(q) ==
  /\ stage[q] = "send"
  /\ \E wait \in WAITS :
       IF willRetry(q, wait)
         THEN /\ throttled' = [throttled EXCEPT ![q] = @ + 1]
              /\ Goes(q, "send", clock + wait + LATENCY)
              /\ UNCHANGED <<held, ttl, mints, retried>>
         ELSE EndsAs(q, "failed")
  /\ UNCHANGED <<clock, redisEntry, fallbackEntry>>

(* A 5xx or the network, to the retry plugin.                              *)
SendFails(q) ==
  /\ stage[q] = "send"
  /\ IF retried[q] < RETRIES
       THEN /\ retried' = [retried EXCEPT ![q] = @ + 1]
            /\ Goes(q, "send", clock + RETRY_WAIT + LATENCY)
            /\ UNCHANGED <<held, ttl, mints, throttled>>
       ELSE EndsAs(q, "failed")
  /\ UNCHANGED <<clock, redisEntry, fallbackEntry>>

RedisRestarts ==
  /\ redisEntry' = Absent
  /\ UNCHANGED <<clock, fallbackEntry, stage, held, ttl, deadline, mints, throttled, retried>>

Waiting(q) == stage[q] \in {"get", "mint", "store", "send"}

(* Redis drops an entry whose time is over.                                *)
TimePasses ==
  /\ clock < HORIZON
  /\ \A q \in Calls : Waiting(q) => clock < deadline[q]
  /\ clock' = clock + 1
  /\ redisEntry' = IF redisEntry # Absent /\ clock' < redisEntry.until THEN redisEntry ELSE Absent
  /\ UNCHANGED <<fallbackEntry, stage, held, ttl, deadline, mints, throttled, retried>>

TokenInit ==
  /\ clock = 0
  /\ redisEntry = Absent
  /\ fallbackEntry = [p \in Processes |-> Absent]
  /\ stage = [q \in Calls |-> "idle"]
  /\ held = [q \in Calls |-> Absent]
  /\ ttl = [q \in Calls |-> 0]
  /\ deadline = [q \in Calls |-> 0]
  /\ mints = [q \in Calls |-> 0]
  /\ throttled = [q \in Calls |-> 0]
  /\ retried = [q \in Calls |-> 0]

CallStep(q) ==
  \/ Begin(q) \/ GetFromRedis(q) \/ GetFromFallback(q)
  \/ MintSucceeds(q) \/ MintFails(q) \/ MintThrows(q)
  \/ StoreInRedis(q) \/ StoreInFallback(q)
  \/ Answered(q) \/ RateLimited(q) \/ SendFails(q)

TokenNext == (\E q \in Calls : CallStep(q)) \/ RedisRestarts \/ TimePasses

TokenSpec == TokenInit /\ [][TokenNext]_tokenVars
-----------------------------------------------------------------------------
Entries == [token : Int, until : Int]

(* The types of the caches and of a request's state.                       *)
TokenTypeOK ==
  /\ clock \in Nat
  /\ redisEntry \in Entries \cup {Absent}
  /\ fallbackEntry \in [Processes -> Entries \cup {Absent}]
  /\ stage \in [Calls -> {"idle", "get", "mint", "store", "send", "done", "failed"}]
  /\ held \in [Calls -> Int \cup {Absent}]
  /\ ttl \in [Calls -> 0 .. CACHE_TTL]
  /\ deadline \in [Calls -> Nat]
  /\ mints \in [Calls -> Nat]
  /\ throttled \in [Calls -> 0 .. MAX_RETRIES]
  /\ retried \in [Calls -> 0 .. RETRIES]

(* Whenever a request is sent, for the first time or again after the waits *)
(* of a rate limit, GitHub still accepts its token, wherever it was cached *)
(* and however the clocks differ (app-auth.ts:20-36, octokit-factory.ts:   *)
(* 94-102).                                                                *)
SentTokensAreLive == \A q \in Calls : stage[q] = "send" => clock < held[q]
=============================================================================
