------------------------- MODULE GithubClientProofs -------------------------
(***************************************************************************)
(* Proofs about InstallationTokens, ConditionalReads and TarballFetch, for *)
(* every number of requests and processes, and every clock skew, lifetime  *)
(* and number of retries that TenMinutesAreEnough admits.                  *)
(***************************************************************************)
EXTENDS InstallationTokens, ConditionalReads, TarballFetch, TLAPS

USE TokenConstants

(***************************************************************************)
(* InstallationTokens.                                                     *)
(***************************************************************************)

(* What one more deferral, and one more retry, may add to a request. *)
W == MAX_WAIT + LATENCY
B == RETRY_WAIT + LATENCY

(* What request q may still wait beyond its present deadline. *)
Reserve(q) == (MAX_RETRIES - throttled[q]) * W + (RETRIES - retried[q]) * B

(* A cached token outlives its entry by what a request may hold it. *)
Outlives(entry) == entry # Absent => entry.token >= entry.until + HOLD

(* A waiting request goes on by its deadline; before it has a token it has *)
(* waited for nothing; a token that is to be stored was just minted; one   *)
(* that is sent lasts beyond all that its request may still wait.          *)
CallInv(q) ==
  /\ Waiting(q) => clock <= deadline[q]
  /\ stage[q] \in {"idle", "get", "mint", "store"} => throttled[q] = 0 /\ retried[q] = 0
  /\ stage[q] = "store" =>
       held[q] \in Int /\ ttl[q] > 0 /\ held[q] >= deadline[q] - 2 * LATENCY + LIFETIME
  /\ stage[q] = "send" => held[q] \in Int /\ held[q] > deadline[q] + Reserve(q)

TokenInv ==
  /\ TokenTypeOK
  /\ Outlives(redisEntry)
  /\ \A p \in Processes : Outlives(fallbackEntry[p])
  /\ \A q \in Calls : CallInv(q)

LEMMA HoldIs ==
  /\ HOLD = LATENCY + MAX_RETRIES * W + RETRIES * B
  /\ W \in Nat /\ B \in Nat /\ HOLD \in Nat
BY DEF HOLD, W, B

(* The reserve of a request pays for one more wait. *)
LEMMA ReservePays ==
  ASSUME NEW m \in Nat, NEW t \in Nat, NEW w \in Nat, t < m
  PROVE  /\ (m - t) * w = (m - (t + 1)) * w + w
         /\ (m - t) * w >= 0
         /\ (m - (t + 1)) * w >= 0
<1>1. (m - t) * w = (m - (t + 1)) * w + w
  OBVIOUS
<1>2. \A a, b \in Nat : a * b >= 0
  OBVIOUS
<1>. QED BY <1>1, <1>2

LEMMA TokenInitInv == TokenInit => TokenInv
BY DEF TokenInit, TokenInv, TokenTypeOK, Outlives, CallInv, Waiting

(* A request that a step does not touch. *)
LEMMA CallFrame ==
  ASSUME NEW r \in Calls, CallInv(r), clock' = clock, stage'[r] = stage[r],
         deadline'[r] = deadline[r], held'[r] = held[r], ttl'[r] = ttl[r],
         throttled'[r] = throttled[r], retried'[r] = retried[r]
  PROVE  CallInv(r)'
BY DEF CallInv, Waiting, Reserve

LEMMA BeginInv ==
  ASSUME TokenInv, NEW q \in Calls, Begin(q)
  PROVE  TokenInv'
<1>. USE HoldIs
<1>1. TokenTypeOK'
  BY DEF TokenInv, TokenTypeOK, Begin, Goes, Entry, Entries
<1>2. Outlives(redisEntry)' /\ \A p \in Processes : Outlives(fallbackEntry[p])'
  BY DEF TokenInv, TokenTypeOK, Outlives, Begin, Goes, Entry, Entries
<1>3. CallInv(q)'
  BY DEF TokenInv, TokenTypeOK, CallInv, Waiting, Reserve, Outlives, Begin, Goes, Entries
<1>4. \A r \in Calls \ {q} : CallInv(r)'
  BY CallFrame DEF TokenInv, TokenTypeOK, Begin, Goes
<1>. QED BY <1>1, <1>2, <1>3, <1>4 DEF TokenInv

LEMMA GetFromRedisInv ==
  ASSUME TokenInv, NEW q \in Calls, GetFromRedis(q)
  PROVE  TokenInv'
<1>. USE HoldIs
<1>1. TokenTypeOK'
  BY DEF TokenInv, TokenTypeOK, GetFromRedis, TakesToken, Fresh, Goes, Entry, Entries
<1>2. Outlives(redisEntry)' /\ \A p \in Processes : Outlives(fallbackEntry[p])'
  BY DEF TokenInv, TokenTypeOK, Outlives, GetFromRedis, TakesToken, Fresh, Goes, Entry, Entries
<1>3. CallInv(q)'
  BY DEF TokenInv, TokenTypeOK, CallInv, Waiting, Reserve, Outlives, GetFromRedis, TakesToken, Fresh, Goes, Entries
<1>4. \A r \in Calls \ {q} : CallInv(r)'
  BY CallFrame DEF TokenInv, TokenTypeOK, GetFromRedis, TakesToken, Fresh, Goes
<1>. QED BY <1>1, <1>2, <1>3, <1>4 DEF TokenInv

LEMMA GetFromFallbackInv ==
  ASSUME TokenInv, NEW q \in Calls, GetFromFallback(q)
  PROVE  TokenInv'
<1>. USE HoldIs
<1>1. ProcessOf[q] \in Processes /\ fallbackEntry[ProcessOf[q]] \in Entries \cup {Absent}
  BY DEF TokenInv, TokenTypeOK
<1>2. TokenTypeOK'
  BY <1>1 DEF TokenInv, TokenTypeOK, GetFromFallback, TakesToken, MustMint, ReadFallback, Fresh, Goes, Entries
<1>3. Outlives(redisEntry)' /\ \A p \in Processes : Outlives(fallbackEntry[p])'
  BY <1>1 DEF TokenInv, TokenTypeOK, Outlives, GetFromFallback, ReadFallback, Fresh
<1>4. CallInv(q)'
  <2>1. CASE Fresh(fallbackEntry[ProcessOf[q]])
    <3>1. throttled[q] = 0 /\ retried[q] = 0
      BY DEF TokenInv, CallInv, GetFromFallback
    <3>2. /\ fallbackEntry[ProcessOf[q]].token >= fallbackEntry[ProcessOf[q]].until + HOLD
          /\ clock < fallbackEntry[ProcessOf[q]].until
          /\ held'[q] = fallbackEntry[ProcessOf[q]].token
          /\ stage'[q] = "send" /\ deadline'[q] = clock + LATENCY
          /\ clock' = clock /\ throttled' = throttled /\ retried' = retried
      BY <2>1, <1>1 DEF TokenInv, TokenTypeOK, Outlives, GetFromFallback, TakesToken, Fresh, Goes
    <3>3. Reserve(q)' = HOLD - LATENCY /\ fallbackEntry[ProcessOf[q]] \in Entries /\ clock \in Nat
      BY <3>1, <3>2, <2>1, <1>1 DEF Reserve, Fresh, TokenInv, TokenTypeOK
    <3>. QED BY <3>1, <3>2, <3>3 DEF CallInv, Waiting, Entries
  <2>2. CASE ~Fresh(fallbackEntry[ProcessOf[q]])
    BY <2>2, <1>1 DEF TokenInv, TokenTypeOK, CallInv, Waiting, GetFromFallback, MustMint, Goes
  <2>. QED BY <2>1, <2>2
<1>5. \A r \in Calls \ {q} : CallInv(r)'
  BY CallFrame DEF TokenInv, TokenTypeOK, GetFromFallback, TakesToken, MustMint, Goes
<1>. QED BY <1>2, <1>3, <1>4, <1>5 DEF TokenInv

(* No ttl is longer than the cache's. *)
LEMMA TtlBounds ==
  ASSUME NEW x \in Int \cup {Absent}, clock \in Nat
  PROVE  effectiveTtl(x) \in 0 .. CACHE_TTL
BY DEF effectiveTtl, Larger, Smaller

LEMMA MintSucceedsInv ==
  ASSUME TokenInv, NEW q \in Calls, MintSucceeds(q)
  PROVE  TokenInv'
<1>. USE HoldIs
<1>1. PICK ago \in 0 .. LATENCY, skew \in SKEWS :
        \E x \in {clock - ago + LIFETIME + skew, Absent} :
          /\ held' = [held EXCEPT ![q] = clock - ago + LIFETIME]
          /\ ttl' = [ttl EXCEPT ![q] = effectiveTtl(x)]
          /\ Goes(q, IF effectiveTtl(x) > 0 THEN "store" ELSE "send", clock + LATENCY)
  BY DEF MintSucceeds
<1>2. PICK x \in {clock - ago + LIFETIME + skew, Absent} :
          /\ held' = [held EXCEPT ![q] = clock - ago + LIFETIME]
          /\ ttl' = [ttl EXCEPT ![q] = effectiveTtl(x)]
          /\ Goes(q, IF effectiveTtl(x) > 0 THEN "store" ELSE "send", clock + LATENCY)
  BY <1>1
<1>3. effectiveTtl(x) \in 0 .. CACHE_TTL /\ clock \in Nat /\ clock - ago + LIFETIME \in Int
  <2>1. clock \in Nat
    BY DEF TokenInv, TokenTypeOK
  <2>2. skew \in Int /\ ago \in Int /\ LIFETIME \in Int
    OBVIOUS
  <2>3. clock - ago + LIFETIME \in Int /\ clock - ago + LIFETIME + skew \in Int
    BY <2>1, <2>2
  <2>4. x \in Int \cup {Absent}
    BY <2>3
  <2>. QED BY <2>1, <2>3, <2>4, TtlBounds
<1>4. TokenTypeOK'
  BY <1>2, <1>3 DEF TokenInv, TokenTypeOK, MintSucceeds, Goes
<1>5. Outlives(redisEntry)' /\ \A p \in Processes : Outlives(fallbackEntry[p])'
  BY DEF TokenInv, Outlives, MintSucceeds
<1>6. CallInv(q)'
  <2>1. /\ throttled'[q] = 0 /\ retried'[q] = 0 /\ clock' = clock
        /\ stage'[q] = IF effectiveTtl(x) > 0 THEN "store" ELSE "send"
        /\ deadline'[q] = clock + LATENCY
        /\ held'[q] = clock - ago + LIFETIME /\ ttl'[q] = effectiveTtl(x)
    BY <1>2 DEF TokenInv, TokenTypeOK, CallInv, MintSucceeds, Goes
  <2>2. Reserve(q)' = HOLD - LATENCY
    BY <2>1 DEF Reserve
  <2>. QED BY <2>1, <2>2, <1>3, TenMinutesAreEnough DEF CallInv, Waiting
<1>7. \A r \in Calls \ {q} : CallInv(r)'
  BY <1>2, CallFrame DEF TokenInv, TokenTypeOK, MintSucceeds, Goes
<1>. QED BY <1>4, <1>5, <1>6, <1>7 DEF TokenInv

LEMMA MintFailsInv ==
  ASSUME TokenInv, NEW q \in Calls, MintFails(q)
  PROVE  TokenInv'
<1>. USE HoldIs
<1>1. TokenTypeOK'
  BY DEF TokenInv, TokenTypeOK, MintFails, Goes, Entry, Entries
<1>2. Outlives(redisEntry)' /\ \A p \in Processes : Outlives(fallbackEntry[p])'
  BY DEF TokenInv, TokenTypeOK, Outlives, MintFails, Goes, Entry, Entries
<1>3. CallInv(q)'
  BY DEF TokenInv, TokenTypeOK, CallInv, Waiting, Reserve, Outlives, MintFails, Goes, Entries
<1>4. \A r \in Calls \ {q} : CallInv(r)'
  BY CallFrame DEF TokenInv, TokenTypeOK, MintFails, Goes
<1>. QED BY <1>1, <1>2, <1>3, <1>4 DEF TokenInv

LEMMA MintThrowsInv ==
  ASSUME TokenInv, NEW q \in Calls, MintThrows(q)
  PROVE  TokenInv'
<1>. USE HoldIs
<1>1. TokenTypeOK'
  BY DEF TokenInv, TokenTypeOK, MintThrows, EndsAs, Goes, Entry, Entries
<1>2. Outlives(redisEntry)' /\ \A p \in Processes : Outlives(fallbackEntry[p])'
  BY DEF TokenInv, TokenTypeOK, Outlives, MintThrows, EndsAs, Goes, Entry, Entries
<1>3. CallInv(q)'
  BY DEF TokenInv, TokenTypeOK, CallInv, Waiting, Reserve, Outlives, MintThrows, EndsAs, Goes, Entries
<1>4. \A r \in Calls \ {q} : CallInv(r)'
  BY CallFrame DEF TokenInv, TokenTypeOK, MintThrows, EndsAs, Goes
<1>. QED BY <1>1, <1>2, <1>3, <1>4 DEF TokenInv

LEMMA StoreInRedisInv ==
  ASSUME TokenInv, NEW q \in Calls, StoreInRedis(q)
  PROVE  TokenInv'
<1>. USE HoldIs
<1>1. /\ held[q] \in Int /\ ttl[q] \in 1 .. CACHE_TTL /\ deadline[q] \in Nat /\ clock \in Nat
      /\ clock <= deadline[q] /\ held[q] >= deadline[q] - 2 * LATENCY + LIFETIME
      /\ throttled[q] = 0 /\ retried[q] = 0
  BY DEF TokenInv, TokenTypeOK, CallInv, StoreInRedis, Waiting
<1>2. Entry(held[q], clock + ttl[q]) \in Entries /\ Outlives(Entry(held[q], clock + ttl[q]))
  BY <1>1, TenMinutesAreEnough DEF Entry, Entries, Outlives
<1>3. TokenTypeOK'
  BY <1>1, <1>2 DEF TokenInv, TokenTypeOK, StoreInRedis, Stored, Goes
<1>4. Outlives(redisEntry)' /\ \A p \in Processes : Outlives(fallbackEntry[p])'
  BY <1>2 DEF TokenInv, TokenTypeOK, Outlives, StoreInRedis
<1>5. CallInv(q)'
  <2>1. /\ throttled' = throttled /\ retried' = retried /\ clock' = clock /\ held' = held
        /\ stage'[q] = "send" /\ deadline'[q] = clock + LATENCY
    BY DEF TokenInv, TokenTypeOK, StoreInRedis, Stored, Goes
  <2>2. Reserve(q)' = HOLD - LATENCY
    BY <2>1, <1>1 DEF Reserve
  <2>. QED BY <2>1, <2>2, <1>1, TenMinutesAreEnough DEF CallInv, Waiting
<1>6. \A r \in Calls \ {q} : CallInv(r)'
  BY CallFrame DEF TokenInv, TokenTypeOK, StoreInRedis, Stored, Goes
<1>. QED BY <1>3, <1>4, <1>5, <1>6 DEF TokenInv

LEMMA StoreInFallbackInv ==
  ASSUME TokenInv, NEW q \in Calls, StoreInFallback(q)
  PROVE  TokenInv'
<1>. USE HoldIs
<1>1. /\ held[q] \in Int /\ ttl[q] \in 1 .. CACHE_TTL /\ deadline[q] \in Nat /\ clock \in Nat
      /\ clock <= deadline[q] /\ held[q] >= deadline[q] - 2 * LATENCY + LIFETIME
      /\ throttled[q] = 0 /\ retried[q] = 0
  BY DEF TokenInv, TokenTypeOK, CallInv, StoreInFallback, Waiting
<1>2. Entry(held[q], clock + ttl[q]) \in Entries /\ Outlives(Entry(held[q], clock + ttl[q]))
  BY <1>1, TenMinutesAreEnough DEF Entry, Entries, Outlives
<1>3. TokenTypeOK'
  BY <1>1, <1>2 DEF TokenInv, TokenTypeOK, StoreInFallback, Stored, Goes
<1>4. Outlives(redisEntry)' /\ \A p \in Processes : Outlives(fallbackEntry[p])'
  BY <1>2 DEF TokenInv, TokenTypeOK, Outlives, StoreInFallback
<1>5. CallInv(q)'
  <2>1. /\ throttled' = throttled /\ retried' = retried /\ clock' = clock /\ held' = held
        /\ stage'[q] = "send" /\ deadline'[q] = clock + LATENCY
    BY DEF TokenInv, TokenTypeOK, StoreInFallback, Stored, Goes
  <2>2. Reserve(q)' = HOLD - LATENCY
    BY <2>1, <1>1 DEF Reserve
  <2>. QED BY <2>1, <2>2, <1>1, TenMinutesAreEnough DEF CallInv, Waiting
<1>6. \A r \in Calls \ {q} : CallInv(r)'
  BY CallFrame DEF TokenInv, TokenTypeOK, StoreInFallback, Stored, Goes
<1>. QED BY <1>3, <1>4, <1>5, <1>6 DEF TokenInv

LEMMA AnsweredInv ==
  ASSUME TokenInv, NEW q \in Calls, Answered(q)
  PROVE  TokenInv'
<1>. USE HoldIs
<1>1. TokenTypeOK'
  BY DEF TokenInv, TokenTypeOK, Answered, EndsAs, Goes, Entry, Entries
<1>2. Outlives(redisEntry)' /\ \A p \in Processes : Outlives(fallbackEntry[p])'
  BY DEF TokenInv, TokenTypeOK, Outlives, Answered, EndsAs, Goes, Entry, Entries
<1>3. CallInv(q)'
  BY DEF TokenInv, TokenTypeOK, CallInv, Waiting, Reserve, Outlives, Answered, EndsAs, Goes, Entries
<1>4. \A r \in Calls \ {q} : CallInv(r)'
  BY CallFrame DEF TokenInv, TokenTypeOK, Answered, EndsAs, Goes
<1>. QED BY <1>1, <1>2, <1>3, <1>4 DEF TokenInv

LEMMA RateLimitedInv ==
  ASSUME TokenInv, NEW q \in Calls, RateLimited(q)
  PROVE  TokenInv'
<1>. USE HoldIs
<1>1. PICK wait \in WAITS :
        IF willRetry(q, wait)
          THEN /\ throttled' = [throttled EXCEPT ![q] = @ + 1]
               /\ Goes(q, "send", clock + wait + LATENCY)
               /\ UNCHANGED <<held, ttl, mints, retried>>
          ELSE EndsAs(q, "failed")
  BY DEF RateLimited
<1>2. TokenTypeOK'
  BY <1>1, HoldIs DEF TokenInv, TokenTypeOK, RateLimited, willRetry, EndsAs, Goes
<1>3. Outlives(redisEntry)' /\ \A p \in Processes : Outlives(fallbackEntry[p])'
  BY DEF TokenInv, Outlives, RateLimited, willRetry
<1>4. CallInv(q)'
  <2>1. CASE willRetry(q, wait)
    <3>1. /\ throttled'[q] = throttled[q] + 1 /\ retried' = retried /\ clock' = clock /\ held' = held
          /\ stage'[q] = "send" /\ deadline'[q] = clock + wait + LATENCY /\ wait \in Nat /\ wait <= MAX_WAIT
          /\ throttled[q] \in Nat /\ throttled[q] < MAX_RETRIES /\ retried[q] \in Nat
      BY <2>1, <1>1, HoldIs DEF TokenInv, TokenTypeOK, RateLimited, willRetry, Goes
    <3>2. /\ held[q] \in Int /\ held[q] > deadline[q] + Reserve(q)
          /\ clock \in Nat /\ deadline[q] \in Nat /\ clock <= deadline[q]
      BY DEF TokenInv, TokenTypeOK, CallInv, RateLimited, willRetry, Waiting
    <3>3. Reserve(q) = Reserve(q)' + W /\ Reserve(q)' \in Int
      BY <3>1, ReservePays DEF Reserve
    <3>. QED BY <3>1, <3>2, <3>3 DEF CallInv, Waiting, W
  <2>2. CASE ~(willRetry(q, wait))
    BY <2>2, <1>1, HoldIs DEF TokenInv, TokenTypeOK, CallInv, Waiting, RateLimited, willRetry, EndsAs, Goes
  <2>. QED BY <2>1, <2>2
<1>5. \A r \in Calls \ {q} : CallInv(r)'
  BY <1>1, CallFrame DEF TokenInv, TokenTypeOK, RateLimited, willRetry, EndsAs, Goes
<1>. QED BY <1>2, <1>3, <1>4, <1>5 DEF TokenInv

LEMMA SendFailsInv ==
  ASSUME TokenInv, NEW q \in Calls, SendFails(q)
  PROVE  TokenInv'
<1>. USE HoldIs
<1>2. TokenTypeOK'
  BY HoldIs DEF TokenInv, TokenTypeOK, SendFails, EndsAs, Goes
<1>3. Outlives(redisEntry)' /\ \A p \in Processes : Outlives(fallbackEntry[p])'
  BY DEF TokenInv, Outlives, SendFails
<1>4. CallInv(q)'
  <2>1. CASE retried[q] < RETRIES
    <3>1. /\ retried'[q] = retried[q] + 1 /\ throttled' = throttled /\ clock' = clock /\ held' = held
          /\ stage'[q] = "send" /\ deadline'[q] = clock + RETRY_WAIT + LATENCY /\ RETRY_WAIT <= RETRY_WAIT
          /\ retried[q] \in Nat /\ retried[q] < RETRIES /\ throttled[q] \in Nat
      BY <2>1, HoldIs DEF TokenInv, TokenTypeOK, SendFails, Goes
    <3>2. /\ held[q] \in Int /\ held[q] > deadline[q] + Reserve(q)
          /\ clock \in Nat /\ deadline[q] \in Nat /\ clock <= deadline[q]
      BY DEF TokenInv, TokenTypeOK, CallInv, SendFails, Waiting
    <3>3. Reserve(q) = Reserve(q)' + B /\ Reserve(q)' \in Int
      BY <3>1, ReservePays DEF Reserve
    <3>. QED BY <3>1, <3>2, <3>3 DEF CallInv, Waiting, B
  <2>2. CASE ~(retried[q] < RETRIES)
    BY <2>2, HoldIs DEF TokenInv, TokenTypeOK, CallInv, Waiting, SendFails, EndsAs, Goes
  <2>. QED BY <2>1, <2>2
<1>5. \A r \in Calls \ {q} : CallInv(r)'
  BY CallFrame DEF TokenInv, TokenTypeOK, SendFails, EndsAs, Goes
<1>. QED BY <1>2, <1>3, <1>4, <1>5 DEF TokenInv

LEMMA RedisRestartsInv ==
  ASSUME TokenInv, RedisRestarts
  PROVE  TokenInv'
<1>1. TokenTypeOK' /\ Outlives(redisEntry)' /\ \A p \in Processes : Outlives(fallbackEntry[p])'
  BY DEF TokenInv, TokenTypeOK, Outlives, RedisRestarts
<1>2. \A r \in Calls : CallInv(r)'
  BY CallFrame DEF TokenInv, RedisRestarts
<1>. QED BY <1>1, <1>2 DEF TokenInv

LEMMA TimePassesInv ==
  ASSUME TokenInv, TimePasses
  PROVE  TokenInv'
<1>1. TokenTypeOK' /\ Outlives(redisEntry)' /\ \A p \in Processes : Outlives(fallbackEntry[p])'
  BY DEF TokenInv, TokenTypeOK, Outlives, TimePasses
<1>2. \A r \in Calls : CallInv(r)'
  BY DEF TokenInv, TokenTypeOK, TimePasses, CallInv, Waiting, Reserve
<1>. QED BY <1>1, <1>2 DEF TokenInv

LEMMA TokenStep == TokenInv /\ [TokenNext]_tokenVars => TokenInv'
<1>. SUFFICES ASSUME TokenInv, [TokenNext]_tokenVars PROVE TokenInv'
  OBVIOUS
<1>1. ASSUME NEW q \in Calls, CallStep(q) PROVE TokenInv'
  BY <1>1, BeginInv, GetFromRedisInv, GetFromFallbackInv, MintSucceedsInv, MintFailsInv,
     MintThrowsInv, StoreInRedisInv, StoreInFallbackInv, AnsweredInv, RateLimitedInv,
     SendFailsInv DEF CallStep
<1>2. CASE UNCHANGED tokenVars
  <2>1. TokenTypeOK' /\ Outlives(redisEntry)' /\ \A p \in Processes : Outlives(fallbackEntry[p])'
    BY <1>2 DEF TokenInv, TokenTypeOK, Outlives, tokenVars
  <2>2. \A r \in Calls : CallInv(r)'
    BY <1>2, CallFrame DEF TokenInv, tokenVars
  <2>. QED BY <2>1, <2>2 DEF TokenInv
<1>. QED BY <1>1, <1>2, RedisRestartsInv, TimePassesInv DEF TokenNext

(* What a request holds outlasts its deadline, and it is sent by then.     *)
LEMMA TokenInvImplies == TokenInv => SentTokensAreLive
<1>. SUFFICES ASSUME TokenInv, NEW q \in Calls, stage[q] = "send" PROVE clock < held[q]
  BY DEF SentTokensAreLive
<1>1. /\ held[q] \in Int /\ held[q] > deadline[q] + Reserve(q)
      /\ clock <= deadline[q] /\ clock \in Nat /\ deadline[q] \in Nat
  BY DEF TokenInv, TokenTypeOK, CallInv, Waiting
<1>2. Reserve(q) \in Nat
  <2>1. /\ MAX_RETRIES - throttled[q] \in Nat /\ RETRIES - retried[q] \in Nat
        /\ W \in Nat /\ B \in Nat
    BY HoldIs DEF TokenInv, TokenTypeOK
  <2>2. \A m, n \in Nat : m * n \in Nat
    OBVIOUS
  <2>3. (MAX_RETRIES - throttled[q]) * W \in Nat
    BY <2>1, <2>2
  <2>4. (RETRIES - retried[q]) * B \in Nat
    BY <2>1, <2>2
  <2>. QED BY <2>3, <2>4 DEF Reserve
<1>. QED BY <1>1, <1>2

(* Every token that is sent is one that GitHub still accepts.              *)
THEOREM TokensAreLive == TokenSpec => []SentTokensAreLive
BY TokenInitInv, TokenStep, TokenInvImplies, PTL DEF TokenSpec

(* The caches and the requests' states keep their types.                   *)
THEOREM TokenTypes == TokenSpec => []TokenTypeOK
<1>1. TokenInv => TokenTypeOK
  BY DEF TokenInv
<1>. QED BY <1>1, TokenInitInv, TokenStep, PTL DEF TokenSpec

(***************************************************************************)
(* ConditionalReads.                                                       *)
(***************************************************************************)

CacheEntries == [etag : ETags, data : Bodies]
Matched(e) == e # Nothing => e \in CacheEntries /\ e.etag = etag(e.data)

(* What a read sent, and what it was answered, fits what it looked up: the *)
(* ETag is that of the entry it holds; a 304 confirms that this entry was  *)
(* the resource after the read began, and a 200 brings what was.           *)
ReadOf(r) ==
  /\ readAt[r] \in {"idle", "look-up", "request", "response", "done"}
  /\ cached[r] \in CacheEntries \cup {Nothing}
  /\ Matched(cached[r])
  /\ readAt[r] # "idle" => resource \in current[r]
  /\ readAt[r] \in {"idle", "done"} => cached[r] = Nothing /\ ifNoneMatch[r] = Nothing
  /\ cached[r] # Nothing => ifNoneMatch[r] = cached[r].etag
  /\ readAt[r] \in {"response", "done"} => reply[r] \in Replies
  /\ readAt[r] \in {"response", "done"} /\ reply[r].status = 200 => reply[r].body \in current[r]
  /\ readAt[r] = "response" /\ reply[r].status = 304 =>
       \E b \in Bodies \cap current[r] : ifNoneMatch[r] = etag(b)

ReadInv ==
  /\ resource \in Bodies \cup {Nothing}
  /\ etagEntry \in CacheEntries \cup {Nothing} /\ Matched(etagEntry)
  /\ cached \in [Reads -> CacheEntries \cup {Nothing}]
  /\ DOMAIN readAt = Reads /\ DOMAIN ifNoneMatch = Reads
  /\ DOMAIN reply = Reads /\ DOMAIN current = Reads /\ DOMAIN attempts = Reads
  /\ \A r \in Reads : ReadOf(r)

(* ETags tell bodies apart.                                                *)
LEMMA ETagsDiffer == \A b, c \in Bodies : etag(b) = etag(c) => b = c
BY DEF etag

LEMMA ReadFrame ==
  ASSUME NEW s \in Reads, ReadOf(s), resource' = resource, readAt'[s] = readAt[s],
         cached'[s] = cached[s], ifNoneMatch'[s] = ifNoneMatch[s], reply'[s] = reply[s],
         current'[s] = current[s]
  PROVE  ReadOf(s)'
BY DEF ReadOf, Matched

LEMMA ReadBeginsInv ==
  ASSUME ReadInv, NEW r \in Reads, ReadBegins(r)
  PROVE  ReadInv'
<1>1. ReadOf(r)'
  BY ReadConstants DEF ReadInv, ReadOf, Matched, CacheEntries, ReadBegins
<1>2. \A s \in Reads \ {r} : ReadOf(s)'
  BY ReadFrame DEF ReadInv, ReadBegins
<1>. QED BY <1>1, <1>2 DEF ReadInv, Matched, ReadBegins

LEMMA LookUpInv ==
  ASSUME ReadInv, NEW r \in Reads, LookUp(r)
  PROVE  ReadInv'
<1>1. ReadOf(r)'
  BY ReadConstants DEF ReadInv, ReadOf, Matched, CacheEntries, LookUp
<1>2. \A s \in Reads \ {r} : ReadOf(s)'
  BY ReadFrame DEF ReadInv, LookUp
<1>. QED BY <1>1, <1>2 DEF ReadInv, Matched, LookUp

LEMMA GithubAnswersInv ==
  ASSUME ReadInv, NEW r \in Reads, GithubAnswers(r)
  PROVE  ReadInv'
<1>1. ReadOf(r)'
  BY ReadConstants DEF ReadInv, ReadOf, Matched, CacheEntries, GithubAnswers, Answer, Replies
<1>2. \A s \in Reads \ {r} : ReadOf(s)'
  BY ReadFrame DEF ReadInv, GithubAnswers, Answer, Replies
<1>. QED BY <1>1, <1>2 DEF ReadInv, Matched, GithubAnswers, Answer, Replies

LEMMA GithubFailsInv ==
  ASSUME ReadInv, NEW r \in Reads, GithubFails(r)
  PROVE  ReadInv'
<1>1. ReadOf(r)'
  BY ReadConstants DEF ReadInv, ReadOf, Matched, CacheEntries, GithubFails, Finish, Replies
<1>2. \A s \in Reads \ {r} : ReadOf(s)'
  BY ReadFrame DEF ReadInv, GithubFails, Finish, Replies
<1>. QED BY <1>1, <1>2 DEF ReadInv, Matched, GithubFails, Finish, Replies

LEMMA StoreResponseInv ==
  ASSUME ReadInv, NEW r \in Reads, StoreResponse(r)
  PROVE  ReadInv'
<1>1. ReadOf(r)'
  BY ReadConstants DEF ReadInv, ReadOf, Matched, CacheEntries, StoreResponse, Finish, Replies, EtagEntry, ETags
<1>2. \A s \in Reads \ {r} : ReadOf(s)'
  BY ReadFrame DEF ReadInv, StoreResponse, Finish, Replies, EtagEntry, ETags
<1>3. etagEntry' \in CacheEntries \cup {Nothing} /\ Matched(etagEntry)'
  <2>1. reply[r].body \in Bodies
    BY DEF ReadInv, ReadOf, StoreResponse, Replies
  <2>2. EtagEntry(reply[r].body) \in CacheEntries /\ Matched(EtagEntry(reply[r].body))
    BY <2>1 DEF CacheEntries, EtagEntry, ETags, Matched
  <2>. QED BY <2>2 DEF ReadInv, Matched, StoreResponse
<1>. QED BY <1>1, <1>2, <1>3 DEF ReadInv, StoreResponse, Finish

LEMMA ServeCachedInv ==
  ASSUME ReadInv, NEW r \in Reads, ServeCached(r)
  PROVE  ReadInv'
<1>1. ReadOf(r)'
  BY ReadConstants, ETagsDiffer DEF ReadInv, ReadOf, Matched, CacheEntries, ServeCached, Finish, Replies
<1>2. \A s \in Reads \ {r} : ReadOf(s)'
  BY ReadFrame DEF ReadInv, ServeCached, Finish, Replies
<1>. QED BY <1>1, <1>2 DEF ReadInv, Matched, ServeCached, Finish, Replies

LEMMA RethrowInv ==
  ASSUME ReadInv, NEW r \in Reads, Rethrow(r)
  PROVE  ReadInv'
<1>1. ReadOf(r)'
  BY ReadConstants DEF ReadInv, ReadOf, Matched, CacheEntries, Rethrow, Finish, Replies
<1>2. \A s \in Reads \ {r} : ReadOf(s)'
  BY ReadFrame DEF ReadInv, Rethrow, Finish, Replies
<1>. QED BY <1>1, <1>2 DEF ReadInv, Matched, Rethrow, Finish, Replies

LEMMA ResourceChangesInv ==
  ASSUME ReadInv, ResourceChanges
  PROVE  ReadInv'
<1>1. \A r \in Reads : ReadOf(r)'
  BY DEF ReadInv, ReadOf, Matched, ResourceChanges
<1>. QED BY <1>1 DEF ReadInv, Matched, ResourceChanges

LEMMA ReadStep == ReadInv /\ [ReadNext]_readVars => ReadInv'
<1>. SUFFICES ASSUME ReadInv, [ReadNext]_readVars PROVE ReadInv'
  OBVIOUS
<1>1. CASE UNCHANGED readVars
  <2>1. \A r \in Reads : ReadOf(r)'
    BY <1>1, ReadFrame DEF ReadInv, readVars
  <2>. QED BY <1>1, <2>1 DEF ReadInv, Matched, readVars
<1>. QED BY <1>1, ReadBeginsInv, LookUpInv, GithubAnswersInv, GithubFailsInv, StoreResponseInv,
            ServeCachedInv, RethrowInv, ResourceChangesInv DEF ReadNext

(* No caller gets a body that was replaced before its request began.       *)
THEOREM ReadsStayFresh == ReadSpec => []ReadsAreFresh
<1>1. ReadInit => ReadInv
  BY DEF ReadInit, ReadInv, ReadOf, Matched
<1>2. ReadInv => ReadsAreFresh
  BY DEF ReadInv, ReadOf, ReadsAreFresh
<1>. QED BY <1>1, <1>2, ReadStep, PTL DEF ReadSpec

(***************************************************************************)
(* TarballFetch.                                                           *)
(***************************************************************************)

Limits == [kind : LimitKinds, until : Nat]

(* What a refusal asked for is past, or will be when the run wakes.        *)
FetchInv ==
  /\ second \in Nat /\ wakeAt \in Nat
  /\ limit \in Limits /\ limit.kind # "mint" /\ given \in Limits
  /\ given.kind \in {"secondary", "mint"} =>
       CASE download = "asleep" -> wakeAt >= given.until
         [] download = "failed" -> TRUE
         [] OTHER -> second >= given.until

LEMMA FetchInitInv == FetchInit => FetchInv
BY DEF FetchInit, FetchInv, Limits, LimitKinds, NoLimit

(* The header of a secondary limit says how long it lasts.                 *)
LEMMA SecondaryWait ==
  ASSUME FetchInv, Limited
  PROVE  /\ rateLimitResetAtSeconds \in Nat
         /\ limit.kind = "secondary" => second + rateLimitResetAtSeconds = limit.until
BY DEF FetchInv, Limits, LimitKinds, Limited, rateLimitResetAtSeconds, NumberOf, retryAfterHeader,
       HeaderAbsent

LEMMA FetchStep == FetchInv /\ [FetchNext]_fetchVars => FetchInv'
<1>. SUFFICES ASSUME FetchInv, [FetchNext]_fetchVars PROVE FetchInv'
  OBVIOUS
<1>. USE FetchConstants DEF FetchInv
<1>1. CASE GetToken
  <2>1. ASSUME NEW wait \in LIMITS, SleepFor(wait, [kind |-> "mint", until |-> second + wait])
        PROVE  FetchInv'
    BY <1>1, <2>1 DEF SleepFor, Limits, LimitKinds
  <2>2. CASE SleepFor(DEFAULT_WAIT, NoLimit)
    BY <2>2, <1>1 DEF SleepFor, NoLimit, Limits, LimitKinds
  <2>. QED BY <1>1, <2>1, <2>2 DEF GetToken, FetchFailsWith, Throws
<1>2. CASE RequestLimited
  BY <1>2, SecondaryWait DEF RequestLimited, SleepFor, Limits, LimitKinds
<1>3. CASE RequestAnswered
  BY <1>3 DEF RequestAnswered, FetchFailsWith, Throws
<1>4. CASE FollowRedirect
  BY <1>4 DEF FollowRedirect, FetchFailsWith, Throws
<1>5. CASE Wake
  BY <1>5 DEF Wake, Limits
<1>6. CASE SecondPassesBy
  BY <1>6 DEF SecondPassesBy, Limits
<1>7. CASE GithubLimits
  BY <1>7 DEF GithubLimits, Limits, LimitKinds
<1>8. CASE UNCHANGED fetchVars
  BY <1>8 DEF fetchVars
<1>. QED BY <1>1, <1>2, <1>3, <1>4, <1>5, <1>6, <1>7, <1>8 DEF FetchNext

(* The tarball is never asked for before the seconds that GitHub asked the *)
(* run to wait have passed.                                                *)
THEOREM TarballsWaitAsAsked == FetchSpec => WaitsAsAsked
<1>1. FetchInv /\ [FetchNext]_fetchVars
        => [Asks /\ given.kind \in {"secondary", "mint"} => second >= given.until]_fetchVars
  BY DEF FetchInv, Asks
<1>. QED BY <1>1, FetchInitInv, FetchStep, PTL DEF FetchSpec, WaitsAsAsked

(***************************************************************************)
(* Retries of retries come to an end: a request to GitHub, and a download  *)
(* that is retried by its step, which is executed again by its run, which  *)
(* sleeps over rate limits.                                                *)
(***************************************************************************)

StagesLeft(q) ==
  CASE stage[q] = "idle" -> 5 [] stage[q] = "get" -> 4 [] stage[q] = "mint" -> 3
    [] stage[q] = "store" -> 2 [] stage[q] = "send" -> 1 [] OTHER -> 0

(* The mints, deferrals and retries it has left.                           *)
TriesLeft(q) ==
  (MINT_ATTEMPTS - mints[q]) + (MAX_RETRIES - throttled[q]) + (RETRIES - retried[q])

(* Whatever Redis and GitHub answer, each step of a request takes it to a  *)
(* later stage or uses up one of its retries, of the mint, of the rate     *)
(* limit or of the retry plugin, and other requests give it none back      *)
(* (octokit-factory.ts, the throttle and retry options; app-auth.ts).      *)
CallsWindDown ==
  [][\A q \in Calls :
       /\ TriesLeft(q) \in Nat
       /\ StagesLeft(q)' <= StagesLeft(q)
       /\ StagesLeft(q)' = StagesLeft(q) => TriesLeft(q)' <= TriesLeft(q)
       /\ CallStep(q) => \/ StagesLeft(q)' < StagesLeft(q)
                         \/ TriesLeft(q)' < TriesLeft(q)]_tokenVars

MintsLeft == \A q \in Calls : mints[q] \in 0 .. MINT_ATTEMPTS

GetsOn(q) ==
  \/ StagesLeft(q)' < StagesLeft(q)
  \/ StagesLeft(q)' = StagesLeft(q) /\ TriesLeft(q)' < TriesLeft(q)

LEMMA OthersStay ==
  ASSUME NEW r \in Calls, stage'[r] = stage[r], mints'[r] = mints[r],
         throttled'[r] = throttled[r], retried'[r] = retried[r]
  PROVE  StagesLeft(r)' = StagesLeft(r) /\ TriesLeft(r)' = TriesLeft(r)
BY DEF StagesLeft, TriesLeft

(* A step of request q: it gets on, and the others are left alone.         *)
LEMMA CallGetsOn ==
  ASSUME TokenTypeOK, MintsLeft, NEW q \in Calls, CallStep(q)
  PROVE  /\ GetsOn(q) /\ mints'[q] \in 0 .. MINT_ATTEMPTS
         /\ \A r \in Calls \ {q} : /\ stage'[r] = stage[r] /\ mints'[r] = mints[r]
                                   /\ throttled'[r] = throttled[r] /\ retried'[r] = retried[r]
<1>. USE DEF TokenTypeOK, MintsLeft
<1> DEFINE Others == \A r \in Calls \ {q} : /\ stage'[r] = stage[r] /\ mints'[r] = mints[r]
                                            /\ throttled'[r] = throttled[r] /\ retried'[r] = retried[r]
           Done == GetsOn(q) /\ mints'[q] \in 0 .. MINT_ATTEMPTS /\ Others
<1>1. ASSUME NEW outcome \in {"done", "failed"}, EndsAs(q, outcome), StagesLeft(q) > 0
      PROVE  Done
  BY <1>1 DEF EndsAs, Goes, GetsOn, StagesLeft
<1>2. CASE Begin(q) \/ GetFromRedis(q) \/ GetFromFallback(q)
  BY <1>2 DEF Begin, GetFromRedis, GetFromFallback, TakesToken, MustMint, Goes, GetsOn, StagesLeft
<1>3. CASE MintSucceeds(q)
  <2>1. PICK s \in {"store", "send"} : stage[q] = "mint" /\ stage' = [stage EXCEPT ![q] = s]
    BY <1>3 DEF MintSucceeds, Goes
  <2>2. /\ mints' = [mints EXCEPT ![q] = 0] /\ throttled' = throttled /\ retried' = retried
    BY <1>3 DEF MintSucceeds
  <2>. QED BY <2>1, <2>2 DEF GetsOn, StagesLeft
<1>4. CASE MintFails(q)
  <2>1. /\ stage[q] = "mint" /\ stage' = [stage EXCEPT ![q] = "mint"]
        /\ mints[q] + 1 < MINT_ATTEMPTS /\ mints' = [mints EXCEPT ![q] = mints[q] + 1]
        /\ throttled' = throttled /\ retried' = retried
    BY <1>4 DEF MintFails, Goes
  <2>2. StagesLeft(q)' = StagesLeft(q)
    BY <2>1 DEF StagesLeft
  <2>3. TriesLeft(q)' < TriesLeft(q)
    BY <2>1 DEF TriesLeft
  <2>. QED BY <2>1, <2>2, <2>3 DEF GetsOn
<1>5. CASE MintThrows(q) \/ Answered(q)
  <2>1. StagesLeft(q) > 0
    BY <1>5 DEF MintThrows, Answered, StagesLeft
  <2>. QED BY <1>1, <1>5, <2>1 DEF MintThrows, Answered
<1>6. CASE StoreInRedis(q) \/ StoreInFallback(q)
  BY <1>6 DEF StoreInRedis, StoreInFallback, Stored, Goes, GetsOn, StagesLeft
<1>7. CASE RateLimited(q)
  <2>1. stage[q] = "send" /\ StagesLeft(q) > 0
    BY <1>7 DEF RateLimited, StagesLeft
  <2>2. CASE EndsAs(q, "failed")
    BY <1>1, <2>1, <2>2
  <2>3. CASE ~EndsAs(q, "failed")
    <3>1. /\ stage' = [stage EXCEPT ![q] = "send"] /\ throttled[q] < MAX_RETRIES
          /\ throttled' = [throttled EXCEPT ![q] = throttled[q] + 1]
          /\ mints' = mints /\ retried' = retried
      BY <1>7, <2>3 DEF RateLimited, willRetry, Goes
    <3>2. StagesLeft(q)' = StagesLeft(q)
      BY <2>1, <3>1 DEF StagesLeft
    <3>3. TriesLeft(q)' < TriesLeft(q)
      BY <3>1 DEF TriesLeft
    <3>. QED BY <3>1, <3>2, <3>3 DEF GetsOn
  <2>. QED BY <2>2, <2>3
<1>8. CASE SendFails(q)
  <2>1. stage[q] = "send" /\ StagesLeft(q) > 0
    BY <1>8 DEF SendFails, StagesLeft
  <2>2. CASE EndsAs(q, "failed")
    BY <1>1, <2>1, <2>2
  <2>3. CASE ~EndsAs(q, "failed")
    <3>1. /\ stage' = [stage EXCEPT ![q] = "send"] /\ retried[q] < RETRIES
          /\ retried' = [retried EXCEPT ![q] = retried[q] + 1]
          /\ mints' = mints /\ throttled' = throttled
      BY <1>8, <2>3 DEF SendFails, Goes
    <3>2. StagesLeft(q)' = StagesLeft(q)
      BY <2>1, <3>1 DEF StagesLeft
    <3>3. TriesLeft(q)' < TriesLeft(q)
      BY <3>1 DEF TriesLeft
    <3>. QED BY <3>1, <3>2, <3>3 DEF GetsOn
  <2>. QED BY <2>2, <2>3
<1>. HIDE DEF Done, Others
<1>9. Done
  BY <1>2, <1>3, <1>4, <1>5, <1>6, <1>7, <1>8 DEF CallStep, Done, Others
<1>. QED BY <1>9 DEF Done, Others

(* A request to GitHub takes a bounded number of steps.                    *)
THEOREM CallsAlwaysWindDown == TokenSpec => CallsWindDown
<1>1. TokenInit => MintsLeft
  <2>. SUFFICES ASSUME TokenInit, NEW q \in Calls PROVE mints[q] \in 0 .. MINT_ATTEMPTS
    BY DEF MintsLeft
  <2>1. mints[q] = 0
    BY DEF TokenInit
  <2>. QED BY <2>1
<1>2. ASSUME TokenTypeOK, MintsLeft, [TokenNext]_tokenVars, NEW q \in Calls
      PROVE  /\ TriesLeft(q) \in Nat /\ mints'[q] \in 0 .. MINT_ATTEMPTS
             /\ GetsOn(q) \/ (StagesLeft(q)' = StagesLeft(q) /\ TriesLeft(q)' = TriesLeft(q))
             /\ CallStep(q) => GetsOn(q)
  <2>1. TriesLeft(q) \in Nat
    BY <1>2 DEF TriesLeft, TokenTypeOK, MintsLeft
  <2>2. CASE CallStep(q)
    BY <1>2, <2>1, <2>2, CallGetsOn
  <2>3. ASSUME NEW r \in Calls \ {q}, CallStep(r)
        PROVE  /\ mints'[q] = mints[q]
               /\ StagesLeft(q)' = StagesLeft(q) /\ TriesLeft(q)' = TriesLeft(q)
    BY <1>2, <2>3, CallGetsOn, OthersStay
  <2>4. mints[q] \in 0 .. MINT_ATTEMPTS
    BY <1>2 DEF MintsLeft
  <2>5. ASSUME ~CallStep(q)
        PROVE  /\ mints'[q] = mints[q]
               /\ StagesLeft(q)' = StagesLeft(q) /\ TriesLeft(q)' = TriesLeft(q)
    <3>1. CASE RedisRestarts \/ TimePasses \/ UNCHANGED tokenVars
      BY <3>1, OthersStay DEF RedisRestarts, TimePasses, tokenVars
    <3>2. CASE \E r \in Calls : CallStep(r)
      <4>1. PICK r \in Calls : CallStep(r)
        BY <3>2
      <4>2. r # q
        BY <2>5, <4>1
      <4>. QED BY <2>3, <4>1, <4>2
    <3>. QED BY <1>2, <3>1, <3>2 DEF TokenNext
  <2>. QED BY <2>1, <2>2, <2>4, <2>5
<1>3. TokenTypeOK /\ MintsLeft /\ [TokenNext]_tokenVars => MintsLeft'
  BY <1>2 DEF MintsLeft
<1>4. TokenTypeOK /\ MintsLeft /\ TokenTypeOK' /\ MintsLeft' /\ [TokenNext]_tokenVars =>
        [\A q \in Calls :
           /\ TriesLeft(q) \in Nat
           /\ StagesLeft(q)' <= StagesLeft(q)
           /\ StagesLeft(q)' = StagesLeft(q) => TriesLeft(q)' <= TriesLeft(q)
           /\ CallStep(q) => \/ StagesLeft(q)' < StagesLeft(q)
                             \/ TriesLeft(q)' < TriesLeft(q)]_tokenVars
  <2>. SUFFICES ASSUME TokenTypeOK, MintsLeft, TokenTypeOK', MintsLeft', [TokenNext]_tokenVars, NEW q \in Calls
                PROVE  /\ TriesLeft(q) \in Nat
                       /\ StagesLeft(q)' <= StagesLeft(q)
                       /\ StagesLeft(q)' = StagesLeft(q) => TriesLeft(q)' <= TriesLeft(q)
                       /\ CallStep(q) => \/ StagesLeft(q)' < StagesLeft(q)
                                         \/ TriesLeft(q)' < TriesLeft(q)
    OBVIOUS
  <2>1. StagesLeft(q) \in Nat
    BY DEF StagesLeft
  <2>2. StagesLeft(q)' \in Nat
    BY DEF StagesLeft
  <2>3. TriesLeft(q)' \in Nat
    BY DEF TriesLeft, TokenTypeOK, MintsLeft
  <2>. QED BY <1>2, <2>1, <2>2, <2>3 DEF GetsOn
<1>. QED BY <1>1, <1>3, <1>4, TokenTypes, PTL DEF TokenSpec, CallsWindDown

(* What a run still has before it: its sleeps and whether it is in one, the*)
(* executions of its step, and how far this execution is.                  *)
SleepsLeft == 2 * (MAX_RATE_LIMIT_SLEEPS - sleeps) + (IF download = "asleep" THEN 1 ELSE 0)
ExecutionsLeft == SleepsLeft * (FETCH_STEP_RETRIES + 1) + (FETCH_STEP_RETRIES - thrown)
AwaitsLeft ==
  CASE download = "token" -> 3 [] download = "request" -> 2 [] download = "redirected" -> 1
    [] OTHER -> 0

DownloadFuel == 4 * ExecutionsLeft + AwaitsLeft

DownloadStep ==
  GetToken \/ RequestLimited \/ RequestAnswered \/ FollowRedirect \/ Wake

(* Every await of the download lowers DownloadFuel, and time and GitHub's  *)
(* limits leave it as it is: for every limit GitHub imposes, a run asks    *)
(* for tokens and tarballs a bounded number of times (repository-index.ts, *)
(* the rate-limit loop and the retries of its steps).                      *)
DownloadsWindDown ==
  [][/\ DownloadFuel \in Nat
     /\ DownloadStep => DownloadFuel' < DownloadFuel
     /\ ~DownloadStep => DownloadFuel' = DownloadFuel]_fetchVars

FetchBounds ==
  /\ sleeps \in 0 .. MAX_RATE_LIMIT_SLEEPS /\ thrown \in 0 .. FETCH_STEP_RETRIES
  /\ download \in {"token", "request", "redirected", "asleep", "fetched", "failed"}

Awake == download # "asleep" /\ download' # "asleep"

(* How a step lowers it: a sleep begins, or ends; the step is executed     *)
(* again; this execution gets on.                                          *)
FuelIsBurnt ==
  \/ sleeps' = sleeps + 1 /\ download # "asleep"
  \/ sleeps' = sleeps /\ download = "asleep" /\ download' = "token"
  \/ sleeps' = sleeps /\ Awake /\ thrown' = thrown + 1
  \/ sleeps' = sleeps /\ Awake /\ thrown' = thrown /\ AwaitsLeft' < AwaitsLeft

LEMMA ExecutionsDrop ==
  ASSUME NEW m \in Nat, NEW a \in Nat, NEW b \in 0 .. m, NEW c \in Nat, NEW d \in 0 .. m
  PROVE  /\ a * (m + 1) + b \in Nat
         /\ c < a => c * (m + 1) + d < a * (m + 1) + b
<1>1. a * (m + 1) \in Nat /\ c * (m + 1) \in Nat
  OBVIOUS
<1>2. ASSUME c < a PROVE c * (m + 1) + d < a * (m + 1) + b
  <2> DEFINE e == a - (c + 1)
  <2>1. e \in Nat /\ a = c + 1 + e
    BY <1>2
  <2>2. e * (m + 1) \in Nat
    BY <2>1
  <2> HIDE DEF e
  <2>3. a * (m + 1) = c * (m + 1) + (m + 1) + e * (m + 1)
    BY <2>1
  <2> QED BY <1>1, <2>2, <2>3
<1> QED BY <1>1, <1>2

LEMMA FuelIsNat ==
  ASSUME FetchBounds
  PROVE  /\ SleepsLeft \in Nat /\ FETCH_STEP_RETRIES - thrown \in 0 .. FETCH_STEP_RETRIES
         /\ ExecutionsLeft \in Nat /\ AwaitsLeft \in 0 .. 3 /\ DownloadFuel \in Nat
<1>1. SleepsLeft \in Nat /\ FETCH_STEP_RETRIES - thrown \in 0 .. FETCH_STEP_RETRIES
  BY FetchConstants DEF FetchBounds, SleepsLeft
<1>2. ExecutionsLeft \in Nat
  BY <1>1, FetchConstants, ExecutionsDrop DEF ExecutionsLeft
<1>3. AwaitsLeft \in 0 .. 3
  BY DEF AwaitsLeft
<1>. QED BY <1>1, <1>2, <1>3 DEF DownloadFuel

LEMMA AwaitsDrop ==
  ASSUME NEW e \in Nat, NEW f \in Nat, NEW a \in 0 .. 3, NEW b \in 0 .. 3,
         f < e \/ (f = e /\ b < a)
  PROVE  4 * f + b < 4 * e + a
OBVIOUS

LEMMA StepsDrop ==
  ASSUME FetchBounds, FetchBounds', FuelIsBurnt
  PROVE  DownloadFuel' < DownloadFuel
<1>1. /\ SleepsLeft \in Nat /\ FETCH_STEP_RETRIES - thrown \in 0 .. FETCH_STEP_RETRIES
      /\ ExecutionsLeft \in Nat /\ AwaitsLeft \in 0 .. 3
  BY FuelIsNat
<1>2. SleepsLeft' \in Nat /\ FETCH_STEP_RETRIES - thrown' \in 0 .. FETCH_STEP_RETRIES
  <2>. DEFINE s == sleeps'
              t == thrown'
  <2>1. s \in 0 .. MAX_RATE_LIMIT_SLEEPS /\ t \in 0 .. FETCH_STEP_RETRIES
    BY DEF FetchBounds
  <2>2. SleepsLeft' = 2 * (MAX_RATE_LIMIT_SLEEPS - s) + (IF download' = "asleep" THEN 1 ELSE 0)
    BY DEF SleepsLeft
  <2>. HIDE DEF s, t
  <2>3. 2 * (MAX_RATE_LIMIT_SLEEPS - s) \in Nat /\ FETCH_STEP_RETRIES - t \in 0 .. FETCH_STEP_RETRIES
    BY <2>1, FetchConstants
  <2>. QED BY <2>2, <2>3 DEF t
<1>3. ExecutionsLeft' \in Nat
  BY <1>2, FetchConstants, ExecutionsDrop DEF ExecutionsLeft
<1>4. AwaitsLeft' \in 0 .. 3
  BY DEF AwaitsLeft
<1>5. SleepsLeft' < SleepsLeft => ExecutionsLeft' < ExecutionsLeft
  BY <1>1, <1>2, FetchConstants, ExecutionsDrop DEF ExecutionsLeft
<1>6. SleepsLeft' = SleepsLeft /\ thrown' = thrown + 1 => ExecutionsLeft' < ExecutionsLeft
  <2>. SUFFICES ASSUME SleepsLeft' = SleepsLeft, thrown' = thrown + 1
                PROVE  ExecutionsLeft' < ExecutionsLeft
    OBVIOUS
  <2> DEFINE k == SleepsLeft * (FETCH_STEP_RETRIES + 1)
  <2>1. ExecutionsLeft = k + (FETCH_STEP_RETRIES - thrown)
        /\ ExecutionsLeft' = k + (FETCH_STEP_RETRIES - thrown')
    BY DEF ExecutionsLeft
  <2>2. k \in Nat
    BY <1>1, FetchConstants
  <2>. HIDE DEF k
  <2>. QED BY <2>1, <2>2, FetchConstants DEF FetchBounds
<1>7. SleepsLeft' = SleepsLeft /\ thrown' = thrown => ExecutionsLeft' = ExecutionsLeft
  BY DEF ExecutionsLeft
<1>8. sleeps' = sleeps /\ Awake => SleepsLeft' = SleepsLeft
  BY DEF SleepsLeft, Awake
<1>9. ExecutionsLeft' < ExecutionsLeft \/ (ExecutionsLeft' = ExecutionsLeft /\ AwaitsLeft' < AwaitsLeft)
         => DownloadFuel' < DownloadFuel
  <2>. DEFINE e == ExecutionsLeft
              f == ExecutionsLeft'
              a == AwaitsLeft
              b == AwaitsLeft'
  <2>1. e \in Nat /\ f \in Nat /\ a \in 0 .. 3 /\ b \in 0 .. 3
    BY <1>1, <1>3, <1>4
  <2>2. DownloadFuel = 4 * e + a /\ DownloadFuel' = 4 * f + b
    BY DEF DownloadFuel
  <2>3. SUFFICES ASSUME f < e \/ (f = e /\ b < a) PROVE DownloadFuel' < DownloadFuel
    OBVIOUS
  <2>. HIDE DEF e, f, a, b
  <2>4. 4 * f + b < 4 * e + a
    BY <2>1, <2>3, AwaitsDrop
  <2>. QED BY <2>2, <2>4
<1>10. CASE sleeps' = sleeps + 1 /\ download # "asleep"
  <2>1. SleepsLeft' < SleepsLeft
    BY <1>10, FetchConstants DEF SleepsLeft, FetchBounds
  <2>. QED BY <1>5, <1>9, <2>1
<1>11. CASE sleeps' = sleeps /\ download = "asleep" /\ download' = "token"
  <2>1. SleepsLeft' < SleepsLeft
    BY <1>11, FetchConstants DEF SleepsLeft, FetchBounds
  <2>. QED BY <1>5, <1>9, <2>1
<1>12. CASE sleeps' = sleeps /\ Awake /\ thrown' = thrown + 1
  BY <1>6, <1>8, <1>9, <1>12
<1>13. CASE sleeps' = sleeps /\ Awake /\ thrown' = thrown /\ AwaitsLeft' < AwaitsLeft
  BY <1>7, <1>8, <1>9, <1>13
<1>. QED BY <1>10, <1>11, <1>12, <1>13 DEF FuelIsBurnt

LEMMA DownloadBurns ==
  ASSUME FetchBounds, DownloadStep
  PROVE  FetchBounds' /\ FuelIsBurnt
<1>. USE FetchConstants
<1>1. ASSUME download \in {"token", "request", "redirected"}, NEW code, FetchFailsWith(code)
      PROVE  FetchBounds' /\ FuelIsBurnt
  <2>1. download' = "failed" /\ sleeps' = sleeps /\ thrown' = thrown
    BY <1>1 DEF FetchFailsWith
  <2>. QED BY <1>1, <2>1 DEF FetchBounds, FuelIsBurnt, AwaitsLeft, Awake
<1>2. ASSUME download \in {"token", "request", "redirected"}, Throws
      PROVE  FetchBounds' /\ FuelIsBurnt
  <2>1. CASE thrown < FETCH_STEP_RETRIES
    <3>1. download' = "token" /\ sleeps' = sleeps /\ thrown' = thrown + 1
      BY <1>2, <2>1 DEF Throws
    <3>. QED BY <1>2, <2>1, <3>1 DEF FetchBounds, FuelIsBurnt, Awake
  <2>2. CASE ~(thrown < FETCH_STEP_RETRIES)
    BY <1>1, <1>2, <2>2 DEF Throws
  <2>. QED BY <2>1, <2>2
<1>3. ASSUME download \in {"token", "request"}, NEW wait, NEW told, SleepFor(wait, told)
      PROVE  FetchBounds' /\ FuelIsBurnt
  <2>1. thrown' = thrown
    BY <1>3 DEF SleepFor
  <2>2. \/ sleeps < MAX_RATE_LIMIT_SLEEPS /\ download' = "asleep" /\ sleeps' = sleeps + 1
        \/ download' = "failed" /\ sleeps' = sleeps
    BY <1>3 DEF SleepFor
  <2>. QED BY <1>3, <2>1, <2>2 DEF FetchBounds, FuelIsBurnt, AwaitsLeft, Awake
<1>4. ASSUME \/ download = "token" /\ download' = "request"
             \/ download = "request" /\ download' = "redirected"
             \/ download = "redirected" /\ download' = "fetched",
             sleeps' = sleeps /\ thrown' = thrown
      PROVE  FetchBounds' /\ FuelIsBurnt
  BY <1>4 DEF FetchBounds, FuelIsBurnt, AwaitsLeft, Awake
<1>5. CASE GetToken
  BY <1>1, <1>2, <1>3, <1>4, <1>5 DEF GetToken
<1>6. CASE RequestLimited
  BY <1>3, <1>6 DEF RequestLimited
<1>7. CASE RequestAnswered
  BY <1>1, <1>2, <1>4, <1>7 DEF RequestAnswered
<1>8. CASE FollowRedirect
  BY <1>2, <1>4, <1>8 DEF FollowRedirect
<1>9. CASE Wake
  BY <1>9 DEF Wake, FetchBounds, FuelIsBurnt
<1>. QED BY <1>5, <1>6, <1>7, <1>8, <1>9 DEF DownloadStep

(* For every limit and all retry bounds, a download ends after a bounded   *)
(* number of awaits and sleeps.                                            *)
THEOREM DownloadsAlwaysWindDown == FetchSpec => DownloadsWindDown
<1>1. FetchInit => FetchBounds
  BY FetchConstants DEF FetchInit, FetchBounds
<1>2. ASSUME FetchBounds, [FetchNext]_fetchVars
      PROVE  /\ FetchBounds'
             /\ DownloadStep => DownloadFuel' < DownloadFuel
             /\ ~DownloadStep => DownloadFuel' = DownloadFuel
  <2>1. CASE DownloadStep
    <3>1. FetchBounds' /\ FuelIsBurnt
      BY <1>2, <2>1, DownloadBurns
    <3>. QED BY <1>2, <2>1, <3>1, StepsDrop
  <2>2. CASE ~DownloadStep
    <3>1. UNCHANGED <<download, sleeps, thrown>>
      BY <1>2, <2>2 DEF FetchNext, DownloadStep, SecondPassesBy, GithubLimits, fetchVars
    <3>. QED BY <1>2, <2>2, <3>1 DEF FetchBounds, DownloadFuel, ExecutionsLeft, SleepsLeft, AwaitsLeft
  <2>. QED BY <2>1, <2>2
<1>3. FetchBounds /\ [FetchNext]_fetchVars => FetchBounds'
  BY <1>2
<1>4. FetchBounds /\ [FetchNext]_fetchVars =>
        [/\ DownloadFuel \in Nat
         /\ DownloadStep => DownloadFuel' < DownloadFuel
         /\ ~DownloadStep => DownloadFuel' = DownloadFuel]_fetchVars
  BY <1>2, FuelIsNat
<1>. QED BY <1>1, <1>3, <1>4, PTL DEF FetchSpec, DownloadsWindDown
=============================================================================
