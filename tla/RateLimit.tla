------------------------------ MODULE RateLimit ------------------------------
(***************************************************************************)
(* checkRateLimit: a fixed-window counter in Redis, INCR and EXPIRE of a   *)
(* key that holds the index of the window.  Its two callers are the manual *)
(* index (10 an hour and repository) and the webhook burst guard (100 a    *)
(* minute and installation).  This is one caller's key.                    *)
(*                                                                         *)
(* Each command is an await.  Redis may reject it, executed or not, or     *)
(* lose its data; a process may die between INCR and EXPIRE.               *)
(***************************************************************************)
EXTENDS Integers, FiniteSets

CONSTANTS
  Hits,            \* requests that are checked
  LIMIT, WINDOW,   \* limit, windowSeconds
  MAX_TIME         \* the end of time, for TLC

ASSUME RateConstants ==
  /\ LIMIT \in Nat \ {0} /\ WINDOW \in Nat \ {0} /\ MAX_TIME \in Nat
  /\ IsFiniteSet(Hits)

VARIABLES
  now,         \* in seconds
  counters,    \* counters[b]: the count of window b's key, 0 if there is none
  expiries,    \* expiries[b]: when that key expires, 0 for never
  hit,         \* hit[h]: what request h does next, or its answer
  arrivedAt,   \* arrivedAt[h]: when its window was computed
  countOf,     \* countOf[h]: what INCR returned, or 0
  retryAt,     \* retryAt[h]: now + retryAfterSeconds, of a refused request
  lost         \* windows whose key went while requests of them were to be counted

rateVars == <<now, counters, expiries, hit, arrivedAt, countOf, retryAt, lost>>

Buckets == 0 .. MAX_TIME
window(t) == t \div WINDOW

BugOneKey(t) == 0

(* The index of the window is in the key, so each window has its own.      *)
windowKey(t) == t \div WINDOW

keyOf(h) == windowKey(arrivedAt[h])

Arrives(h) ==
  /\ hit[h] = "new"
  /\ hit' = [hit EXCEPT ![h] = "incr"]
  /\ arrivedAt' = [arrivedAt EXCEPT ![h] = now]
  /\ UNCHANGED <<now, counters, expiries, countOf, retryAt, lost>>

(* INCR; the first one is followed by EXPIRE.                              *)
Incr(h) ==
  /\ hit[h] = "incr"
  /\ counters' = [counters EXCEPT ![keyOf(h)] = @ + 1]
  /\ countOf' = [countOf EXCEPT ![h] = counters[keyOf(h)] + 1]
  /\ hit' = [hit EXCEPT ![h] = IF counters[keyOf(h)] = 0 THEN "expire" ELSE "decide"]
  /\ UNCHANGED <<now, expiries, arrivedAt, retryAt, lost>>

BugExpiresEarly(h) ==
  /\ hit[h] = "expire"
  /\ expiries' = IF counters[keyOf(h)] = 0 THEN expiries
                 ELSE [expiries EXCEPT ![keyOf(h)] = now + WINDOW - 1]
  /\ hit' = [hit EXCEPT ![h] = "decide"]
  /\ UNCHANGED <<now, counters, arrivedAt, countOf, retryAt, lost>>

Expire(h) ==
  /\ hit[h] = "expire"
  /\ expiries' = IF counters[keyOf(h)] = 0 THEN expiries
                 ELSE [expiries EXCEPT ![keyOf(h)] = now + WINDOW]
  /\ hit' = [hit EXCEPT ![h] = "decide"]
  /\ UNCHANGED <<now, counters, arrivedAt, countOf, retryAt, lost>>

Allow(h) ==
  /\ hit[h] = "decide" /\ countOf[h] <= LIMIT
  /\ hit' = [hit EXCEPT ![h] = "allowed"]
  /\ UNCHANGED <<now, counters, expiries, arrivedAt, countOf, retryAt, lost>>

(* TTL of the key: -1 if it never expires, -2 if there is none.            *)
ttlOf(b) ==
  IF counters[b] = 0 THEN -2 ELSE IF expiries[b] = 0 THEN -1 ELSE expiries[b] - now

BugTtlVerbatim(left) == left

retryAfterSeconds(left) == IF left > 0 THEN left ELSE WINDOW

Refuse(h) ==
  /\ hit[h] = "decide" /\ countOf[h] > LIMIT
  /\ hit' = [hit EXCEPT ![h] = "refused"]
  /\ retryAt' = [retryAt EXCEPT ![h] = now + retryAfterSeconds(ttlOf(keyOf(h)))]
  /\ UNCHANGED <<now, counters, expiries, arrivedAt, countOf, lost>>

(* Redis rejects the command of h, executed or not, and the check fails    *)
(* open; or the process dies: the counter does not decide either way.      *)
CheckFails(h) ==
  /\ hit[h] \in {"incr", "expire", "decide"}
  /\ \/ UNCHANGED <<counters, expiries>>
     \/ /\ hit[h] = "incr"
        /\ counters' = [counters EXCEPT ![keyOf(h)] = @ + 1]
        /\ UNCHANGED expiries
     \/ /\ hit[h] = "expire" /\ counters[keyOf(h)] # 0
        /\ expiries' = [expiries EXCEPT ![keyOf(h)] = now + WINDOW]
        /\ UNCHANGED counters
  /\ hit' = [hit EXCEPT ![h] = "unchecked"]
  /\ UNCHANGED <<now, arrivedAt, countOf, retryAt, lost>>

RedisLosesData ==
  /\ \E b \in Buckets : counters[b] # 0
  /\ counters' = [b \in Buckets |-> 0]
  /\ expiries' = [b \in Buckets |-> 0]
  /\ lost' = lost \cup {b \in Buckets : counters[b] # 0}
  /\ UNCHANGED <<now, hit, arrivedAt, countOf, retryAt>>

(* A key expires at its instant.  The window is over by then, but requests *)
(* of it may still be on their way to INCR.                                *)
Expired(b) == expiries[b] # 0 /\ expiries[b] <= now + 1
Late(b) == \E h \in Hits : hit[h] = "incr" /\ window(arrivedAt[h]) = b

SecondPasses ==
  /\ now < MAX_TIME
  /\ now' = now + 1
  /\ counters' = [b \in Buckets |-> IF Expired(b) THEN 0 ELSE counters[b]]
  /\ expiries' = [b \in Buckets |-> IF Expired(b) THEN 0 ELSE expiries[b]]
  /\ lost' = lost \cup {b \in Buckets : Expired(b) /\ Late(b)}
  /\ UNCHANGED <<hit, arrivedAt, countOf, retryAt>>

RateInit ==
  /\ now = 0
  /\ counters = [b \in Buckets |-> 0]
  /\ expiries = [b \in Buckets |-> 0]
  /\ hit = [h \in Hits |-> "new"]
  /\ arrivedAt = [h \in Hits |-> 0]
  /\ countOf = [h \in Hits |-> 0]
  /\ retryAt = [h \in Hits |-> 0]
  /\ lost = {}

RateNext ==
  \/ \E h \in Hits :
       \/ Arrives(h) \/ Incr(h) \/ Expire(h) \/ Allow(h) \/ Refuse(h)
       \/ CheckFails(h)
  \/ RedisLosesData \/ SecondPasses

RateSpec == RateInit /\ [][RateNext]_rateVars
-----------------------------------------------------------------------------
Arrived(b) == {h \in Hits : hit[h] # "new" /\ window(arrivedAt[h]) = b}

(* A request is refused only if limit others of its own window came before *)
(* it: a key that was never given its expiry, because the process died     *)
(* after INCR, blocks no later window (rate-limit.ts:21-26).               *)
RefusedByItsWindow ==
  \A h \in Hits : hit[h] = "refused" =>
    Cardinality(Arrived(window(arrivedAt[h])) \ {h}) >= LIMIT

(* At most limit requests of one window are allowed, though they check at  *)
(* the same time, unless Redis lost the counter meanwhile, it expired while*)
(* one of them was under way, or they were not counted (rate-limit.ts:     *)
(* 21-26: a boundary may let 2 x limit through, a window may not).         *)
AllowedPerWindow ==
  \A b \in Buckets \ lost : Cardinality({h \in Arrived(b) : hit[h] = "allowed"}) <= LIMIT

(* Who waits for retryAfterSeconds is in another window then, also when the*)
(* key has no expiry or is gone (rate-limit.ts:88-96).                     *)
RetryAfterSuffices ==
  \A h \in Hits : hit[h] = "refused" => window(retryAt[h]) > window(arrivedAt[h])
=============================================================================
