--------------------------- MODULE RateLimitProofs ---------------------------
(***************************************************************************)
(* Proofs about RateLimit, for every number of requests, every limit and   *)
(* every length of the window.                                             *)
(***************************************************************************)
EXTENDS RateLimit, FiniteSetTheorems, TLAPS

USE RateConstants

(* Where time t lies in its window.                                        *)
LEMMA Division ==
  ASSUME NEW t \in Nat, NEW w \in Nat \ {0}
  PROVE  /\ t \div w \in Nat
         /\ t \div w <= t
         /\ (t \div w) * w <= t
         /\ t < (t \div w) * w + w
OBVIOUS

LEMMA Product ==
  ASSUME NEW j \in Nat, NEW k \in Nat, NEW w \in Nat \ {0}, j < k
  PROVE  j * w + w <= k * w
OBVIOUS

(* The first second after window b.                                        *)
WindowEnd(b) == b * WINDOW + WINDOW

LEMMA WindowFacts ==
  /\ \A t \in Nat : window(t) \in Nat /\ window(t) <= t /\ windowKey(t) = window(t)
  /\ \A t \in 0 .. MAX_TIME : window(t) \in Buckets
  /\ \A t \in Nat : t < WindowEnd(window(t))
  /\ \A s, t \in Nat : s <= t => t + WINDOW >= WindowEnd(window(s))
  /\ \A t, b \in Nat : t >= WindowEnd(b) => window(t) > b
  /\ \A b \in Nat : WindowEnd(b) \in Nat \ {0}
  /\ \A s, t \in Nat : s <= t => window(s) <= window(t)
<1>1. \A t \in Nat : /\ t \div WINDOW \in Nat /\ t \div WINDOW <= t
                     /\ (t \div WINDOW) * WINDOW <= t /\ t < (t \div WINDOW) * WINDOW + WINDOW
  BY Division
<1>2. \A b \in Nat : b * WINDOW \in Nat
  OBVIOUS
<1>3. \A t, b \in Nat : t >= WindowEnd(b) => window(t) > b
  <2>. SUFFICES ASSUME NEW t \in Nat, NEW b \in Nat, t >= WindowEnd(b), ~(window(t) > b)
                PROVE  FALSE
    OBVIOUS
  <2>1. t \div WINDOW <= b /\ t \div WINDOW \in Nat
    BY <1>1 DEF window
  <2>2. (t \div WINDOW) * WINDOW + WINDOW <= b * WINDOW + WINDOW
    <3>1. CASE t \div WINDOW = b
      BY <3>1, <1>2
    <3>2. CASE t \div WINDOW < b
      BY <3>2, <2>1, <1>2, Product
    <3>. QED BY <2>1, <3>1, <3>2
  <2>. QED BY <1>1, <1>2, <2>1, <2>2 DEF WindowEnd
<1>4. \A s, t \in Nat : s <= t => t + WINDOW >= WindowEnd(window(s))
  <2>. SUFFICES ASSUME NEW s \in Nat, NEW t \in Nat, s <= t
                PROVE  t + WINDOW >= (s \div WINDOW) * WINDOW + WINDOW
    BY DEF WindowEnd, window
  <2>1. (s \div WINDOW) * WINDOW <= s /\ (s \div WINDOW) * WINDOW \in Nat
    BY <1>1, <1>2
  <2>. QED BY <2>1
<1>5. \A b \in Nat : WindowEnd(b) \in Nat \ {0}
  BY <1>2 DEF WindowEnd
<1>6. \A t \in Nat : t < WindowEnd(window(t))
  BY <1>1 DEF WindowEnd, window
<1>7. \A t \in 0 .. MAX_TIME : window(t) \in Buckets
  BY <1>1 DEF window, Buckets
<1>8. \A t \in Nat : window(t) \in Nat /\ window(t) <= t /\ windowKey(t) = window(t)
  BY <1>1 DEF window, windowKey
<1>9. \A s, t \in Nat : s <= t => window(s) <= window(t)
  <2>. SUFFICES ASSUME NEW s \in Nat, NEW t \in Nat, s <= t, t \div WINDOW < s \div WINDOW
                PROVE  FALSE
    BY <1>1 DEF window
  <2>1. (t \div WINDOW) * WINDOW + WINDOW <= (s \div WINDOW) * WINDOW
    BY <1>1, Product
  <2>. QED BY <2>1, <1>1, <1>2
<1>. QED BY <1>3, <1>4, <1>5, <1>6, <1>7, <1>8, <1>9

(***************************************************************************)
(* The inductive invariant.                                                *)
(***************************************************************************)

HitStates == {"new", "incr", "expire", "decide", "allowed", "refused", "unchecked"}

(* The types of the variables.                                             *)
RateTypes ==
  /\ now \in 0 .. MAX_TIME
  /\ counters \in [Buckets -> Nat] /\ expiries \in [Buckets -> Nat]
  /\ hit \in [Hits -> HitStates]
  /\ arrivedAt \in [Hits -> 0 .. MAX_TIME]
  /\ countOf \in [Hits -> Nat] /\ retryAt \in [Hits -> Nat]
  /\ lost \subseteq Buckets

(* The window of a request is computed once, from a time that is past; no  *)
(* key expires before its window is over, and no refused request may try   *)
(* again before.                                                           *)
Times ==
  /\ \A h \in Hits : arrivedAt[h] <= now
  /\ \A b \in Buckets : expiries[b] # 0 => expiries[b] >= WindowEnd(b)
  /\ RetryAfterSuffices

(* Requests of window b that were counted, or whose INCR failed.           *)
Counted(b) == {h \in Hits : hit[h] \notin {"new", "incr"} /\ window(arrivedAt[h]) = b}

(* A count is never more than the requests that were counted: losing the   *)
(* key, or never giving it an expiry, only makes it smaller.               *)
Counts ==
  /\ \A b \in Buckets : counters[b] <= Cardinality(Counted(b))
  /\ \A h \in Hits :
       /\ hit[h] \in {"new", "incr"} => countOf[h] = 0
       /\ hit[h] \in {"expire", "decide"} => countOf[h] > 0
       /\ hit[h] = "allowed" => countOf[h] \in 1 .. LIMIT
       /\ hit[h] = "refused" => countOf[h] > LIMIT
       /\ hit[h] \notin {"new", "incr"} =>
            countOf[h] <= Cardinality(Counted(window(arrivedAt[h])))

(* Nothing is counted in window b any more.                                *)
Closed(b) == window(now) > b /\ ~Late(b)

(* In a window that lost nothing no two requests have one count, and the   *)
(* counter stays above all of them until it is of no use.                  *)
Distinct ==
  /\ \A g, h \in Hits :
       /\ window(arrivedAt[g]) = window(arrivedAt[h]) /\ window(arrivedAt[h]) \notin lost
       /\ countOf[g] = countOf[h] /\ countOf[h] > 0
       => g = h
  /\ \A b \in Buckets \ lost :
       Closed(b) \/ \A h \in Hits : window(arrivedAt[h]) = b => countOf[h] <= counters[b]

RateInv == RateTypes /\ Times /\ Counts /\ Distinct

LEMMA CountedFinite ==
  ASSUME NEW b
  PROVE  /\ IsFiniteSet(Counted(b)) /\ Cardinality(Counted(b)) \in Nat
         /\ IsFiniteSet(Counted(b))' /\ Cardinality(Counted(b)') \in Nat
<1>1. Counted(b) \in SUBSET Hits /\ Counted(b)' \in SUBSET Hits
  BY DEF Counted
<1>. QED BY <1>1, FS_Subset, FS_CardinalityType

(* Steps that count nobody.                                                *)
LEMMA CountedSame ==
  ASSUME arrivedAt' = arrivedAt,
         \A h \in Hits : hit'[h] \in {"new", "incr"} <=> hit[h] \in {"new", "incr"}
  PROVE  \A b : Counted(b)' = Counted(b)
BY DEF Counted

(* A step that counts h.                                                   *)
LEMMA CountedOneMore ==
  ASSUME NEW h \in Hits, arrivedAt' = arrivedAt, hit[h] = "incr",
         hit'[h] \notin {"new", "incr"}, \A g \in Hits \ {h} : hit'[g] = hit[g]
  PROVE  \A b : Cardinality(Counted(b)') = IF b = window(arrivedAt[h])
                                             THEN Cardinality(Counted(b)) + 1
                                             ELSE Cardinality(Counted(b))
<1>. SUFFICES ASSUME NEW b
              PROVE  Cardinality(Counted(b)') = IF b = window(arrivedAt[h])
                                                  THEN Cardinality(Counted(b)) + 1
                                                  ELSE Cardinality(Counted(b))
  OBVIOUS
<1>1. CASE b = window(arrivedAt[h])
  <2>1. Counted(b)' = Counted(b) \cup {h} /\ h \notin Counted(b)
    BY <1>1 DEF Counted
  <2>. QED BY <1>1, <2>1, CountedFinite, FS_AddElement
<1>2. CASE b # window(arrivedAt[h])
  <2>1. Counted(b)' = Counted(b)
    BY <1>2 DEF Counted
  <2>. QED BY <1>2, <2>1
<1>. QED BY <1>1, <1>2

LEMMA RateInitInv == RateInit => RateInv
<1>. SUFFICES ASSUME RateInit PROVE RateInv
  OBVIOUS
<1>1. RateTypes /\ Times
  BY DEF RateInit, RateTypes, Times, RetryAfterSuffices, HitStates
<1>2. Counts
  BY CountedFinite DEF RateInit, Counts
<1>3. Distinct
  BY DEF RateInit, Distinct, Closed
<1>. QED BY <1>1, <1>2, <1>3 DEF RateInv

(***************************************************************************)
(* The steps.                                                              *)
(***************************************************************************)

(* The key a request counts in is that of its window.                      *)
LEMMA KeyIs ==
  ASSUME RateTypes, NEW h \in Hits
  PROVE  keyOf(h) = window(arrivedAt[h]) /\ window(arrivedAt[h]) \in Buckets
<1>1. arrivedAt[h] \in 0 .. MAX_TIME
  BY DEF RateTypes
<1>. QED BY <1>1, WindowFacts DEF keyOf

LEMMA ArrivesInv ==
  ASSUME RateInv, NEW h \in Hits, Arrives(h)
  PROVE  RateInv'
<1>1. RateTypes'
  BY DEF RateInv, RateTypes, Arrives, HitStates
<1>2. Times'
  BY DEF RateInv, RateTypes, Times, RetryAfterSuffices, Arrives, HitStates
<1>3. Counts'
  <2>1. \A b : Counted(b)' = Counted(b)
    BY DEF RateInv, RateTypes, Arrives, Counted
  <2>. QED BY <2>1 DEF RateInv, RateTypes, Counts, Arrives
<1>4. Distinct'
  <2>1. countOf' = countOf /\ counters' = counters /\ lost' = lost /\ countOf[h] = 0
        /\ now' = now /\ \A g \in Hits \ {h} : hit'[g] = hit[g] /\ arrivedAt'[g] = arrivedAt[g]
    BY DEF RateInv, RateTypes, Counts, Arrives
  <2>2. arrivedAt'[h] = now /\ hit'[h] = "incr"
    BY DEF RateInv, RateTypes, Arrives
  <2>3. \A b \in Buckets : Closed(b) => Closed(b)'
    <3>. SUFFICES ASSUME NEW b \in Buckets, window(now) > b, ~Late(b) PROVE ~Late(b)'
      BY <2>1 DEF Closed, window
    <3>. SUFFICES ASSUME NEW g \in Hits, hit'[g] = "incr", window(arrivedAt'[g]) = b PROVE FALSE
      BY DEF Late, window
    <3>1. CASE g = h
      <4>1. window(now) \in Nat
        BY WindowFacts DEF RateInv, RateTypes
      <4>. QED BY <3>1, <2>2, <4>1 DEF Buckets
    <3>2. CASE g # h
      BY <3>2, <2>1 DEF Late
    <3>. QED BY <3>1, <3>2
  <2>4. \A b \in Buckets : counters[b] >= 0
    BY DEF RateInv, RateTypes
  <2>5. \A g, k \in Hits : /\ window(arrivedAt'[g]) = window(arrivedAt'[k])
                           /\ window(arrivedAt'[k]) \notin lost
                           /\ countOf[g] = countOf[k] /\ countOf[k] > 0
                           => g = k
    <3>. SUFFICES ASSUME NEW g \in Hits, NEW k \in Hits, countOf[g] = countOf[k], countOf[k] > 0,
                         window(arrivedAt'[g]) = window(arrivedAt'[k]),
                         window(arrivedAt'[k]) \notin lost
                  PROVE  g = k
      OBVIOUS
    <3>1. g # h /\ k # h
      BY <2>1
    <3>2. arrivedAt'[g] = arrivedAt[g] /\ arrivedAt'[k] = arrivedAt[k]
      BY <2>1, <3>1
    <3>. QED BY <3>2 DEF RateInv, Distinct
  <2>6. \A b \in Buckets \ lost :
          Closed(b)' \/ \A g \in Hits : window(arrivedAt'[g]) = b => countOf[g] <= counters[b]
    BY <2>1, <2>3, <2>4 DEF RateInv, Distinct
  <2>. QED BY <2>1, <2>5, <2>6 DEF Distinct, window
<1>. QED BY <1>1, <1>2, <1>3, <1>4 DEF RateInv

(* A step of a request that has been counted, or a failure of one that was *)
(* not to be, leaves counts and windows alone.                             *)
LEMMA DistinctFrame ==
  ASSUME Distinct, now' = now, counters' = counters, countOf' = countOf, lost' = lost,
         arrivedAt' = arrivedAt,
         \A h \in Hits : hit'[h] = "incr" => hit[h] = "incr"
  PROVE  Distinct'
<1>1. \A b : Closed(b) => Closed(b)'
  BY DEF Closed, Late, window
<1>. QED BY <1>1 DEF Distinct, window

LEMMA IncrInv ==
  ASSUME RateInv, NEW h \in Hits, Incr(h)
  PROVE  RateInv'
<1>1. PICK k \in Buckets : k = keyOf(h) /\ k = window(arrivedAt[h])
  BY KeyIs DEF RateInv
<1>2. /\ hit[h] = "incr" /\ hit'[h] \in {"expire", "decide"}
      /\ \A g \in Hits \ {h} : hit'[g] = hit[g] /\ countOf'[g] = countOf[g]
      /\ counters'[k] = counters[k] + 1 /\ countOf'[h] = counters[k] + 1
      /\ \A b \in Buckets \ {k} : counters'[b] = counters[b]
      /\ now' = now /\ arrivedAt' = arrivedAt /\ lost' = lost /\ expiries' = expiries
      /\ counters[k] \in Nat /\ countOf \in [Hits -> Nat]
  BY <1>1 DEF RateInv, RateTypes, Incr
<1>3. RateTypes'
  BY <1>1 DEF RateInv, RateTypes, Incr, HitStates
<1>4. Times'
  BY DEF RateInv, RateTypes, Times, RetryAfterSuffices, Incr
<1>5. Counts'
  <2>1. \A b : Cardinality(Counted(b)') = IF b = k THEN Cardinality(Counted(b)) + 1
                                          ELSE Cardinality(Counted(b))
    BY <1>1, <1>2, CountedOneMore
  <2>2. \A b : Cardinality(Counted(b)) \in Nat
    BY CountedFinite
  <2>3. \A b \in Buckets : counters'[b] <= Cardinality(Counted(b)')
    BY <1>1, <1>2, <2>1, <2>2 DEF RateInv, Counts
  <2>4. ASSUME NEW g \in Hits \ {h}, hit[g] \notin {"new", "incr"}
        PROVE  countOf[g] <= Cardinality(Counted(window(arrivedAt[g]))')
    BY <2>1, <2>2, <1>2, <2>4 DEF RateInv, Counts
  <2>5. countOf'[h] <= Cardinality(Counted(k)') /\ countOf'[h] > 0
    <3>1. counters'[k] <= Cardinality(Counted(k)')
      BY <2>3
    <3>2. countOf'[h] = counters'[k] /\ counters[k] + 1 > 0
      BY <1>2
    <3>. QED BY <3>1, <3>2, <1>2
  <2>. QED BY <1>1, <1>2, <2>3, <2>4, <2>5 DEF RateInv, Counts
<1>6. Distinct'
  <2>1. ~Closed(k)
    BY <1>1, <1>2 DEF Closed, Late
  <2>2. k \notin lost => \A g \in Hits : window(arrivedAt[g]) = k => countOf[g] <= counters[k]
    BY <1>1, <2>1 DEF RateInv, Distinct
  <2>3. \A b : Closed(b) => Closed(b)'
    BY <1>2 DEF Closed, Late
  <2>4. \A f, g \in Hits : /\ window(arrivedAt[f]) = window(arrivedAt[g])
                           /\ window(arrivedAt[g]) \notin lost
                           /\ countOf'[f] = countOf'[g] /\ countOf'[g] > 0
                           => f = g
    <3>. SUFFICES ASSUME NEW f \in Hits, NEW g \in Hits,
                         window(arrivedAt[f]) = window(arrivedAt[g]),
                         window(arrivedAt[g]) \notin lost,
                         countOf'[f] = countOf'[g], countOf'[g] > 0
                  PROVE  f = g
      OBVIOUS
    <3>1. \A q \in Hits \ {h} : window(arrivedAt[q]) = k /\ k \notin lost => countOf'[q] # countOf'[h]
      <4>. SUFFICES ASSUME NEW q \in Hits \ {h}, window(arrivedAt[q]) = k, k \notin lost
                    PROVE  countOf'[q] # countOf'[h]
        OBVIOUS
      <4>1. countOf[q] <= counters[k] /\ countOf[q] \in Nat
        BY <2>2, <1>2
      <4>2. countOf'[q] = countOf[q] /\ countOf'[h] = counters[k] + 1
        BY <1>2
      <4>. QED BY <4>1, <4>2, <1>2
    <3>2. CASE f = h \/ g = h
      BY <1>1, <3>1, <3>2
    <3>3. CASE f # h /\ g # h
      BY <3>3, <1>2 DEF RateInv, Distinct
    <3>. QED BY <3>2, <3>3
  <2>5. \A b \in Buckets \ lost :
          Closed(b)' \/ \A g \in Hits : window(arrivedAt[g]) = b => countOf'[g] <= counters'[b]
    <3>. SUFFICES ASSUME NEW b \in Buckets \ lost, ~Closed(b)', NEW g \in Hits,
                         window(arrivedAt[g]) = b
                  PROVE  countOf'[g] <= counters'[b]
      OBVIOUS
    <3>1. countOf[g] <= counters[b]
      BY <2>3 DEF RateInv, Distinct
    <3>2. CASE b = k
      BY <3>1, <3>2, <1>2
    <3>3. CASE b # k
      BY <3>1, <3>3, <1>1, <1>2
    <3>. QED BY <3>2, <3>3
  <2>. QED BY <1>2, <2>4, <2>5 DEF Distinct
<1>. QED BY <1>3, <1>4, <1>5, <1>6 DEF RateInv

LEMMA ExpiryOutlastsWindow ==
  ASSUME RateTypes, Times, NEW h \in Hits
  PROVE  now + WINDOW >= WindowEnd(window(arrivedAt[h])) /\ now + WINDOW \in Nat
<1>1. now \in Nat /\ arrivedAt[h] \in Nat /\ arrivedAt[h] <= now
  BY DEF RateTypes, Times
<1>. QED BY <1>1, WindowFacts

LEMMA ExpireInv ==
  ASSUME RateInv, NEW h \in Hits, Expire(h)
  PROVE  RateInv'
<1>1. keyOf(h) = window(arrivedAt[h]) /\ window(arrivedAt[h]) \in Buckets
  BY KeyIs DEF RateInv
<1>2. now + WINDOW >= WindowEnd(window(arrivedAt[h])) /\ now + WINDOW \in Nat
  BY ExpiryOutlastsWindow DEF RateInv
<1>3. RateTypes'
  BY <1>2 DEF RateInv, RateTypes, Expire, HitStates
<1>4. Times'
  BY <1>1, <1>2 DEF RateInv, RateTypes, Times, RetryAfterSuffices, Expire
<1>5. Counts'
  <2>1. \A b : Counted(b)' = Counted(b)
    BY CountedSame DEF RateInv, RateTypes, Expire
  <2>. QED BY <2>1 DEF RateInv, RateTypes, Counts, Expire
<1>6. Distinct'
  BY DistinctFrame DEF RateInv, RateTypes, Expire
<1>. QED BY <1>3, <1>4, <1>5, <1>6 DEF RateInv

LEMMA AllowInv ==
  ASSUME RateInv, NEW h \in Hits, Allow(h)
  PROVE  RateInv'
<1>1. RateTypes' /\ Times'
  BY DEF RateInv, RateTypes, Times, RetryAfterSuffices, Allow, HitStates
<1>2. Counts'
  <2>1. \A b : Counted(b)' = Counted(b)
    BY CountedSame DEF RateInv, RateTypes, Allow
  <2>. QED BY <2>1 DEF RateInv, RateTypes, Counts, Allow
<1>3. Distinct'
  BY DistinctFrame DEF RateInv, RateTypes, Allow
<1>. QED BY <1>1, <1>2, <1>3 DEF RateInv

(* Whatever TTL answers, the wait reaches the end of the window.           *)
LEMMA WaitReachesNextWindow ==
  ASSUME RateTypes, Times, NEW h \in Hits
  PROVE  LET until == now + retryAfterSeconds(ttlOf(keyOf(h)))
         IN  until \in Nat /\ window(until) > window(arrivedAt[h])
<1>. DEFINE k == window(arrivedAt[h])
            until == now + retryAfterSeconds(ttlOf(keyOf(h)))
<1>1. keyOf(h) = k /\ k \in Buckets /\ k \in Nat
  BY KeyIs DEF Buckets
<1>2. /\ now + WINDOW >= WindowEnd(k) /\ now + WINDOW \in Nat /\ now \in Nat
      /\ expiries[k] \in Nat /\ (expiries[k] # 0 => expiries[k] >= WindowEnd(k))
  BY <1>1, ExpiryOutlastsWindow DEF RateTypes, Times
<1>. HIDE DEF k
<1>3. until \in Nat /\ until >= WindowEnd(k)
  BY <1>1, <1>2 DEF retryAfterSeconds, ttlOf
<1>4. window(until) > k
  BY <1>1, <1>3, WindowFacts
<1>. QED BY <1>3, <1>4 DEF k

LEMMA RefuseInv ==
  ASSUME RateInv, NEW h \in Hits, Refuse(h)
  PROVE  RateInv'
<1>1. /\ retryAt' = [retryAt EXCEPT ![h] = now + retryAfterSeconds(ttlOf(keyOf(h)))]
      /\ now + retryAfterSeconds(ttlOf(keyOf(h))) \in Nat
      /\ window(now + retryAfterSeconds(ttlOf(keyOf(h)))) > window(arrivedAt[h])
  BY WaitReachesNextWindow DEF RateInv, Refuse
<1>2. RateTypes'
  BY <1>1 DEF RateInv, RateTypes, Refuse, HitStates
<1>3. Times'
  BY <1>1 DEF RateInv, RateTypes, Times, RetryAfterSuffices, Refuse
<1>4. Counts'
  <2>1. \A b : Counted(b)' = Counted(b)
    BY CountedSame DEF RateInv, RateTypes, Refuse
  <2>. QED BY <2>1 DEF RateInv, RateTypes, Counts, Refuse
<1>5. Distinct'
  BY DistinctFrame DEF RateInv, RateTypes, Refuse
<1>. QED BY <1>2, <1>3, <1>4, <1>5 DEF RateInv

LEMMA CheckFailsInv ==
  ASSUME RateInv, NEW h \in Hits, CheckFails(h)
  PROVE  RateInv'
<1>1. PICK k \in Buckets : k = keyOf(h) /\ k = window(arrivedAt[h])
  BY KeyIs DEF RateInv
<1>2. now + WINDOW >= WindowEnd(k) /\ now + WINDOW \in Nat
  BY <1>1, ExpiryOutlastsWindow DEF RateInv
<1>3. /\ hit'[h] = "unchecked" /\ \A g \in Hits \ {h} : hit'[g] = hit[g]
      /\ hit[h] \in {"incr", "expire", "decide"}
      /\ now' = now /\ arrivedAt' = arrivedAt /\ countOf' = countOf /\ lost' = lost
      /\ retryAt' = retryAt
  BY DEF RateInv, RateTypes, CheckFails
<1>4. /\ counters' \in [Buckets -> Nat]
      /\ \A b \in Buckets : /\ counters'[b] \in {counters[b], counters[b] + 1}
                            /\ counters'[b] = counters[b] \/ (b = k /\ hit[h] = "incr")
                            /\ counters[b] \in Nat
  BY <1>1 DEF RateInv, RateTypes, CheckFails
<1>5. expiries' \in [Buckets -> Nat] /\ \A b \in Buckets : expiries'[b] # 0 => expiries'[b] >= WindowEnd(b)
  BY <1>1, <1>2 DEF RateInv, RateTypes, Times, CheckFails
<1>6. RateTypes'
  BY <1>3, <1>4, <1>5 DEF RateInv, RateTypes, CheckFails, HitStates
<1>7. Times'
  BY <1>3, <1>5 DEF RateInv, RateTypes, Times, RetryAfterSuffices
<1>8. Counts'
  <2>1. \A b : Cardinality(Counted(b)) \in Nat
    BY CountedFinite
  <2>2. CASE hit[h] = "incr"
    <3>1. \A b : Cardinality(Counted(b)') = IF b = k THEN Cardinality(Counted(b)) + 1
                                            ELSE Cardinality(Counted(b))
      BY <1>1, <1>3, <2>2, CountedOneMore
    <3>2. \A b \in Buckets : counters'[b] <= Cardinality(Counted(b)')
      BY <1>4, <2>1, <3>1 DEF RateInv, Counts
    <3>3. ASSUME NEW g \in Hits \ {h}, hit[g] \notin {"new", "incr"}
          PROVE  countOf[g] <= Cardinality(Counted(window(arrivedAt[g]))')
      BY <2>1, <3>1, <3>3, <1>3 DEF RateInv, RateTypes, Counts
    <3>4. countOf[h] = 0 /\ 0 <= Cardinality(Counted(k)')
      BY <2>1, <2>2, <3>1 DEF RateInv, Counts
    <3>. QED BY <1>1, <1>3, <3>2, <3>3, <3>4 DEF RateInv, Counts
  <2>3. CASE hit[h] # "incr"
    <3>1. \A b : Counted(b)' = Counted(b)
      BY CountedSame, <1>3, <2>3
    <3>. QED BY <1>3, <1>4, <2>3, <3>1 DEF RateInv, Counts
  <2>. QED BY <2>2, <2>3
<1>9. Distinct'
  <2>1. \A b : Closed(b) => Closed(b)'
    BY <1>3 DEF Closed, Late
  <2>2. \A b \in Buckets : \A g \in Hits : countOf[g] <= counters[b] => countOf[g] <= counters'[b]
    BY <1>4 DEF RateInv, RateTypes
  <2>. QED BY <1>3, <2>1, <2>2 DEF RateInv, Distinct
<1>. QED BY <1>6, <1>7, <1>8, <1>9 DEF RateInv

LEMMA RedisLosesDataInv ==
  ASSUME RateInv, RedisLosesData
  PROVE  RateInv'
<1>1. RateTypes' /\ Times'
  BY DEF RateInv, RateTypes, Times, RetryAfterSuffices, RedisLosesData
<1>2. Counts'
  <2>1. \A b : Counted(b)' = Counted(b)
    BY CountedSame DEF RedisLosesData
  <2>2. \A b \in Buckets : counters'[b] = 0 /\ 0 <= Cardinality(Counted(b))
    BY CountedFinite DEF RedisLosesData
  <2>. QED BY <2>1, <2>2 DEF RateInv, Counts, RedisLosesData
<1>3. Distinct'
  <2>1. \A b \in Buckets \ lost' : b \notin lost /\ counters'[b] = counters[b]
    BY DEF RedisLosesData
  <2>2. \A b : Closed(b) => Closed(b)'
    BY DEF RedisLosesData, Closed, Late
  <2>3. lost \subseteq lost' /\ countOf' = countOf /\ arrivedAt' = arrivedAt
    BY DEF RedisLosesData
  <2>. QED BY <2>1, <2>2, <2>3 DEF RateInv, Distinct
<1>. QED BY <1>1, <1>2, <1>3 DEF RateInv

(* A key that expires unseen does so after its window, and when all of the *)
(* window's requests have been counted.                                    *)
LEMMA ExpiredIsClosed ==
  ASSUME RateInv, SecondPasses, NEW b \in Buckets, Expired(b), ~Late(b)
  PROVE  Closed(b)'
<1>1. now + 1 >= WindowEnd(b) /\ now + 1 \in Nat /\ b \in Nat
  <2>1. expiries[b] \in Nat /\ expiries[b] >= WindowEnd(b) /\ expiries[b] <= now + 1
    BY DEF RateInv, RateTypes, Times, Expired
  <2>2. now \in Nat /\ b \in Nat
    BY DEF RateInv, RateTypes, Buckets
  <2>3. WindowEnd(b) \in Nat
    BY <2>2, WindowFacts
  <2>. QED BY <2>1, <2>2, <2>3
<1>2. window(now + 1) > b
  BY <1>1, WindowFacts
<1>. QED BY <1>2 DEF Closed, Late, SecondPasses

LEMMA SecondPassesInv ==
  ASSUME RateInv, SecondPasses
  PROVE  RateInv'
<1>1. RateTypes'
  BY DEF RateInv, RateTypes, SecondPasses
<1>2. Times'
  <2>1. \A h \in Hits : arrivedAt[h] \in Nat /\ now \in Nat
    BY DEF RateInv, RateTypes
  <2>. QED BY <2>1 DEF RateInv, Times, RetryAfterSuffices, SecondPasses
<1>3. Counts'
  <2>1. \A b : Counted(b)' = Counted(b)
    BY CountedSame DEF SecondPasses
  <2>2. \A b \in Buckets : /\ counters'[b] = 0 \/ counters'[b] = counters[b]
                           /\ Cardinality(Counted(b)) \in Nat
    BY CountedFinite DEF SecondPasses
  <2>3. \A b \in Buckets : counters'[b] <= Cardinality(Counted(b))
    BY <2>2 DEF RateInv, Counts
  <2>. QED BY <2>1, <2>3 DEF RateInv, Counts, SecondPasses
<1>4. Distinct'
  <2>1. \A b \in Buckets : Closed(b) => Closed(b)'
    <3>1. window(now) <= window(now + 1) /\ window(now) \in Nat /\ window(now + 1) \in Nat
      BY WindowFacts DEF RateInv, RateTypes
    <3>2. \A b \in Buckets : b \in Nat
      BY DEF Buckets
    <3>. QED BY <3>1, <3>2 DEF Closed, Late, SecondPasses
  <2>2. \A b \in Buckets \ lost' : b \notin lost /\ (Closed(b)' \/ counters'[b] = counters[b])
    BY ExpiredIsClosed DEF SecondPasses
  <2>3. lost \subseteq lost' /\ countOf' = countOf /\ arrivedAt' = arrivedAt
    BY DEF SecondPasses
  <2>. QED BY <2>1, <2>2, <2>3 DEF RateInv, Distinct
<1>. QED BY <1>1, <1>2, <1>3, <1>4 DEF RateInv

LEMMA RateStep == RateInv /\ [RateNext]_rateVars => RateInv'
<1>. SUFFICES ASSUME RateInv, [RateNext]_rateVars PROVE RateInv'
  OBVIOUS
<1>1. CASE UNCHANGED rateVars
  <2>1. \A b : Counted(b)' = Counted(b)
    BY <1>1 DEF Counted, rateVars
  <2>2. \A b : Closed(b)' <=> Closed(b)
    BY <1>1 DEF Closed, Late, rateVars
  <2>. QED BY <1>1, <2>1, <2>2 DEF RateInv, RateTypes, Times, RetryAfterSuffices, Counts, Distinct,
                                  rateVars
<1>. QED BY <1>1, ArrivesInv, IncrInv, ExpireInv, AllowInv, RefuseInv, CheckFailsInv,
            RedisLosesDataInv, SecondPassesInv DEF RateNext

LEMMA RateAlways == RateSpec => []RateInv
BY RateInitInv, RateStep, PTL DEF RateSpec

(***************************************************************************)
(* What follows.                                                           *)
(***************************************************************************)

(* The counts of the allowed requests of a window are different numbers of *)
(* 1 .. LIMIT.                                                             *)
LEMMA AllowedAreFew == RateInv => AllowedPerWindow
<1>. SUFFICES ASSUME RateInv, NEW b \in Buckets \ lost
              PROVE  Cardinality({h \in Arrived(b) : hit[h] = "allowed"}) <= LIMIT
  BY DEF AllowedPerWindow
<1>. DEFINE A == {h \in Arrived(b) : hit[h] = "allowed"}
            f == [h \in A |-> countOf[h]]
<1>1. \A h \in A : h \in Hits /\ window(arrivedAt[h]) = b /\ countOf[h] \in 1 .. LIMIT
  BY DEF RateInv, Counts, Arrived
<1>2. \A g, h \in A : countOf[g] = countOf[h] => g = h
  <2>1. \A h \in A : countOf[h] > 0
    BY <1>1
  <2>. QED BY <1>1, <2>1 DEF RateInv, Distinct
<1>. HIDE DEF A
<1>3. f \in Injection(A, 1 .. LIMIT)
  BY <1>1, <1>2 DEF Injection, IsInjective
<1>4. IsFiniteSet(1 .. LIMIT) /\ Cardinality(1 .. LIMIT) = LIMIT
  BY FS_Interval
<1>. HIDE DEF f
<1>5. Cardinality(A) <= LIMIT
  BY <1>3, <1>4, FS_Injection
<1>. QED BY <1>5 DEF A

(* The requests counted before a refused one are requests of its window.   *)
LEMMA RefusedAfterMany == RateInv => RefusedByItsWindow
<1>. SUFFICES ASSUME RateInv, NEW h \in Hits, hit[h] = "refused"
              PROVE  Cardinality(Arrived(window(arrivedAt[h])) \ {h}) >= LIMIT
  BY DEF RefusedByItsWindow
<1>. DEFINE C == Counted(window(arrivedAt[h]))
            A == Arrived(window(arrivedAt[h]))
<1>1. C \in SUBSET A /\ h \in C /\ A \in SUBSET Hits
  BY DEF Counted, Arrived
<1>2. countOf[h] > LIMIT /\ countOf[h] <= Cardinality(C) /\ countOf[h] \in Nat
  BY DEF RateInv, RateTypes, Counts
<1>. HIDE DEF C, A
<1>3. IsFiniteSet(A) /\ IsFiniteSet(C) /\ Cardinality(C) <= Cardinality(A)
  BY <1>1, FS_Subset
<1>4. Cardinality(A) \in Nat /\ Cardinality(C) \in Nat /\ Cardinality(A \ {h}) = Cardinality(A) - 1
  BY <1>1, <1>3, FS_CardinalityType, FS_RemoveElement
<1>5. Cardinality(A \ {h}) >= LIMIT
  BY <1>2, <1>3, <1>4
<1>. QED BY <1>5 DEF A

(* No window allows more than its limit, unless Redis lost its counter.    *)
THEOREM WindowsKeepTheirLimit == RateSpec => []AllowedPerWindow
BY RateAlways, AllowedAreFew, PTL

(* Nothing but its own window's requests makes a request be refused.       *)
THEOREM RefusalsAreOfTheWindow == RateSpec => []RefusedByItsWindow
BY RateAlways, RefusedAfterMany, PTL

(* Waiting as long as the refusal says reaches another window.             *)
THEOREM WaitingSuffices == RateSpec => []RetryAfterSuffices
<1>1. RateInv => RetryAfterSuffices
  BY DEF RateInv, Times
<1>. QED BY RateAlways, <1>1, PTL

(***************************************************************************)
(* Across a boundary.                                                      *)
(***************************************************************************)

(* The requests of the WINDOW seconds from t on that were allowed.         *)
AllowedFrom(t) == {h \in Hits : hit[h] = "allowed" /\ arrivedAt[h] \in t .. t + WINDOW - 1}

(* The windows that these seconds lie in.                                  *)
WindowsFrom(t) == {window(t), window(t) + 1}

(* Wherever one cuts WINDOW seconds out of time, at most twice the limit is*)
(* allowed in them (rate-limit.ts, "Fixed window, not sliding": "a fixed   *)
(* window can allow up to 2x the stated limit across a boundary").         *)
TwiceTheLimit ==
  \A t \in 0 .. MAX_TIME :
    WindowsFrom(t) \cap lost = {} => Cardinality(AllowedFrom(t)) <= 2 * LIMIT

LEMMA TwoWindows ==
  ASSUME NEW t \in Nat, NEW s \in t .. t + WINDOW - 1
  PROVE  window(s) \in WindowsFrom(t)
<1>1. s \in Nat /\ t <= s /\ s < t + WINDOW
  OBVIOUS
<1>2. window(t) \in Nat /\ window(s) \in Nat /\ window(t) <= window(s)
  BY <1>1, WindowFacts
<1>3. ~(window(s) > window(t) + 1)
  <2>1. SUFFICES ASSUME window(t) + 1 < window(s) PROVE FALSE
    BY <1>2
  <2>2. (window(t) + 1) * WINDOW + WINDOW <= window(s) * WINDOW
    BY <1>2, <2>1, Product
  <2>3. (window(t) + 1) * WINDOW = window(t) * WINDOW + WINDOW /\ window(t) * WINDOW \in Nat
    BY <1>2
  <2>4. window(s) * WINDOW <= s /\ t < window(t) * WINDOW + WINDOW /\ window(s) * WINDOW \in Nat
    BY <1>1, Division DEF window
  <2> QED BY <1>1, <2>2, <2>3, <2>4
<1> QED BY <1>2, <1>3 DEF WindowsFrom

LEMMA BoundaryAddsUp == RateInv => TwiceTheLimit
<1> SUFFICES ASSUME RateInv, NEW t \in 0 .. MAX_TIME, WindowsFrom(t) \cap lost = {}
             PROVE  Cardinality(AllowedFrom(t)) <= 2 * LIMIT
  BY DEF TwiceTheLimit
<1> DEFINE A(b) == {h \in Arrived(b) : hit[h] = "allowed"}
           S == AllowedFrom(t)
           v == window(t)
<1>1. v \in Nat /\ v \in Buckets
  BY WindowFacts
<1>2. \A b : A(b) \subseteq Hits /\ IsFiniteSet(A(b)) /\ Cardinality(A(b)) \in Nat
  <2>1. \A b : A(b) \subseteq Hits
    BY DEF Arrived
  <2> QED BY <2>1, FS_Subset, FS_CardinalityType
<1>3. \A b \in WindowsFrom(t) : Cardinality(A(b)) <= LIMIT
  <2> SUFFICES ASSUME NEW b \in WindowsFrom(t) PROVE Cardinality(A(b)) <= LIMIT
    OBVIOUS
  <2>1. CASE b \in Buckets
    BY <2>1, AllowedAreFew DEF AllowedPerWindow
  <2>2. CASE b \notin Buckets
    <3>1. \A h \in Hits : window(arrivedAt[h]) \in Buckets
      BY WindowFacts DEF RateInv, RateTypes
    <3>2. A(b) = {}
      BY <2>2, <3>1 DEF Arrived
    <3> QED BY <3>2, FS_EmptySet
  <2> QED BY <2>1, <2>2
<1>4. S \subseteq A(v) \cup A(v + 1)
  <2> SUFFICES ASSUME NEW h \in S PROVE h \in A(v) \cup A(v + 1)
    OBVIOUS
  <2>1. h \in Hits /\ hit[h] = "allowed" /\ arrivedAt[h] \in t .. t + WINDOW - 1
    BY DEF AllowedFrom
  <2>2. window(arrivedAt[h]) = v \/ window(arrivedAt[h]) = v + 1
    BY <2>1, TwoWindows DEF WindowsFrom
  <2> QED BY <2>1, <2>2 DEF Arrived
<1>5. Cardinality(A(v)) <= LIMIT /\ Cardinality(A(v + 1)) <= LIMIT
  BY <1>3 DEF WindowsFrom
<1> HIDE DEF A, S, v
<1>6. /\ IsFiniteSet(A(v) \cup A(v + 1))
      /\ Cardinality(A(v) \cup A(v + 1)) <= Cardinality(A(v)) + Cardinality(A(v + 1))
  <2>1. IsFiniteSet(A(v)) /\ IsFiniteSet(A(v + 1)) /\ IsFiniteSet(A(v) \cap A(v + 1))
    BY <1>2, FS_Intersection
  <2>2. Cardinality(A(v) \cup A(v + 1)) =
          Cardinality(A(v)) + Cardinality(A(v + 1)) - Cardinality(A(v) \cap A(v + 1))
    BY <2>1, FS_Union
  <2>3. Cardinality(A(v) \cap A(v + 1)) \in Nat
    BY <2>1, FS_CardinalityType
  <2> QED BY <1>2, <2>1, <2>2, <2>3, FS_Union
<1>7. /\ IsFiniteSet(S) /\ Cardinality(S) \in Nat
      /\ Cardinality(S) <= Cardinality(A(v) \cup A(v + 1))
      /\ Cardinality(A(v) \cup A(v + 1)) \in Nat
  BY <1>4, <1>6, FS_Subset, FS_CardinalityType
<1>8. Cardinality(S) <= 2 * LIMIT
  BY <1>2, <1>5, <1>6, <1>7
<1> QED BY <1>8 DEF S

(* A burst over a boundary is the worst that the fixed window lets through.*)
THEOREM BoundariesLetTwiceThrough == RateSpec => []TwiceTheLimit
BY RateAlways, BoundaryAddsUp, PTL
=============================================================================
