------------------------ MODULE AuthRateLimiterProofs ------------------------
(***************************************************************************)
(* Proofs about AuthRateLimiter, for any keys, goroutines, limit and       *)
(* window.  Type correctness is inductive.  The other two results need to  *)
(* know how far the times that calls carry, and the ends of the buckets,   *)
(* may be from the clock.                                                  *)
(***************************************************************************)
EXTENDS AuthRateLimiter, Sums, TLAPS

USE ConfigIsValid, TicksAreFine, MutexIsShort, NoKeyIsNoKey

\* What a time read before the mutex tells when it is used.
TimesAreClose ==
    /\ lastCleanup <= time
    /\ \A c \in Calls :
         /\ now[c] <= time
         /\ at[c] = "locking" => time - now[c] <= MaxWait

Inv == LimiterTypeOK /\ TimesAreClose /\ OnlyRecentBuckets

-----------------------------------------------------------------------------
\* The bucket an attempt counts in ends after the time the call read, and a
\* bucket that is not over for the call is the one there was.
LEMMA CurrentBucketFacts ==
    ASSUME LimiterTypeOK, NEW c \in Calls, at[c] = "locking"
    PROVE  /\ CurrentBucket(key[c], now[c]) \in Bucket
           /\ now[c] < CurrentBucket(key[c], now[c]).resetAt
           /\ now[c] < buckets[key[c]].resetAt =>
                CurrentBucket(key[c], now[c]) = buckets[key[c]]
           /\ buckets[key[c]].resetAt <= now[c] =>
                CurrentBucket(key[c], now[c]) =
                  [count |-> 0, resetAt |-> now[c] + Window]
<1>1. key[c] \in Keys /\ now[c] \in Times /\ buckets[key[c]] \in Bucket
  BY DEF LimiterTypeOK
<1>2. Cleaned(now[c])[key[c]] =
        IF CleanupIsDue(now[c]) /\ Expired(buckets[key[c]], now[c])
          THEN NoBucket ELSE buckets[key[c]]
  BY <1>1 DEF Cleaned
<1>3. CASE now[c] < buckets[key[c]].resetAt
  <2>1. ~Expired(buckets[key[c]], now[c])
    BY <1>1, <1>3 DEF Expired, Bucket, Times
  <2>2. CurrentBucket(key[c], now[c]) = buckets[key[c]]
    BY <2>1, <1>2 DEF CurrentBucket
  <2> QED  BY <2>2, <1>1, <1>3 DEF Bucket, Times
<1>4. CASE buckets[key[c]].resetAt <= now[c]
  <2>1. Expired(buckets[key[c]], now[c])
    BY <1>4 DEF Expired
  <2>2. Expired(NoBucket, now[c])
    BY <1>1 DEF Expired, NoBucket, Times
  <2>3. Expired(Cleaned(now[c])[key[c]], now[c])
    BY <1>2, <2>1, <2>2
  <2>4. CurrentBucket(key[c], now[c]) = [count |-> 0, resetAt |-> now[c] + Window]
    BY <2>3 DEF CurrentBucket
  <2> QED  BY <2>4, <1>1, <1>4 DEF Bucket, Times
<1> QED  BY <1>1, <1>3, <1>4 DEF Bucket, Times

\* What Allow makes of the map, whether it refuses the attempt or not.
LEMMA AllowedBuckets ==
    ASSUME LimiterTypeOK, NEW c \in Calls, Allow(c)
    PROVE  /\ buckets' \in [Keys -> Bucket]
           /\ \A k \in Keys : k # key[c] => buckets'[k] = Cleaned(now[c])[k]
           /\ buckets'[key[c]].resetAt = CurrentBucket(key[c], now[c]).resetAt
           /\ buckets'[key[c]].count >= CurrentBucket(key[c], now[c]).count
<1> DEFINE b == CurrentBucket(key[c], now[c])
<1>1. key[c] \in Keys /\ b \in Bucket
  BY CurrentBucketFacts DEF LimiterTypeOK, Allow
<1>2. NoBucket \in Bucket
  BY DEF NoBucket, Bucket
<1>3. Cleaned(now[c]) \in [Keys -> Bucket]
  BY <1>2 DEF Cleaned, LimiterTypeOK
<1>4. CASE Refuse(c, b)
  BY <1>1, <1>3, <1>4 DEF Refuse, Bucket
<1>5. CASE LetThrough(c, b)
  <2>1. b.count \in 0 .. Limit - 1
    BY <1>1, <1>5 DEF LetThrough, IsFull, Bucket
  <2>2. [b EXCEPT !.count = @ + 1] \in Bucket
    BY <1>1, <2>1 DEF Bucket
  <2>3. buckets' = [Cleaned(now[c]) EXCEPT ![key[c]] = [b EXCEPT !.count = @ + 1]]
    BY <1>5 DEF LetThrough
  <2>4. buckets'[key[c]] = [b EXCEPT !.count = @ + 1]
    BY <1>1, <1>3, <2>3
  <2>5. [b EXCEPT !.count = @ + 1].resetAt = b.resetAt
        /\ [b EXCEPT !.count = @ + 1].count = b.count + 1
    BY <1>1 DEF Bucket
  <2> QED  BY <1>1, <1>3, <2>1, <2>2, <2>3, <2>4, <2>5
<1> QED  BY <1>4, <1>5 DEF Allow

\* The answer of a refused attempt is a number of seconds.
LEMMA RetryAfterIsNat ==
    ASSUME NEW d \in Int
    PROVE  RetryAfterSeconds(d) \in Nat
<1>1. CASE d <= 0
  BY <1>1 DEF RetryAfterSeconds
<1>2. CASE d > 0
  <2>1. d \in Nat /\ Second \in Nat \ {0}
    BY <1>2
  <2>2. d \div Second \in Nat
    BY <2>1, SMTT(30)
  <2> QED  BY <1>2, <2>2 DEF RetryAfterSeconds
<1> QED  BY <1>1, <1>2

-----------------------------------------------------------------------------
LEMMA TypeStep == LimiterTypeOK /\ [LimiterNext]_limiterVars => LimiterTypeOK'
<1> SUFFICES ASSUME LimiterTypeOK, [LimiterNext]_limiterVars PROVE LimiterTypeOK'
  OBVIOUS
<1>1. CASE UNCHANGED limiterVars
  BY <1>1 DEF LimiterTypeOK, limiterVars
<1>2. CASE TimePasses
  <2>1. ASSUME NEW k \in Keys, NEW i \in Ages
        PROVE  (IF i = 0 THEN 0 ELSE recent[k][i - 1]) \in Nat
    <3>1. i # 0 => i - 1 \in Ages
      BY DEF Ages
    <3> QED  BY <3>1 DEF LimiterTypeOK
  <2>2. recent' \in [Keys -> [Ages -> Nat]]
    BY <1>2, <2>1 DEF TimePasses
  <2> QED  BY <1>2, <2>2 DEF TimePasses, LimiterTypeOK, Times
<1>3. CASE \E c \in Calls : \E k \in Keys : ReadClock(c, k)
  BY <1>3 DEF ReadClock, LimiterTypeOK, Times
<1>4. ASSUME NEW c \in Calls, Allow(c) PROVE LimiterTypeOK'
  <2> DEFINE b == CurrentBucket(key[c], now[c])
  <2>1. buckets' \in [Keys -> Bucket]
    BY <1>4, AllowedBuckets
  <2>2. lastCleanup' \in Times
    BY <1>4 DEF Allow, LimiterTypeOK
  <2>3. recent' \in [Keys -> [Ages -> Nat]] /\ retryAfter' \in [Calls -> Nat]
    <3>1. at[c] = "locking" /\ b \in Bucket
      BY <1>4, CurrentBucketFacts DEF Allow
    <3>2. CASE Refuse(c, b)
      <4>1. b.resetAt - now[c] \in Int
        BY <3>1 DEF LimiterTypeOK, Bucket, Times
      <4>2. RetryAfterSeconds(b.resetAt - now[c]) \in Nat
        BY <4>1, RetryAfterIsNat
      <4>3. retryAfter' =
              [retryAfter EXCEPT ![c] = RetryAfterSeconds(b.resetAt - now[c])]
            /\ recent' = recent
        BY <3>2 DEF Refuse
      <4> QED  BY <4>2, <4>3 DEF LimiterTypeOK
    <3>3. CASE LetThrough(c, b)
      <4>1. recent' = [recent EXCEPT ![key[c]][0] = @ + 1] /\ retryAfter' = retryAfter
        BY <3>3 DEF LetThrough
      <4>2. 0 \in Ages /\ key[c] \in Keys
        BY <3>1 DEF Ages, LimiterTypeOK
      <4> QED  BY <4>1, <4>2 DEF LimiterTypeOK
    <3> QED  BY <1>4, <3>2, <3>3 DEF Allow
  <2>4. at' \in [Calls -> {"idle", "locking"}]
        /\ time' = time /\ now' \in [Calls -> Times]
    BY <1>4 DEF Allow, LimiterTypeOK, Times
  <2>5. key' \in [Calls -> Keys \cup {NoKey}]
        /\ \A d \in Calls : at'[d] = "locking" <=> key'[d] # NoKey
    BY <1>4 DEF Allow, LimiterTypeOK
  <2> QED  BY <2>5, <2>1, <2>2, <2>3, <2>4 DEF LimiterTypeOK
<1> QED  BY <1>1, <1>2, <1>3, <1>4 DEF LimiterNext

\* For any limit, window, keys and goroutines, counts stay within the limit
\* and every variable keeps its type (rate_limit.go:21-56).
THEOREM TypeCorrect == LimiterSpec => []LimiterTypeOK
<1>1. LimiterInit => LimiterTypeOK
  BY DEF LimiterInit, LimiterTypeOK, NoBucket, Bucket, Times, Ages
<1> QED  BY <1>1, TypeStep, PTL DEF LimiterSpec

-----------------------------------------------------------------------------
LEMMA CloseStep == LimiterTypeOK /\ TimesAreClose /\ [LimiterNext]_limiterVars => TimesAreClose'
<1> SUFFICES ASSUME LimiterTypeOK, TimesAreClose, [LimiterNext]_limiterVars PROVE TimesAreClose'
  OBVIOUS
<1>1. CASE UNCHANGED limiterVars
  BY <1>1 DEF TimesAreClose, limiterVars
<1>2. CASE TimePasses
  BY <1>2 DEF TimePasses, LimiterTypeOK, TimesAreClose, Times
<1>3. CASE \E c \in Calls : \E k \in Keys : ReadClock(c, k)
  BY <1>3 DEF ReadClock, LimiterTypeOK, TimesAreClose, Times
<1>4. CASE \E c \in Calls : Allow(c)
  BY <1>4 DEF Allow, LimiterTypeOK, TimesAreClose, Times
<1> QED  BY <1>1, <1>2, <1>3, <1>4 DEF LimiterNext

LEMMA RecentStep == Inv /\ [LimiterNext]_limiterVars => OnlyRecentBuckets'
<1> SUFFICES ASSUME Inv, [LimiterNext]_limiterVars PROVE OnlyRecentBuckets'
  OBVIOUS
<1>1. CASE UNCHANGED <<buckets, lastCleanup>>
  BY <1>1 DEF Inv, OnlyRecentBuckets
<1>2. ASSUME NEW c \in Calls, Allow(c) PROVE OnlyRecentBuckets'
  <2> SUFFICES ASSUME NEW k \in Keys, buckets'[k] # NoBucket
               PROVE  buckets'[k].resetAt > lastCleanup'
    BY DEF OnlyRecentBuckets
  <2>1. /\ at[c] = "locking" /\ LimiterTypeOK /\ now[c] \in Times /\ lastCleanup \in Times /\ time \in Times
        /\ buckets[k] \in Bucket /\ buckets[key[c]] \in Bucket /\ key[c] \in Keys
    BY <1>2 DEF Inv, LimiterTypeOK, Allow
  <2>2. now[c] <= time /\ time - now[c] <= MaxWait /\ lastCleanup <= time
    BY <1>2 DEF Inv, TimesAreClose, Allow
  <2>3. lastCleanup' = IF CleanupIsDue(now[c]) THEN now[c] ELSE lastCleanup
    BY <1>2 DEF Allow
  <2>4. CASE k # key[c]
    <3>1. buckets'[k] = Cleaned(now[c])[k]
      BY <1>2, <2>1, <2>4, AllowedBuckets
    <3>2. buckets'[k] = buckets[k]
          /\ ~(CleanupIsDue(now[c]) /\ Expired(buckets[k], now[c]))
      BY <3>1 DEF Cleaned
    <3>3. buckets[k].resetAt > lastCleanup
      BY <3>2 DEF Inv, OnlyRecentBuckets
    <3> QED  BY <2>1, <2>3, <3>2, <3>3 DEF Expired, Bucket, Times
  <2>5. CASE k = key[c]
    <3> DEFINE b == CurrentBucket(key[c], now[c])
    <3>1. buckets'[k].resetAt = b.resetAt
      BY <1>2, <2>1, <2>5, AllowedBuckets
    <3>2. b \in Bucket /\ now[c] < b.resetAt
      BY <2>1, CurrentBucketFacts
    <3>3. CASE CleanupIsDue(now[c])
      BY <2>3, <3>1, <3>2, <3>3
    <3>4. CASE ~CleanupIsDue(now[c]) /\ now[c] < buckets[key[c]].resetAt
      <4>1. b = buckets[key[c]]
        BY <2>1, <3>4, CurrentBucketFacts
      <4>2. buckets[key[c]] # NoBucket
        BY <2>1, <3>4 DEF NoBucket, Times
      <4> QED  BY <2>1, <2>3, <3>1, <3>4, <4>1, <4>2 DEF Inv, OnlyRecentBuckets
    <3>5. CASE ~CleanupIsDue(now[c]) /\ buckets[key[c]].resetAt <= now[c]
      <4>1. b = [count |-> 0, resetAt |-> now[c] + Window]
        BY <2>1, <3>5, CurrentBucketFacts
      <4>2. b.resetAt = now[c] + Window
        BY <4>1
      <4> QED  BY <2>1, <2>2, <2>3, <3>1, <3>5, <4>2 DEF Times
    <3> QED  BY <2>1, <3>3, <3>4, <3>5 DEF Bucket, Times
  <2> QED  BY <2>4, <2>5
<1>3. CASE TimePasses \/ \E c \in Calls : \E k \in Keys : ReadClock(c, k)
  BY <1>1, <1>3 DEF TimePasses, ReadClock
<1> QED  BY <1>1, <1>2, <1>3 DEF LimiterNext, limiterVars

LEMMA Invariance == LimiterSpec => []Inv
<1>1. LimiterInit => Inv
  BY DEF LimiterInit, Inv, LimiterTypeOK, TimesAreClose, OnlyRecentBuckets,
         NoBucket, Bucket, Times, Ages
<1>2. Inv /\ [LimiterNext]_limiterVars => Inv'
  BY TypeStep, CloseStep, RecentStep DEF Inv
<1> QED  BY <1>1, <1>2, PTL DEF LimiterSpec

\* However many addresses come by, the map holds only buckets that end after
\* the last cleanup (rate_limit.go:81-92).
THEOREM MapStaysSmall == LimiterSpec => []OnlyRecentBuckets
<1>1. Inv => OnlyRecentBuckets
  BY DEF Inv
<1> QED  BY <1>1, Invariance, PTL

\* No interleaving of calls makes the limiter forget an attempt before the
\* window it was counted in is over (rate_limit.go:58-92).
THEOREM AttemptsAreKept == LimiterSpec => BucketsLast
<1> DEFINE Kept(k) ==
      buckets[k].resetAt > time =>
        /\ buckets'[k].resetAt = buckets[k].resetAt
        /\ buckets'[k].count >= buckets[k].count
<1>1. ASSUME Inv, [LimiterNext]_limiterVars PROVE [\A k \in Keys : Kept(k)]_limiterVars
  <2> SUFFICES ASSUME NEW k \in Keys, buckets[k].resetAt > time, LimiterNext
               PROVE  /\ buckets'[k].resetAt = buckets[k].resetAt
                      /\ buckets'[k].count >= buckets[k].count
    BY <1>1
  <2>1. buckets[k] \in Bucket /\ time \in Times
    BY <1>1 DEF Inv, LimiterTypeOK
  <2>2. CASE UNCHANGED buckets
    BY <2>1, <2>2 DEF Bucket
  <2>3. ASSUME NEW c \in Calls, Allow(c)
        PROVE  /\ buckets'[k].resetAt = buckets[k].resetAt
               /\ buckets'[k].count >= buckets[k].count
    <3>1. at[c] = "locking" /\ LimiterTypeOK /\ now[c] \in Times /\ now[c] <= time
      BY <1>1, <2>3 DEF Inv, LimiterTypeOK, TimesAreClose, Allow
    <3>2. now[c] < buckets[k].resetAt
      BY <2>1, <3>1 DEF Bucket, Times
    <3>3. CASE k # key[c]
      <4>1. buckets'[k] = Cleaned(now[c])[k]
        BY <2>3, <3>1, <3>3, AllowedBuckets
      <4>2. ~Expired(buckets[k], now[c])
        BY <2>1, <3>1, <3>2 DEF Expired, Bucket, Times
      <4>3. buckets'[k] = buckets[k]
        BY <4>1, <4>2 DEF Cleaned
      <4> QED  BY <2>1, <4>3 DEF Bucket
    <3>4. CASE k = key[c]
      <4>1. CurrentBucket(key[c], now[c]) = buckets[k]
        BY <3>1, <3>2, <3>4, CurrentBucketFacts
      <4> QED  BY <2>3, <3>1, <3>4, <4>1, AllowedBuckets
    <3> QED  BY <3>3, <3>4
  <2>4. CASE TimePasses \/ \E c \in Calls : \E k1 \in Keys : ReadClock(c, k1)
    BY <2>2, <2>4 DEF TimePasses, ReadClock
  <2> QED  BY <2>3, <2>4 DEF LimiterNext
<1>2. Inv /\ [LimiterNext]_limiterVars => [\A k \in Keys : Kept(k)]_limiterVars
  BY <1>1
<1> QED  BY <1>2, Invariance, PTL DEF LimiterSpec, BucketsLast

-----------------------------------------------------------------------------
\* Whole seconds, rounded up: they reach the end, and less than one too far.
LEMMA SecondsAreEnough ==
    ASSUME NEW d \in Int, d > 0
    PROVE  /\ RetryAfterSeconds(d) >= 1
           /\ Second * RetryAfterSeconds(d) \in Int
           /\ d <= Second * RetryAfterSeconds(d)
           /\ Second * RetryAfterSeconds(d) < d + Second
<1>. DEFINE q == d \div Second
            rest == d % Second
<1>1. /\ q \in Int /\ rest \in Int /\ d = Second * q + rest
      /\ 0 <= rest /\ rest < Second
  OBVIOUS
<1>2. RetryAfterSeconds(d) = IF rest # 0 THEN q + 1 ELSE q
  BY <1>1 DEF RetryAfterSeconds
<1>. HIDE DEF q, rest
<1>3. q >= 0 /\ (rest = 0 => q >= 1)
  <2>1. ASSUME q <= -1 PROVE FALSE
    BY <1>1, <2>1
  <2>2. ASSUME q = 0, rest = 0 PROVE FALSE
    BY <1>1, <2>2
  <2>. QED
    BY <1>1, <2>1, <2>2
<1>4. Second * (q + 1) = Second * q + Second
  BY <1>1
<1>. QED
  BY <1>1, <1>2, <1>3, <1>4

\* The bucket an attempt counts in ends when the old one did, or is new.
LEMMA CurrentEnd ==
    ASSUME LimiterTypeOK, NEW c \in Calls, at[c] = "locking"
    PROVE  CurrentBucket(key[c], now[c]).resetAt \in {buckets[key[c]].resetAt, now[c] + Window}
<1>1. /\ now[c] \in Times /\ buckets[key[c]] \in Bucket
  BY DEF LimiterTypeOK
<1>2. CASE now[c] < buckets[key[c]].resetAt
  BY <1>2, CurrentBucketFacts
<1>3. CASE buckets[key[c]].resetAt <= now[c]
  <2>1. CurrentBucket(key[c], now[c]) = [count |-> 0, resetAt |-> now[c] + Window]
    BY <1>3, CurrentBucketFacts
  <2>. QED
    BY <2>1
<1>. QED
  BY <1>1, <1>2, <1>3 DEF Bucket, Times

\* No bucket ends more than a window after the clock, and a call that waits for
\* the mutex has no answer yet.
EndsAreNear ==
    /\ \A k \in Keys : buckets[k].resetAt <= time + Window
    /\ \A c \in Calls : at[c] = "locking" => retryAfter[c] = 0

LEMMA NearStep == Inv /\ EndsAreNear /\ [LimiterNext]_limiterVars => EndsAreNear'
<1>. SUFFICES ASSUME Inv, EndsAreNear, [LimiterNext]_limiterVars PROVE EndsAreNear'
  OBVIOUS
<1>1. CASE UNCHANGED limiterVars
  BY <1>1 DEF EndsAreNear, limiterVars
<1>2. CASE TimePasses
  BY <1>2 DEF TimePasses, Inv, LimiterTypeOK, EndsAreNear, Bucket, Times
<1>3. CASE \E c \in Calls, k \in Keys : ReadClock(c, k)
  BY <1>3 DEF ReadClock, Inv, LimiterTypeOK, EndsAreNear
<1>4. ASSUME NEW c \in Calls, Allow(c) PROVE EndsAreNear'
  <2>1. /\ LimiterTypeOK /\ at[c] = "locking" /\ now[c] \in Times /\ time \in Times
        /\ now[c] <= time /\ time' = time
    BY <1>4 DEF Inv, LimiterTypeOK, TimesAreClose, Allow
  <2>2. ASSUME NEW k \in Keys PROVE buckets'[k].resetAt <= time + Window
    <3>1. buckets[k] \in Bucket /\ buckets[k].resetAt <= time + Window
      BY <2>1 DEF LimiterTypeOK, EndsAreNear
    <3>2. CASE k # key[c]
      <4>1. buckets'[k] \in {NoBucket, buckets[k]}
        BY <1>4, <2>1, <3>2, AllowedBuckets DEF Cleaned
      <4>. QED
        BY <2>1, <3>1, <4>1 DEF NoBucket, Times
    <3>3. CASE k = key[c]
      <4>1. buckets'[k].resetAt \in {buckets[k].resetAt, now[c] + Window}
        BY <1>4, <2>1, <3>3, AllowedBuckets, CurrentEnd
      <4>. QED
        BY <2>1, <3>1, <4>1 DEF Times
    <3>. QED
      BY <3>2, <3>3
  <2>3. \A d \in Calls : at'[d] = "locking" => retryAfter'[d] = 0
    BY <1>4, <2>1 DEF Allow, Refuse, LetThrough, LimiterTypeOK, EndsAreNear
  <2>. QED
    BY <2>1, <2>2, <2>3 DEF EndsAreNear
<1>. QED
  BY <1>1, <1>2, <1>3, <1>4 DEF LimiterNext

\* A client that waits as long as it is told finds its bucket over, and is
\* told to wait little more than a window (rate_limit.go:70-73, 112-124).
THEOREM WaitsAreEnough == LimiterSpec => RetryAfterIsEnough
<1>. DEFINE Told(c) ==
       (at[c] = "locking" /\ at'[c] = "idle") =>
          \/ retryAfter'[c] = 0 /\ recent' # recent
          \/ /\ recent' = recent
             /\ retryAfter'[c] >= 1
             /\ Expired(buckets'[key[c]], time + Second * retryAfter'[c])
             /\ Second * retryAfter'[c] < Window + MaxWait + Second
<1>1. ASSUME Inv, EndsAreNear, LimiterNext, NEW c \in Calls, at[c] = "locking", at'[c] = "idle"
      PROVE  Told(c)
  <2>1. Allow(c)
    BY <1>1 DEF LimiterNext, TimePasses, Allow, ReadClock, Inv, LimiterTypeOK
  <2>. DEFINE b == CurrentBucket(key[c], now[c])
  <2>2. /\ LimiterTypeOK /\ key[c] \in Keys /\ now[c] \in Times /\ time \in Times
        /\ now[c] <= time /\ time - now[c] <= MaxWait /\ retryAfter[c] = 0
        /\ buckets[key[c]] \in Bucket /\ buckets[key[c]].resetAt <= time + Window
    BY <1>1 DEF Inv, LimiterTypeOK, TimesAreClose, EndsAreNear
  <2>3. b \in Bucket /\ now[c] < b.resetAt
    BY <1>1, <2>2, CurrentBucketFacts
  <2>4. b.resetAt \in {buckets[key[c]].resetAt, now[c] + Window}
    BY <1>1, <2>2, CurrentEnd
  <2>. HIDE DEF b
  <2>5. b.resetAt <= time + Window
    BY <2>2, <2>4 DEF Times
  <2>6. CASE LetThrough(c, b)
    <3>1. recent' = [recent EXCEPT ![key[c]][0] = @ + 1] /\ retryAfter' = retryAfter
      BY <2>6 DEF LetThrough
    <3>2. recent'[key[c]][0] = recent[key[c]][0] + 1 /\ recent[key[c]][0] \in Nat
      BY <2>2, <3>1 DEF LimiterTypeOK, Ages
    <3>. QED
      BY <2>2, <3>1, <3>2
  <2>7. CASE Refuse(c, b)
    <3>. DEFINE d == b.resetAt - now[c]
    <3>1. d \in Int /\ d > 0 /\ d <= Window + MaxWait
      BY <2>2, <2>3, <2>5 DEF Bucket, Times
    <3>2. /\ recent' = recent /\ retryAfter'[c] = RetryAfterSeconds(d)
          /\ buckets'[key[c]].resetAt = b.resetAt
      BY <1>1, <2>1, <2>2, <2>7, AllowedBuckets DEF Refuse, LimiterTypeOK, b
    <3>3. /\ RetryAfterSeconds(d) >= 1 /\ Second * RetryAfterSeconds(d) \in Int
          /\ d <= Second * RetryAfterSeconds(d)
          /\ Second * RetryAfterSeconds(d) < d + Second
      BY <3>1, SecondsAreEnough
    <3>. QED
      BY <2>2, <2>3, <3>1, <3>2, <3>3 DEF Expired, Bucket, Times
  <2>. QED
    BY <2>1, <2>6, <2>7 DEF Allow, b
<1>2. Inv /\ EndsAreNear /\ [LimiterNext]_limiterVars => [\A c \in Calls : Told(c)]_limiterVars
  BY <1>1
<1>3. LimiterInit => EndsAreNear
  BY DEF LimiterInit, EndsAreNear, NoBucket
<1>. QED
  BY <1>2, <1>3, Invariance, NearStep, PTL DEF LimiterSpec, RetryAfterIsEnough


-----------------------------------------------------------------------------
(* Three buckets are enough.  The attempts of the last window were counted in *)
(* the bucket of the key, the one before it and one older still; a bucket     *)
(* that a cleanup has deleted is the previous one from then on.               *)

MovedUp(f) == [i \in Ages |-> IF i = 0 THEN 0 ELSE f[i - 1]]
OneMore(f) == [f EXCEPT ![0] = @ + 1]

\* The attempts in rec, counted in three buckets.
Split(rec, count, older, previous, current) ==
    /\ older \in [Ages -> Nat] /\ previous \in [Ages -> Nat] /\ current \in [Ages -> Nat]
    /\ rec \in [Ages -> Nat]
    /\ \A i \in Ages : rec[i] = older[i] + previous[i] + current[i]
    /\ Sum(older, Ages) <= Limit
    /\ Sum(previous, Ages) <= Limit
    /\ Sum(current, Ages) <= count

\* At the time t a key whose bucket ends at r let through that many attempts,
\* counted in the three: an attempt comes at most MaxWait ticks after its call
\* read the clock.
Placed(r, t, cleanup, older, previous, current) ==
    /\ older # 0 => t <= r - Window
    /\ previous # 0 => /\ t <= r - Window + MaxWait
                       /\ t < r - Window + MaxWait \/ t < cleanup + MaxWait
    /\ current # 0 => t < r + MaxWait

InBucket(r, t, cleanup, older, previous, current) ==
    /\ Window <= r
    /\ \A i \in Ages : Placed(r, t - i, cleanup, older[i], previous[i], current[i])

\* Where they are when the key has no bucket.
Forgotten(t, cleanup, older, previous, current) ==
    \A i \in Ages :
      /\ older[i] # 0 => t - i <= t - MaxWait
      /\ previous[i] # 0 => t - i < cleanup + MaxWait
      /\ current[i] = 0

Parts(rec, bucket, t, cleanup, older, previous, current) ==
    /\ Split(rec, bucket.count, older, previous, current)
    /\ IF bucket = NoBucket
         THEN Forgotten(t, cleanup, older, previous, current)
         ELSE InBucket(bucket.resetAt, t, cleanup, older, previous, current)

InThreeBuckets ==
    \A k \in Keys : \E older, previous, current :
      Parts(recent[k], buckets[k], time, lastCleanup, older, previous, current)

LEMMA AgesFacts == IsFiniteSet(Ages) /\ 0 \in Ages /\ Window - 1 \in Ages /\ Ages \in SUBSET Nat
<1>1. IsFiniteSet(0 .. Window - 1)
  BY FS_Interval
<1>. QED
  BY <1>1 DEF Ages

LEMMA CountsAreNumbers == ASSUME NEW f \in [Ages -> Nat] PROVE NumbersOn(f, Ages) /\ Sum(f, Ages) \in Nat
<1>1. \A i \in Ages : f[i] \in Nat
  OBVIOUS
<1>2. Sum(f, Ages) \in Nat
  BY ONLY <1>1, AgesFacts, SumOfNaturals
<1>. QED
  BY <1>1, <1>2 DEF NumbersOn

LEMMA CountsAddUp ==
    ASSUME NEW f, NEW g, NEW h, NumbersOn(f, Ages), NumbersOn(g, Ages),
           \A i \in Ages : h[i] = f[i] + g[i]
    PROVE  Sum(h, Ages) = Sum(f, Ages) + Sum(g, Ages)
<1>1. IsFiniteSet(Ages)
  BY AgesFacts
<1>2. NumbersOn(f, Ages) /\ NumbersOn(g, Ages) /\ \A i \in Ages : h[i] = f[i] + g[i]
  OBVIOUS
<1>. QED
  BY ONLY <1>1, <1>2, SumPlus

LEMMA OneMoreCounted ==
    ASSUME NEW f \in [Ages -> Nat]
    PROVE  OneMore(f) \in [Ages -> Nat] /\ Sum(OneMore(f), Ages) = Sum(f, Ages) + 1
<1>1. f \in [Ages -> Int]
  OBVIOUS
<1>2. Sum([f EXCEPT ![0] = @ + 1], Ages) = Sum(f, Ages) + 1
  BY <1>1, AgesFacts, SumOneMore
<1>. QED
  BY <1>2, AgesFacts DEF OneMore

LEMMA NoneIsOlder ==
    ASSUME NEW f \in [Ages -> Nat]
    PROVE  MovedUp(f) \in [Ages -> Nat] /\ Sum(MovedUp(f), Ages) <= Sum(f, Ages)
<1>. DEFINE n == Window - 1
            g == MovedUp(f)
<1>1. n \in Nat /\ Ages = 0 .. n /\ n \in Ages
  BY DEF Ages
<1>2. g \in [Ages -> Nat] /\ OnePlaceUp(f, g, n)
  BY <1>1 DEF MovedUp, OnePlaceUp
<1>3. NumbersOn(f, Ages) /\ NumbersOn(g, Ages)
  BY <1>2, CountsAreNumbers
<1>. HIDE DEF n, g
<1>4. Sum(g, Ages) = Sum(f, Ages \ {n})
  BY <1>1, <1>2, <1>3, SumOfShift
<1>5. Sum(f, Ages) = f[n] + Sum(f, Ages \ {n})
  BY <1>1, <1>3, AgesFacts, SumRemove
<1>6. f[n] \in Nat /\ Sum(f, Ages) \in Int
  BY <1>1, CountsAreNumbers
<1>7. NumbersOn(f, Ages \ {n}) /\ IsFiniteSet(Ages \ {n})
  BY <1>3, AgesFacts, FS_Subset DEF NumbersOn
<1>8. Sum(f, Ages \ {n}) \in Int
  BY <1>7, SumType
<1>. QED
  BY <1>2, <1>4, <1>5, <1>6, <1>8 DEF g


NumBucket == [count : Nat, resetAt : Nat]

\* An attempt of now counts in a bucket that ends no more than MaxWait ago.
LEMMA CountedInBucket ==
    ASSUME NEW rec, NEW bucket \in NumBucket, NEW t \in Nat, NEW cleanup \in Nat,
           NEW older, NEW previous, NEW current,
           Parts(rec, bucket, t, cleanup, older, previous, current),
           bucket # NoBucket, t < bucket.resetAt + MaxWait
    PROVE  Parts(OneMore(rec), [bucket EXCEPT !.count = @ + 1], t, cleanup,
                 older, previous, OneMore(current))
<1>1. /\ Split(rec, bucket.count, older, previous, current)
      /\ InBucket(bucket.resetAt, t, cleanup, older, previous, current)
  BY DEF Parts
<1>. DEFINE b == [bucket EXCEPT !.count = @ + 1]
<1>2. b # NoBucket /\ b.count = bucket.count + 1 /\ b.resetAt = bucket.resetAt
  BY DEF NumBucket, NoBucket
<1>3. /\ rec \in [Ages -> Nat] /\ current \in [Ages -> Nat]
      /\ older \in [Ages -> Nat] /\ previous \in [Ages -> Nat]
  BY <1>1 DEF Split
<1>4. /\ OneMore(current) \in [Ages -> Nat] /\ OneMore(rec) \in [Ages -> Nat]
      /\ Sum(OneMore(current), Ages) = Sum(current, Ages) + 1 /\ Sum(current, Ages) \in Nat
  BY <1>3, OneMoreCounted, CountsAreNumbers
<1>5. \A i \in Ages : OneMore(rec)[i] = older[i] + previous[i] + OneMore(current)[i]
  BY <1>1, <1>3, AgesFacts DEF OneMore, Split
<1>6. Split(OneMore(rec), b.count, older, previous, OneMore(current))
  <2>. HIDE DEF b
  <2>1. bucket.count \in Nat
    BY DEF NumBucket
  <2>. QED
    BY <1>1, <1>2, <1>3, <1>4, <1>5, <2>1 DEF Split
<1>7. \A i \in Ages : OneMore(current)[i] # 0 => i = 0 \/ current[i] # 0
  BY <1>3, AgesFacts DEF OneMore
<1>8. InBucket(b.resetAt, t, cleanup, older, previous, OneMore(current))
  <2>. HIDE DEF b
  <2>. QED
    BY <1>1, <1>2, <1>7 DEF InBucket, Placed
<1>. QED
  BY <1>2, <1>6, <1>8 DEF Parts

\* The first attempt of a key that has no bucket opens one that ends a window
\* after the time its call read.
LEMMA OpenedBucket ==
    ASSUME NEW rec, NEW t \in Nat, NEW cleanup \in Nat, NEW now0 \in Nat,
           NEW older, NEW previous, NEW current,
           Parts(rec, NoBucket, t, cleanup, older, previous, current),
           now0 <= t, t - now0 <= MaxWait, cleanup <= t
    PROVE  Parts(OneMore(rec), [count |-> 1, resetAt |-> now0 + Window], t, cleanup,
                 older, previous, OneMore(current))
<1>1. /\ Split(rec, 0, older, previous, current)
      /\ Forgotten(t, cleanup, older, previous, current)
  BY DEF Parts, NoBucket
<1>. DEFINE b == [count |-> 1, resetAt |-> now0 + Window]
<1>2. b # NoBucket /\ b.count = 1 /\ b.resetAt = now0 + Window
  BY DEF NoBucket
<1>3. /\ rec \in [Ages -> Nat] /\ current \in [Ages -> Nat]
      /\ older \in [Ages -> Nat] /\ previous \in [Ages -> Nat]
  BY <1>1 DEF Split
<1>4. /\ OneMore(current) \in [Ages -> Nat] /\ OneMore(rec) \in [Ages -> Nat]
      /\ Sum(OneMore(current), Ages) = Sum(current, Ages) + 1 /\ Sum(current, Ages) \in Nat
  BY <1>3, OneMoreCounted, CountsAreNumbers
<1>5. \A i \in Ages : OneMore(rec)[i] = older[i] + previous[i] + OneMore(current)[i]
  BY <1>1, <1>3, AgesFacts DEF OneMore, Split
<1>. HIDE DEF b
<1>6. Split(OneMore(rec), b.count, older, previous, OneMore(current))
  BY <1>1, <1>2, <1>3, <1>4, <1>5 DEF Split
<1>7. \A i \in Ages : OneMore(current)[i] # 0 => i = 0 \/ current[i] # 0
  BY <1>3, AgesFacts DEF OneMore
<1>8. InBucket(b.resetAt, t, cleanup, older, previous, OneMore(current))
  BY <1>1, <1>2, <1>7, AgesFacts DEF InBucket, Placed, Forgotten
<1>. QED
  BY <1>2, <1>6, <1>8 DEF Parts, b

\* When a bucket is over, nothing of the last window is older than the one
\* before it.
LEMMA NothingOlder ==
    ASSUME NEW t \in Nat, NEW r \in Nat, NEW cleanup \in Nat, NEW rec, NEW count,
           NEW older, NEW previous, NEW current,
           Split(rec, count, older, previous, current),
           InBucket(r, t, cleanup, older, previous, current), r <= t
    PROVE  /\ \A i \in Ages : older[i] = 0 /\ rec[i] = previous[i] + current[i] + older[i]
           /\ Sum(older, Ages) = 0
<1>1. \A i \in Ages : older[i] = 0
  BY DEF InBucket, Placed, Ages
<1>2. \A i \in Ages : older[i] \in Nat /\ previous[i] \in Nat /\ current[i] \in Nat
  BY DEF Split
<1>3. Sum(older, Ages) = 0
  BY ONLY <1>1, AgesFacts, SumOfZeros
<1>. QED
  BY <1>1, <1>2, <1>3 DEF Split

\* The attempt that replaces a bucket that is over.
LEMMA ReplacedBucket ==
    ASSUME NEW rec, NEW bucket \in NumBucket, NEW t \in Nat, NEW cleanup \in Nat,
           NEW now0 \in Nat, NEW older, NEW previous, NEW current,
           Parts(rec, bucket, t, cleanup, older, previous, current),
           bucket # NoBucket, bucket.count <= Limit, bucket.resetAt <= now0,
           now0 <= t, t - now0 <= MaxWait
    PROVE  Parts(OneMore(rec), [count |-> 1, resetAt |-> now0 + Window], t, cleanup,
                 previous, current, OneMore(older))
<1>1. /\ Split(rec, bucket.count, older, previous, current)
      /\ InBucket(bucket.resetAt, t, cleanup, older, previous, current)
      /\ bucket.resetAt \in Nat /\ bucket.count \in Nat
  BY DEF Parts, NumBucket
<1>. DEFINE b == [count |-> 1, resetAt |-> now0 + Window]
            r == bucket.resetAt
<1>2. b # NoBucket /\ b.count = 1 /\ b.resetAt = now0 + Window
  BY DEF NoBucket
<1>3. /\ rec \in [Ages -> Nat] /\ current \in [Ages -> Nat]
      /\ older \in [Ages -> Nat] /\ previous \in [Ages -> Nat]
  BY <1>1 DEF Split
<1>4. r \in Nat /\ r <= t
  BY <1>1
<1>. HIDE DEF b
<1>5. /\ \A i \in Ages : older[i] = 0 /\ rec[i] = previous[i] + current[i] + older[i]
      /\ Sum(older, Ages) = 0
  <2>1. Split(rec, bucket.count, older, previous, current) /\ InBucket(r, t, cleanup, older, previous, current)
    BY <1>1
  <2>. HIDE DEF r
  <2>. QED
    BY <1>4, <2>1, NothingOlder
<1>6. /\ OneMore(older) \in [Ages -> Nat] /\ OneMore(rec) \in [Ages -> Nat]
      /\ Sum(OneMore(older), Ages) = 1 /\ Sum(current, Ages) \in Nat /\ Sum(previous, Ages) \in Nat
  BY <1>3, <1>5, OneMoreCounted, CountsAreNumbers
<1>7. \A i \in Ages : OneMore(rec)[i] = previous[i] + current[i] + OneMore(older)[i]
  BY <1>3, <1>5, AgesFacts DEF OneMore
<1>8. Split(OneMore(rec), b.count, previous, current, OneMore(older))
  BY <1>1, <1>2, <1>3, <1>6, <1>7 DEF Split
<1>9. \A i \in Ages : OneMore(older)[i] # 0 => i = 0
  BY <1>3, <1>5, AgesFacts DEF OneMore
<1>10. InBucket(b.resetAt, t, cleanup, previous, current, OneMore(older))
  BY <1>1, <1>2, <1>9, AgesFacts DEF InBucket, Placed
<1>. QED
  BY <1>2, <1>8, <1>10 DEF Parts, b

\* A bucket that is over when a call on another key cleans up.
LEMMA DeletedBucket ==
    ASSUME NEW rec, NEW bucket \in NumBucket, NEW t \in Nat, NEW cleanup \in Nat,
           NEW now0 \in Nat, NEW older, NEW previous, NEW current,
           Parts(rec, bucket, t, cleanup, older, previous, current),
           bucket # NoBucket, bucket.count <= Limit, bucket.resetAt <= now0, now0 <= t,
           cleanup = 0 \/ now0 - cleanup >= Window
    PROVE  Parts(rec, NoBucket, t, now0, previous, current, older)
<1>1. /\ Split(rec, bucket.count, older, previous, current)
      /\ InBucket(bucket.resetAt, t, cleanup, older, previous, current)
      /\ bucket.resetAt \in Nat /\ bucket.count \in Nat
  BY DEF Parts, NumBucket
<1>. DEFINE r == bucket.resetAt
<1>4. r \in Nat /\ r <= t
  BY <1>1
<1>5. /\ \A i \in Ages : older[i] = 0 /\ rec[i] = previous[i] + current[i] + older[i]
      /\ Sum(older, Ages) = 0
  <2>1. Split(rec, bucket.count, older, previous, current) /\ InBucket(r, t, cleanup, older, previous, current)
    BY <1>1
  <2>. HIDE DEF r
  <2>. QED
    BY <1>4, <2>1, NothingOlder
<1>6. Sum(current, Ages) \in Nat /\ Sum(previous, Ages) \in Nat
  BY <1>1, CountsAreNumbers DEF Split
<1>7. Split(rec, 0, previous, current, older)
  BY <1>1, <1>5, <1>6 DEF Split
<1>8. ASSUME NEW i \in Ages, previous[i] # 0 PROVE t - i <= t - MaxWait
  <2>1. /\ Window <= r /\ i \in Nat
        /\ t - i <= r - Window + MaxWait
        /\ t - i < r - Window + MaxWait \/ t - i < cleanup + MaxWait
    BY <1>1, <1>8 DEF InBucket, Placed, Ages
  <2>. HIDE DEF r
  <2>2. r <= now0
    BY DEF r
  <2>. QED
    BY <1>4, <2>1, <2>2
<1>9. ASSUME NEW i \in Ages, current[i] # 0 PROVE t - i < now0 + MaxWait
  BY <1>1, <1>9, AgesFacts DEF InBucket, Placed
<1>10. Forgotten(t, now0, previous, current, older)
  BY <1>5, <1>8, <1>9 DEF Forgotten
<1>11. NoBucket.count = 0
  BY DEF NoBucket
<1>. QED
  BY <1>7, <1>10, <1>11 DEF Parts


\* What is counted in three buckets is at most three times the limit.
LEMMA SplitBounds ==
    ASSUME NEW rec, NEW count \in 0 .. Limit, NEW older, NEW previous, NEW current,
           Split(rec, count, older, previous, current)
    PROVE  Sum(rec, Ages) \in Int /\ Sum(rec, Ages) <= 3 * Limit
<1>1. /\ older \in [Ages -> Nat] /\ previous \in [Ages -> Nat] /\ current \in [Ages -> Nat]
  BY DEF Split
<1>. DEFINE two == [i \in Ages |-> older[i] + previous[i]]
<1>2. two \in [Ages -> Nat]
  BY <1>1
<1>3. \A i \in Ages : two[i] = older[i] + previous[i]
  BY <1>1
<1>3a. \A i \in Ages : rec[i] = two[i] + current[i]
  BY <1>1 DEF Split
<1>. HIDE DEF two
<1>4. /\ NumbersOn(older, Ages) /\ NumbersOn(previous, Ages) /\ NumbersOn(current, Ages)
      /\ NumbersOn(two, Ages) /\ Sum(older, Ages) \in Nat /\ Sum(previous, Ages) \in Nat
      /\ Sum(current, Ages) \in Nat
  BY <1>1, <1>2, CountsAreNumbers
<1>5. Sum(two, Ages) = Sum(older, Ages) + Sum(previous, Ages)
  BY ONLY <1>3, <1>4, CountsAddUp
<1>6. Sum(rec, Ages) = Sum(two, Ages) + Sum(current, Ages)
  BY ONLY <1>3a, <1>4, CountsAddUp
<1>7. Sum(older, Ages) <= Limit /\ Sum(previous, Ages) <= Limit /\ Sum(current, Ages) <= Limit
  BY <1>4 DEF Split
<1>. QED
  BY <1>4, <1>5, <1>6, <1>7

\* A later cleanup says no more about the attempts than an earlier one.
LEMMA LaterCleanup ==
    ASSUME NEW rec, NEW bucket \in NumBucket, NEW t \in Nat, NEW cleanup \in Nat,
           NEW now0 \in Nat, NEW older, NEW previous, NEW current,
           Parts(rec, bucket, t, cleanup, older, previous, current), cleanup <= now0
    PROVE  Parts(rec, bucket, t, now0, older, previous, current)
BY AgesFacts DEF Parts, InBucket, Placed, Forgotten

\* With the clock the attempts only become older.
LEMMA AttemptsAge ==
    ASSUME NEW rec, NEW bucket \in NumBucket, NEW t \in Nat, NEW cleanup \in Nat,
           NEW older, NEW previous, NEW current,
           Parts(rec, bucket, t, cleanup, older, previous, current)
    PROVE  Parts(MovedUp(rec), bucket, t + 1, cleanup,
                 MovedUp(older), MovedUp(previous), MovedUp(current))
<1>1. /\ rec \in [Ages -> Nat] /\ current \in [Ages -> Nat]
      /\ older \in [Ages -> Nat] /\ previous \in [Ages -> Nat] /\ bucket.count \in Nat
      /\ Split(rec, bucket.count, older, previous, current)
  BY DEF Parts, Split, NumBucket
<1>2. /\ MovedUp(rec) \in [Ages -> Nat] /\ MovedUp(current) \in [Ages -> Nat]
      /\ MovedUp(older) \in [Ages -> Nat] /\ MovedUp(previous) \in [Ages -> Nat]
      /\ Sum(MovedUp(older), Ages) <= Sum(older, Ages)
      /\ Sum(MovedUp(previous), Ages) <= Sum(previous, Ages)
      /\ Sum(MovedUp(current), Ages) <= Sum(current, Ages)
  BY <1>1, NoneIsOlder
<1>3. /\ Sum(MovedUp(older), Ages) \in Nat /\ Sum(older, Ages) \in Nat
      /\ Sum(MovedUp(previous), Ages) \in Nat /\ Sum(previous, Ages) \in Nat
      /\ Sum(MovedUp(current), Ages) \in Nat /\ Sum(current, Ages) \in Nat
  BY <1>1, <1>2, CountsAreNumbers
<1>4. \A i \in Ages : i # 0 => i - 1 \in Ages
  BY DEF Ages
<1>5. \A i \in Ages : MovedUp(rec)[i] = MovedUp(older)[i] + MovedUp(previous)[i] + MovedUp(current)[i]
  BY <1>1, <1>4 DEF Split, MovedUp
<1>6. Split(MovedUp(rec), bucket.count, MovedUp(older), MovedUp(previous), MovedUp(current))
  <2>1. /\ Sum(older, Ages) <= Limit /\ Sum(previous, Ages) <= Limit
        /\ Sum(current, Ages) <= bucket.count
    BY <1>1 DEF Split
  <2>. QED
    BY <1>1, <1>2, <1>3, <1>5, <2>1 DEF Split
<1>7. \A f \in [Ages -> Nat] : \A i \in Ages :
        MovedUp(f)[i] # 0 => i - 1 \in Ages /\ f[i - 1] # 0 /\ i \in Nat
  BY <1>4, AgesFacts DEF MovedUp
<1>8. CASE bucket = NoBucket
  <2>1. Forgotten(t, cleanup, older, previous, current)
    BY <1>8 DEF Parts
  <2>2. \A i \in Ages : MovedUp(current)[i] = 0
    BY <1>1, <1>4, <2>1 DEF MovedUp, Forgotten
  <2>3. Forgotten(t + 1, cleanup, MovedUp(older), MovedUp(previous), MovedUp(current))
    BY <1>1, <1>7, <2>1, <2>2 DEF Forgotten
  <2>. QED
    BY <1>6, <1>8, <2>3 DEF Parts
<1>9. CASE bucket # NoBucket
  <2>1. InBucket(bucket.resetAt, t, cleanup, older, previous, current) /\ bucket.resetAt \in Nat
    BY <1>9 DEF Parts, NumBucket
  <2>. DEFINE o == MovedUp(older)
              p == MovedUp(previous)
              c == MovedUp(current)
              next == t + 1
  <2>2. ASSUME NEW i \in Ages
        PROVE  Placed(bucket.resetAt, next - i, cleanup, o[i], p[i], c[i])
    <3>1. i \in Nat /\ next - i = t - (i - 1)
      BY AgesFacts
    <3>2. CASE i = 0
      BY <3>2 DEF MovedUp, Placed
    <3>3. CASE i # 0
      <4>1. i - 1 \in Ages /\ o[i] = older[i - 1] /\ p[i] = previous[i - 1] /\ c[i] = current[i - 1]
        BY <1>4, <3>3 DEF MovedUp
      <4>. HIDE DEF o, p, c, next
      <4>. QED
        BY <2>1, <3>1, <4>1 DEF InBucket, Placed
    <3>. QED
      BY <3>2, <3>3
  <2>. HIDE DEF o, p, c, next
  <2>3. InBucket(bucket.resetAt, next, cleanup, o, p, c)
    <3>1. Window <= bucket.resetAt
      BY <2>1 DEF InBucket
    <3>. QED
      BY <2>2, <3>1 DEF InBucket
  <2>. QED
    BY <1>6, <1>9, <2>3 DEF Parts, o, p, c, next
<1>. QED
  BY <1>8, <1>9

LEMMA ThreeBucketsStep ==
    Inv /\ InThreeBuckets /\ [LimiterNext]_limiterVars => InThreeBuckets'
<1>. SUFFICES ASSUME Inv, InThreeBuckets, [LimiterNext]_limiterVars, NEW k \in Keys
              PROVE  \E older, previous, current :
                       Parts(recent'[k], buckets'[k], time', lastCleanup', older, previous, current)
  BY DEF InThreeBuckets
<1>1. PICK older, previous, current :
        Parts(recent[k], buckets[k], time, lastCleanup, older, previous, current)
  BY DEF InThreeBuckets
<1>2. /\ buckets[k] \in Bucket /\ buckets[k] \in NumBucket /\ buckets[k].count <= Limit
      /\ time \in Nat /\ lastCleanup \in Nat /\ lastCleanup <= time
      /\ LimiterTypeOK /\ recent[k] \in [Ages -> Nat]
  BY DEF Inv, LimiterTypeOK, TimesAreClose, Bucket, NumBucket, Times
<1>3. CASE UNCHANGED <<recent, buckets, time, lastCleanup>>
  BY <1>1, <1>3
<1>4. CASE TimePasses
  <2>1. /\ recent'[k] = MovedUp(recent[k]) /\ buckets'[k] = buckets[k] /\ time' = time + 1
        /\ lastCleanup' = lastCleanup
    BY <1>4 DEF TimePasses, MovedUp
  <2>. QED
    BY <1>1, <1>2, <2>1, AttemptsAge
<1>5. ASSUME NEW c \in Calls, Allow(c)
      PROVE  \E older1, previous1, current1 :
               Parts(recent'[k], buckets'[k], time', lastCleanup', older1, previous1, current1)
  <2>1. /\ at[c] = "locking" /\ now[c] \in Nat /\ now[c] <= time /\ time - now[c] <= MaxWait
        /\ time' = time /\ key[c] \in Keys
        /\ lastCleanup' = IF CleanupIsDue(now[c]) THEN now[c] ELSE lastCleanup
    BY <1>5 DEF Allow, Inv, LimiterTypeOK, TimesAreClose, Times
  <2>2. lastCleanup' \in Nat /\ lastCleanup <= lastCleanup' /\ lastCleanup' <= time
    BY <1>2, <2>1 DEF CleanupIsDue
  <2>. DEFINE b == CurrentBucket(key[c], now[c])
  <2>3. CASE k # key[c]
    <3>1. buckets'[k] = Cleaned(now[c])[k]
      BY <1>2, <1>5, <2>3, AllowedBuckets
    <3>2. recent'[k] = recent[k]
      BY <1>5, <2>1, <2>3, <1>2 DEF Allow, Refuse, LetThrough, LimiterTypeOK
    <3>3. CASE buckets'[k] = buckets[k]
      BY <1>1, <1>2, <2>1, <2>2, <3>2, <3>3, LaterCleanup
    <3>4. CASE buckets'[k] # buckets[k]
      <4>1. /\ buckets'[k] = NoBucket /\ buckets[k] # NoBucket /\ CleanupIsDue(now[c])
            /\ buckets[k].resetAt <= now[c] /\ lastCleanup' = now[c]
        BY <2>1, <3>1, <3>4 DEF Cleaned, Expired
      <4>2. Parts(recent[k], NoBucket, time, now[c], previous, current, older)
        BY <1>1, <1>2, <2>1, <4>1, DeletedBucket DEF CleanupIsDue
      <4>. QED
        BY <2>1, <3>2, <4>1, <4>2
    <3>. QED
      BY <3>3, <3>4
  <2>4. CASE k = key[c]
    <3>1. b \in Bucket /\ now[c] < b.resetAt
      BY <1>2, <2>1, CurrentBucketFacts
    <3>2. CASE now[c] < buckets[k].resetAt
      <4>1. b = buckets[k]
        BY <1>2, <2>1, <2>4, <3>2, CurrentBucketFacts
      <4>2. Parts(recent[k], buckets[k], time, lastCleanup', older, previous, current)
        BY <1>1, <1>2, <2>2, LaterCleanup
      <4>3. Cleaned(now[c]) \in [Keys -> {NoBucket} \cup Bucket]
        BY <1>2 DEF Cleaned, LimiterTypeOK
      <4>4. CASE Refuse(c, b)
        <5>1. buckets' = [Cleaned(now[c]) EXCEPT ![key[c]] = b] /\ recent' = recent
          BY <4>4 DEF Refuse
        <5>2. buckets'[k] = buckets[k] /\ recent'[k] = recent[k]
          BY <2>1, <2>4, <4>1, <4>3, <5>1
        <5>. QED
          BY <2>1, <4>2, <5>2
      <4>5. CASE LetThrough(c, b)
        <5>1. /\ buckets' = [Cleaned(now[c]) EXCEPT ![key[c]] = [b EXCEPT !.count = @ + 1]]
              /\ recent' = [recent EXCEPT ![key[c]][0] = @ + 1]
          BY <4>5 DEF LetThrough
        <5>2. /\ buckets'[k] = [buckets[k] EXCEPT !.count = @ + 1]
              /\ recent'[k] = OneMore(recent[k])
          BY <1>2, <2>1, <2>4, <4>1, <4>3, <5>1 DEF OneMore, LimiterTypeOK
        <5>3. buckets[k] # NoBucket /\ time < buckets[k].resetAt + MaxWait
          BY <1>2, <2>1, <3>2 DEF NoBucket, NumBucket
        <5>4. Parts(OneMore(recent[k]), [buckets[k] EXCEPT !.count = @ + 1], time, lastCleanup',
                    older, previous, OneMore(current))
          BY <1>2, <2>2, <4>2, <5>3, CountedInBucket
        <5>. QED
          BY <2>1, <5>2, <5>4
      <4>. QED
        BY <1>5, <4>4, <4>5 DEF Allow
    <3>3. CASE buckets[k].resetAt <= now[c]
      <4>1. b = [count |-> 0, resetAt |-> now[c] + Window]
        BY <1>2, <2>1, <2>4, <3>3, CurrentBucketFacts
      <4>2. LetThrough(c, b)
        <5>1. ~IsFull(b)
          BY <4>1 DEF IsFull
        <5>. QED
          BY <1>5, <5>1 DEF Allow, Refuse
      <4>3. Cleaned(now[c]) \in [Keys -> {NoBucket} \cup Bucket]
        BY <1>2 DEF Cleaned, LimiterTypeOK
      <4>4. [b EXCEPT !.count = @ + 1] = [count |-> 1, resetAt |-> now[c] + Window]
        BY <4>1
      <4>5. /\ buckets' = [Cleaned(now[c]) EXCEPT ![key[c]] = [b EXCEPT !.count = @ + 1]]
            /\ recent' = [recent EXCEPT ![key[c]][0] = @ + 1]
        BY <4>2 DEF LetThrough
      <4>. HIDE DEF b
      <4>6. /\ buckets'[k] = [count |-> 1, resetAt |-> now[c] + Window]
            /\ recent'[k] = OneMore(recent[k])
        BY <1>2, <2>1, <2>4, <4>3, <4>4, <4>5 DEF OneMore, LimiterTypeOK
      <4>7. Parts(recent[k], buckets[k], time, lastCleanup', older, previous, current)
        BY <1>1, <1>2, <2>2, LaterCleanup
      <4>8. CASE buckets[k] = NoBucket
        <5>1. Parts(OneMore(recent[k]), [count |-> 1, resetAt |-> now[c] + Window], time, lastCleanup',
                    older, previous, OneMore(current))
          BY <1>2, <2>1, <2>2, <4>7, <4>8, OpenedBucket
        <5>. QED
          BY <2>1, <4>6, <5>1
      <4>9. CASE buckets[k] # NoBucket
        <5>1. Parts(OneMore(recent[k]), [count |-> 1, resetAt |-> now[c] + Window], time, lastCleanup',
                    previous, current, OneMore(older))
          BY <1>2, <2>1, <2>2, <3>3, <4>7, <4>9, ReplacedBucket
        <5>. QED
          BY <2>1, <4>6, <5>1
      <4>. QED
        BY <4>8, <4>9
    <3>. QED
      BY <1>2, <2>1, <3>2, <3>3 DEF NumBucket
  <2>. QED
    BY <2>3, <2>4
<1>6. CASE \E c \in Calls, k1 \in Keys : ReadClock(c, k1)
  BY <1>3, <1>6 DEF ReadClock
<1>. QED
  BY <1>3, <1>4, <1>5, <1>6 DEF LimiterNext, limiterVars

\* In any stretch of a window's length, at most three times the limit of a key's
\* attempts are let through, whatever the calls' order and the cleanups do
\* (rate_limit.go:58-92).
THEOREM WindowsAreFew == LimiterSpec => []AtMostThreeBuckets
<1>1. LimiterInit => InThreeBuckets
  <2>. SUFFICES ASSUME LimiterInit, NEW k \in Keys
                PROVE  \E older, previous, current :
                         Parts(recent[k], buckets[k], time, lastCleanup, older, previous, current)
    BY DEF InThreeBuckets
  <2>. DEFINE none == [i \in Ages |-> 0]
  <2>1. /\ recent[k] = none /\ buckets[k] = NoBucket /\ none \in [Ages -> Nat]
        /\ \A i \in Ages : none[i] = 0
    BY DEF LimiterInit
  <2>. HIDE DEF none
  <2>2. Sum(none, Ages) = 0
    BY ONLY <2>1, AgesFacts, SumOfZeros
  <2>3. Parts(none, NoBucket, time, lastCleanup, none, none, none)
    BY <2>1, <2>2 DEF Parts, Split, Forgotten, NoBucket
  <2>. QED
    BY <2>1, <2>3
<1>2. Inv /\ InThreeBuckets => AtMostThreeBuckets
  <2>. SUFFICES ASSUME Inv, InThreeBuckets, NEW k \in Keys
                PROVE  FoldFunction(+, 0, recent[k]) <= 3 * Limit
    BY DEF AtMostThreeBuckets
  <2>1. PICK older, previous, current :
          Split(recent[k], buckets[k].count, older, previous, current)
    BY DEF InThreeBuckets, Parts
  <2>2. /\ recent[k] \in [Ages -> Nat] /\ buckets[k].count \in 0 .. Limit
        /\ older \in [Ages -> Nat] /\ previous \in [Ages -> Nat] /\ current \in [Ages -> Nat]
    BY <2>1 DEF Split, Inv, LimiterTypeOK, Bucket
  <2>6. Sum(recent[k], Ages) \in Int /\ Sum(recent[k], Ages) <= 3 * Limit
    BY <2>1, <2>2, SplitBounds
  <2>. DEFINE all == FoldFunction(+, 0, recent[k])
  <2>7. all = Sum(recent[k], Ages)
    <3>1. DOMAIN recent[k] = Ages
      BY <2>2
    <3>. QED
      BY <3>1 DEF Sum, SumFunctionOnSet, FoldFunction
  <2>9. all <= 3 * Limit
    <3>. HIDE DEF all
    <3>. QED
      BY <2>6, <2>7
  <2>. QED
    BY <2>9
<1>. QED
  BY <1>1, <1>2, Invariance, ThreeBucketsStep, PTL DEF LimiterSpec

=============================================================================
