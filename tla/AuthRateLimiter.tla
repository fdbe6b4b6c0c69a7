--------------------------- MODULE AuthRateLimiter ---------------------------
(***************************************************************************)
(* The fixed-window rate limiter of the authentication routes:             *)
(* internal/auth/adapters/http/rate_limit.go.  A call reads the clock      *)
(* before it takes the mutex, so the calls enter the critical section with *)
(* times that are out of order and may be a little behind the clock.       *)
(*                                                                         *)
(* Times are ticks of the clock from 1 on; 0 stands for Go's zero time.    *)
(* A key is the route, the client's address and the subject, joined.  With *)
(* RateLimitConfig.Enabled unset there is no limiter at all.               *)
(***************************************************************************)
EXTENDS Integers, Functions

CONSTANTS
    Keys,       \* route, address and subject of a request
    NoKey,      \* in its place when no request is in Allow
    Calls,      \* goroutines that may be inside Allow
    Limit,      \* attempts allowed in a window
    Window,     \* ticks of a window
    Second,     \* ticks of a second, the unit of Retry-After
    MaxWait,    \* bound: ticks a call waits for the mutex
    MaxTime     \* bound: last tick

ASSUME ConfigIsValid == Limit \in Nat \ {0} /\ Window \in Nat \ {0}
ASSUME TicksAreFine == Second \in Nat \ {0} /\ MaxTime \in Nat \ {0}
ASSUME NoKeyIsNoKey == NoKey \notin Keys
\* A call waits microseconds where a window is a minute: twice the wait, to the
\* tick, fits in the window.  AtMostThreeBuckets needs it, and no more than it.
ASSUME MutexIsShort ==
    MaxWait \in Nat /\ MaxWait < Window /\ 2 * MaxWait <= Window + 1

VARIABLES
    time,           \* time.Now, monotonic
    buckets,        \* buckets[k]; NoBucket is Go's zero value of a missing key
    lastCleanup,
    at,             \* "idle", or "locking": between now() and the mutex
    key,            \* key[c]: the key of the call in progress
    now,            \* now[c]: the time it read, 0 when it is over
    retryAfter,     \* Retry-After of its last answer, 0 if it was let through
    recent          \* recent[k][i]: attempts on k let through i ticks ago

limiterVars == <<time, buckets, lastCleanup, at, key, now, retryAfter, recent>>

-----------------------------------------------------------------------------
Times == 0 .. MaxTime
Ages == 0 .. Window - 1
NoBucket == [count |-> 0, resetAt |-> 0]
Bucket == [count : 0 .. Limit, resetAt : 0 .. MaxTime + Window]

LimiterTypeOK ==
    /\ time \in Times \ {0}
    /\ buckets \in [Keys -> Bucket]
    /\ lastCleanup \in Times
    /\ at \in [Calls -> {"idle", "locking"}]
    /\ key \in [Calls -> Keys \cup {NoKey}]
    /\ \A c \in Calls : at[c] = "locking" <=> key[c] # NoKey
    /\ now \in [Calls -> Times]
    /\ retryAfter \in [Calls -> Nat]
    /\ recent \in [Keys -> [Ages -> Nat]]

LimiterInit ==
    /\ time = 1
    /\ buckets = [k \in Keys |-> NoBucket]
    /\ lastCleanup = 0
    /\ at = [c \in Calls |-> "idle"]
    /\ key = [c \in Calls |-> NoKey]
    /\ now = [c \in Calls |-> 0]
    /\ retryAfter = [c \in Calls |-> 0]
    /\ recent = [k \in Keys |-> [i \in Ages |-> 0]]

-----------------------------------------------------------------------------
(* The critical section, for a call that read the time t                   *)

Expired(bucket, t) == bucket.resetAt <= t

CleanupIsDue(t) == lastCleanup = 0 \/ t - lastCleanup >= Window

\* Slip: the cleanup starts the map anew.
CleanedOfEverything(t) ==
    [k \in Keys |-> IF CleanupIsDue(t) THEN NoBucket ELSE buckets[k]]

\* Slip: a bucket that ends right now is kept.
CleanedBefore(t) ==
    [k \in Keys |->
        IF CleanupIsDue(t) /\ buckets[k].resetAt < t THEN NoBucket ELSE buckets[k]]

\* The buckets after cleanup.
Cleaned(t) ==
    [k \in Keys |->
        IF CleanupIsDue(t) /\ Expired(buckets[k], t) THEN NoBucket ELSE buckets[k]]

\* The bucket the attempt counts in.
CurrentBucket(k, t) ==
    IF Expired(Cleaned(t)[k], t)
      THEN [count |-> 0, resetAt |-> t + Window]
      ELSE Cleaned(t)[k]

\* Slip: one attempt too many.
IsFullOneLate(bucket) == bucket.count > Limit
IsFull(bucket) == bucket.count >= Limit

\* Slip: whole seconds only.
RetryAfterFloor(d) == IF d <= 0 THEN 1 ELSE d \div Second
\* retryAfterSeconds: rounded up, and at least one second.
RetryAfterSeconds(d) ==
    IF d <= 0 THEN 1
    ELSE d \div Second + (IF d % Second # 0 THEN 1 ELSE 0)

-----------------------------------------------------------------------------
(* Actions *)

\* limiter.now() in a request on key k.
ReadClock(c, k) ==
    /\ at[c] = "idle"
    /\ at' = [at EXCEPT ![c] = "locking"]
    /\ key' = [key EXCEPT ![c] = k]
    /\ now' = [now EXCEPT ![c] = time]
    /\ retryAfter' = [retryAfter EXCEPT ![c] = 0]
    /\ UNCHANGED <<time, buckets, lastCleanup, recent>>

\* What the request answers when it got the mutex: refused, or let through.
Refuse(c, bucket) ==
    /\ IsFull(bucket)
    /\ buckets' = [Cleaned(now[c]) EXCEPT ![key[c]] = bucket]
    /\ retryAfter' = [retryAfter EXCEPT ![c] =
                        RetryAfterSeconds(bucket.resetAt - now[c])]
    /\ UNCHANGED recent

\* Slip: the counted bucket is a copy that is not stored.
LetThroughUncounted(c, bucket) ==
    /\ ~IsFull(bucket)
    /\ buckets' = [Cleaned(now[c]) EXCEPT ![key[c]] = bucket]
    /\ recent' = [recent EXCEPT ![key[c]][0] = @ + 1]
    /\ UNCHANGED retryAfter

LetThrough(c, bucket) ==
    /\ ~IsFull(bucket)
    /\ buckets' = [Cleaned(now[c]) EXCEPT ![key[c]] =
                     [bucket EXCEPT !.count = @ + 1]]
    /\ recent' = [recent EXCEPT ![key[c]][0] = @ + 1]
    /\ UNCHANGED retryAfter

Allow(c) ==
    /\ at[c] = "locking"
    /\ lastCleanup' = IF CleanupIsDue(now[c]) THEN now[c] ELSE lastCleanup
    /\ LET bucket == CurrentBucket(key[c], now[c])
       IN Refuse(c, bucket) \/ LetThrough(c, bucket)
    /\ at' = [at EXCEPT ![c] = "idle"]
    /\ key' = [key EXCEPT ![c] = NoKey]
    /\ now' = [now EXCEPT ![c] = 0]
    /\ UNCHANGED time

\* The next tick comes after the calls that have waited long enough.
TimePasses ==
    /\ time < MaxTime
    /\ \A c \in Calls : at[c] = "locking" => time - now[c] < MaxWait
    /\ time' = time + 1
    /\ recent' = [k \in Keys |->
                    [i \in Ages |-> IF i = 0 THEN 0 ELSE recent[k][i - 1]]]
    /\ UNCHANGED <<buckets, lastCleanup, at, key, now, retryAfter>>

LimiterNext ==
    \/ TimePasses
    \/ \E c \in Calls : Allow(c) \/ \E k \in Keys : ReadClock(c, k)

LimiterSpec == LimiterInit /\ [][LimiterNext]_limiterVars

-----------------------------------------------------------------------------
(* Properties *)

\* Until its window is over by the clock, a bucket keeps its end and forgets
\* no attempt, whatever calls with older times, on this key or on another
\* whose call runs the cleanup, do in between (rate_limit.go:58-92).
BucketsLast ==
    [][\A k \in Keys :
         buckets[k].resetAt > time =>
            /\ buckets'[k].resetAt = buckets[k].resetAt
            /\ buckets'[k].count >= buckets[k].count]_limiterVars

\* The map does not grow with the addresses ever seen: what it holds ends
\* after the last cleanup, so the next one may still find it, but no bucket
\* outlives two of them (rate_limit.go:81-92).
OnlyRecentBuckets ==
    \A k \in Keys : buckets[k] # NoBucket => buckets[k].resetAt > lastCleanup

\* The limit as docs/audit/current-state.md:159 gives it, "60 req/min locally,
\* 10 req/min in production": a stretch of Window ticks sees no more attempts
\* let through than that.  The code does not keep it: a bucket starts with the
\* first attempt on its key, so a full bucket just before its end and the next
\* one fall into one stretch (rate_limit.go:59-78).
AtMostLimit == \A k \in Keys : FoldFunction(+, 0, recent[k]) <= Limit

\* What the code keeps instead: the stretch meets two buckets of a key, and a
\* third when a call that read the clock before a bucket ended gets the mutex
\* after it, and each lets at most Limit attempts through.
AtMostThreeBuckets == \A k \in Keys : FoldFunction(+, 0, recent[k]) <= 3 * Limit

\* A client that waits as long as Retry-After says finds its bucket over, and
\* is never told to wait more than the window, the time its call waited and
\* the rounding (rate_limit.go:70-73, 112-124).
RetryAfterIsEnough ==
    [][\A c \in Calls :
         (at[c] = "locking" /\ at'[c] = "idle") =>
            \/ retryAfter'[c] = 0 /\ recent' # recent
            \/ /\ recent' = recent
               /\ retryAfter'[c] >= 1
               /\ Expired(buckets'[key[c]], time + Second * retryAfter'[c])
               /\ Second * retryAfter'[c] < Window + MaxWait + Second]_limiterVars

=============================================================================
