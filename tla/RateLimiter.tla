---------------------------- MODULE RateLimiter ----------------------------
(***************************************************************************)
(* The limiter of login and reset attempts: a counter in Redis for all     *)
(* processes, and a list of attempts in each process where Redis fails.    *)
(*                                                                         *)
(* A process runs a check without giving way to its other requests; the    *)
(* two calls to Redis are separate steps, since other processes call it    *)
(* too.  A client whose first ping failed is kept and asked every time, so *)
(* that it does not matter when Redis comes back.                          *)
(***************************************************************************)
EXTENDS Integers, FiniteSets, FiniteSetsExt

CONSTANTS
    Gate,          \* worker processes
    Key,           \* what is limited: an endpoint, client and address
    Window,        \* the window of each key
    Limit,         \* attempts per window
    LongWindow,    \* the age that a purge never goes below
    PurgeInterval, \* purges are further apart than this
    MaxInstant     \* bound: ticks of the clock

ASSUME LimiterBounds ==
    /\ IsFiniteSet(Gate)
    /\ {Limit, MaxInstant} \subseteq Nat \ {0}
    /\ LongWindow \in Nat /\ PurgeInterval \in Nat
    /\ Window \in [Key -> 1..LongWindow]

VARIABLES
    instant,  \* the wall clock
    bucket,   \* _RATE_LIMIT_BUCKETS of each process: how many attempts of each instant
    swept,    \* _RATE_LIMIT_LAST_PURGE of each process
    counter,  \* the counters in Redis: value and expiry
    check,    \* the process between INCR and EXPIRE, with its key
    grants,   \* observed: how many attempts were let through, and when
    unset     \* observed: keys whose EXPIRE failed

limiterVars == <<instant, bucket, swept, counter, check, grants, unset>>

Instant == 0..MaxInstant

\* An expiry that is not set.
Never == MaxInstant + LongWindow + 1

NoAttempts == [t \in Instant |-> 0]

NoCounter == [n |-> 0, exp |-> Never]

LimiterInit ==
    /\ instant = 0
    /\ bucket = [g \in Gate |-> [k \in Key |-> NoAttempts]]
    /\ swept = [g \in Gate |-> 0]
    /\ counter = [k \in Key |-> NoCounter]
    /\ check = [g \in Gate |-> {}]
    /\ grants = [g \in Gate |-> [k \in Key |-> [by \in {"redis", "local"} |-> NoAttempts]]]
    /\ unset = {}

Granted(g, k, by) == grants' = [grants EXCEPT ![g][k][by][instant] = @ + 1]

Over(n) == n > Limit

Opened(n) == n = 1

\* Above Limit + 2 the value of a counter plays no role.
Incremented(n) == IF n < Limit + 2 THEN n + 1 ELSE n

\* INCR. The first attempt of a window goes on to EXPIRE, one above the limit
\* is answered 429, any other is let through.
Incr(g, k) ==
    LET n == Incremented(counter[k].n) IN
    /\ check[g] = {}
    /\ counter' = [counter EXCEPT ![k].n = n]
    /\ IF Opened(n) THEN check' = [check EXCEPT ![g] = {k}] /\ UNCHANGED grants
       ELSE /\ UNCHANGED check
            /\ IF Over(n) THEN UNCHANGED grants ELSE Granted(g, k, "redis")
    /\ UNCHANGED <<instant, bucket, swept, unset>>

Expire(g, k) ==
    /\ check[g] = {k}
    /\ check' = [check EXCEPT ![g] = {}]
    /\ counter' = [counter EXCEPT ![k].exp = IF @ = Never /\ counter[k].n = 0 THEN @ ELSE instant + Window[k]]
    /\ IF Over(1) THEN UNCHANGED grants ELSE Granted(g, k, "redis")
    /\ UNCHANGED <<instant, bucket, swept, unset>>

-----------------------------------------------------------------------------
(* The fallback.                                                           *)

\* Faulty variant of Cutoff: the window of the key at hand decides for all.
CutoffOfKey(k) == instant - Window[k]

Cutoff(k) == instant - Max({Window[k], LongWindow})

Stale(attempts, k) == \A t \in Instant : attempts[t] > 0 => t < Cutoff(k)

\* The buckets of g after the purge that a check of k may make.
Swept(g, k) ==
    IF instant - swept[g] > PurgeInterval
    THEN [j \in Key |-> IF Stale(bucket[g][j], k) THEN NoAttempts ELSE bucket[g][j]]
    ELSE bucket[g]

Recent(attempts, k) ==
    [t \in Instant |-> IF t > instant - Window[k] THEN attempts[t] ELSE 0]

Attempts(attempts) == MapThenSumSet(LAMBDA t : attempts[t], Instant)

CheckLocally(g, k) ==
    LET kept == Swept(g, k)
        attempts == Recent(kept[k], k)
    IN
    /\ swept' = [swept EXCEPT ![g] = IF instant - @ > PurgeInterval THEN instant ELSE @]
    /\ IF Attempts(attempts) >= Limit
       THEN bucket' = [bucket EXCEPT ![g] = kept] /\ UNCHANGED grants
       ELSE /\ bucket' = [bucket EXCEPT ![g] = [kept EXCEPT ![k] = [attempts EXCEPT ![instant] = @ + 1]]]
            /\ Granted(g, k, "local")

\* No Redis is configured, or INCR fails.
Fallback(g, k) ==
    /\ check[g] = {}
    /\ CheckLocally(g, k)
    /\ UNCHANGED <<instant, counter, check, unset>>

\* EXPIRE fails: the exception leads to the fallback.
ExpireFails(g, k) ==
    /\ check[g] = {k}
    /\ check' = [check EXCEPT ![g] = {}]
    /\ unset' = unset \cup {k}
    /\ CheckLocally(g, k)
    /\ UNCHANGED <<instant, counter>>

\* The process is restarted; buckets and the purge time are lost.
RestartGate(g) ==
    /\ check[g] # {} \/ \E k \in Key : bucket[g][k] # NoAttempts
    /\ bucket' = [bucket EXCEPT ![g] = [k \in Key |-> NoAttempts]]
    /\ swept' = [swept EXCEPT ![g] = instant]
    /\ check' = [check EXCEPT ![g] = {}]
    /\ unset' = unset \cup check[g]
    /\ grants' = [grants EXCEPT ![g] = [k \in Key |-> [grants[g][k] EXCEPT !["local"] = NoAttempts]]]
    /\ UNCHANGED <<instant, counter>>

\* Redis drops the counters that expire.
LimiterTick ==
    /\ instant < MaxInstant
    /\ instant' = instant + 1
    /\ counter' = [k \in Key |-> IF counter[k].exp <= instant' THEN NoCounter ELSE counter[k]]
    /\ UNCHANGED <<bucket, swept, check, grants, unset>>

\* The steps of some processes with some keys.
LimiterStep(gates, keys) ==
    \/ \E g \in gates, k \in keys : Incr(g, k) \/ Expire(g, k) \/ ExpireFails(g, k) \/ Fallback(g, k)
    \/ \E g \in gates : RestartGate(g)
    \/ LimiterTick

LimiterNext == LimiterStep(Gate, Key)

LimiterSpec == LimiterInit /\ [][LimiterNext]_limiterVars

-----------------------------------------------------------------------------
\* The window of k that ends now.
WindowOf(k) == {t \in Instant : instant - Window[k] < t /\ t <= instant}

\* The attempts that g let through in it.
InWindow(g, k, by) == MapThenSumSet(LAMBDA t : grants[g][k][by][t], WindowOf(k))

\* Where Redis does not answer, a process lets at most Limit attempts through
\* in any window, whatever its purges remove for other keys with other windows.
WindowKept ==
    \A g \in Gate, k \in Key : InWindow(g, k, "local") <= Limit

\* With Redis the windows are fixed: any span of that length holds at most the
\* attempts of two of them, over all processes.
SharedBound ==
    \A k \in Key : MapThenSumSet(LAMBDA g : InWindow(g, k, "redis"), Gate) <= 2 * Limit

\* A counter that will not expire, and so locks its key out for good, is one
\* whose EXPIRE failed or is still to come.
LockoutHasCause ==
    \A k \in Key : counter[k].n > 0 /\ counter[k].exp = Never =>
        k \in unset \/ \E g \in Gate : check[g] = {k}

\* Attempts are limited with Redis, without it and while it comes and goes, and
\* nobody is locked out for good but by a failed EXPIRE.
AttemptsLimited == WindowKept /\ SharedBound /\ LockoutHasCause
=============================================================================
