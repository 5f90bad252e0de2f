----------------------------- MODULE RateLimiter ------------------------------
(***************************************************************************)
(* One token bucket limiter and the calls made to it, src/rate_limit.rs:   *)
(* any key may call at any instant, any number of times.  `grants` records *)
(* when each key was let through; nothing of the limiter reads it.         *)
(***************************************************************************)
EXTENDS TokenBucket, Sequences

CONSTANTS
  Key,        \* what is limited: source addresses, or the one telemetry key
  Capacity,   \* tokens of a full bucket
  Refill,     \* tokens restored per interval
  Interval,   \* the length of an interval, 60 seconds in the daemon
  MaxTime     \* bound on the clock

ASSUME LimiterAssumption ==
  /\ Capacity \in 1 .. U32Max /\ Refill \in 1 .. U32Max
  /\ Interval \in Nat \ {0}
  /\ MaxTime \in Nat

VARIABLES limiter, now, call, grants

limiterVars == <<limiter, now, call, grants>>

Bucket == [tokens : 0 .. Capacity, last_refill : Nat, last_seen : Nat]

\* A bucket never holds more than the capacity, nor less than nothing.
LimiterTypeOK ==
  /\ limiter = [NewLimiter(Capacity, Refill, Interval) EXCEPT !.buckets = limiter.buckets]
  /\ DOMAIN limiter.buckets \subseteq Key
  /\ \A k \in DOMAIN limiter.buckets : limiter.buckets[k] \in Bucket
  /\ now \in Nat
  /\ grants \in [Key -> Seq(Nat)]

LimiterInit ==
  /\ limiter = NewLimiter(Capacity, Refill, Interval)
  /\ now = 0
  /\ call = "none"
  /\ grants = [k \in Key |-> <<>>]

LimiterTick == now < MaxTime /\ now' = now + 1 /\ UNCHANGED <<limiter, call, grants>>

Grant(key) ==
  /\ Allows(limiter, key, now)
  /\ limiter' = AfterAllow(limiter, key, now)
  /\ call' = "granted"
  /\ grants' = [grants EXCEPT ![key] = Append(@, now)]
  /\ UNCHANGED now

Deny(key) ==
  /\ ~Allows(limiter, key, now)
  /\ limiter' = AfterAllow(limiter, key, now)
  /\ call' = "denied"
  /\ UNCHANGED <<now, grants>>

LimiterNext == LimiterTick \/ \E key \in Key : Grant(key) \/ Deny(key)

LimiterSpec == LimiterInit /\ [][LimiterNext]_limiterVars

-------------------------------------------------------------------------------
(* Properties *)

\* However a key spreads its calls, and however often its bucket is pruned, it
\* is let through at most Capacity times plus Refill for every interval that
\* the calls span or touch.  This is what the rate limit is for.  Pruning gives
\* an idle bucket all its tokens back after two intervals, so the bound needs a
\* full bucket to be no more than two refills, which it is for the default 20
\* and 10 (prune_idle and the or_insert of allow, src/rate_limit.rs:51-64).
GrantsBounded ==
  Capacity <= 2 * Refill =>
    \A key \in Key : \A i, j \in DOMAIN grants[key] :
      i <= j => j - i + 1 <=
        Capacity + Refill * (((grants[key][j] - grants[key][i]) \div Interval) + 1)

\* A key is refused only if it used up an allowance of its own within the last
\* interval: what others send, an early retry or an old refusal never costs it
\* anything (src/rate_limit.rs:58-81).
DeniedOnlyAfterAllowance ==
  [][\A key \in Key : Deny(key) =>
       Cardinality({i \in DOMAIN grants[key] : now - grants[key][i] < Interval})
         >= Least(Capacity, Refill)]_limiterVars
===============================================================================
