----------------------------- MODULE TokenBucket ------------------------------
(***************************************************************************)
(* The token bucket limiter of src/rate_limit.rs as operators on its value *)
(* (a record of capacity, refill, interval and the map of buckets), so     *)
(* that one module can hold several limiters.  Durations are in whole      *)
(* seconds, as `as_secs` takes them.                                       *)
(***************************************************************************)
EXTENDS HashMap

CONSTANT U32Max   \* the largest u32: counts saturate there

ASSUME U32Assumption == U32Max \in Nat

Least(a, b) == IF a <= b THEN a ELSE b

\* saturating_add and saturating_mul on u32.
Saturated(n) == Least(n, U32Max)

NewLimiter(capacity, refill, interval) ==
  [capacity |-> capacity, refill |-> refill, interval |-> interval,
   buckets |-> EmptyMap]

IdleTtl(l) == 2 * l.interval

\* The buckets that prune_idle keeps.
PruneIdle(l, t) ==
  Restrict(l.buckets,
    {k \in DOMAIN l.buckets : t - l.buckets[k].last_seen < IdleTtl(l)})

\* The bucket that allow works on: the key's, or a full one.
Entry(l, key, t) ==
  IF key \in DOMAIN PruneIdle(l, t)
  THEN [PruneIdle(l, t)[key] EXCEPT !.last_seen = t]
  ELSE [tokens |-> l.capacity, last_refill |-> t, last_seen |-> t]

\* Mutant: allowance is restored on top of a full bucket.
Mut_Refilled(l, b, t) ==
  LET elapsed == t - b.last_refill
      add == Saturated(l.refill * Saturated(elapsed \div l.interval))
  IN  IF elapsed >= l.interval
      THEN [b EXCEPT !.tokens = Saturated(b.tokens + add), !.last_refill = t]
      ELSE b

\* Mutant: a refill does not move last_refill.
Mut_StaleRefilled(l, b, t) ==
  LET elapsed == t - b.last_refill
      add == Saturated(l.refill * Saturated(elapsed \div l.interval))
  IN  IF elapsed >= l.interval
      THEN [b EXCEPT !.tokens = Least(l.capacity, Saturated(b.tokens + add))]
      ELSE b

\* Mutant: the clock of the refill restarts with every call.
Mut_StarvedRefilled(l, b, t) ==
  LET elapsed == t - b.last_refill
      add == Saturated(l.refill * Saturated(elapsed \div l.interval))
  IN  IF elapsed >= l.interval
      THEN [b EXCEPT !.tokens = Least(l.capacity, Saturated(b.tokens + add)), !.last_refill = t]
      ELSE [b EXCEPT !.last_refill = t]

\* Whole intervals since the last refill are paid out; the rest of the last
\* one is lost, because last_refill moves to t and not to its boundary.
Refilled(l, b, t) ==
  LET elapsed == t - b.last_refill
      add == Saturated(l.refill * Saturated(elapsed \div l.interval))
  IN  IF elapsed >= l.interval
      THEN [b EXCEPT !.tokens = Least(l.capacity, Saturated(b.tokens + add)),
                     !.last_refill = t]
      ELSE b

\* What allow answers for the key at t, and the limiter it leaves.
Allows(l, key, t) == Refilled(l, Entry(l, key, t), t).tokens > 0

AfterAllow(l, key, t) ==
  LET b == Refilled(l, Entry(l, key, t), t)
      spent == IF b.tokens = 0 THEN b ELSE [b EXCEPT !.tokens = @ - 1]
  IN  [l EXCEPT !.buckets = Insert(PruneIdle(l, t), key, spent)]
===============================================================================
