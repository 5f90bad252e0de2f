--------------------------- MODULE RateLimiterProofs ---------------------------
(***************************************************************************)
(* For every set of keys and every capacity, refill and interval: whom the *)
(* limiter of RateLimiter.tla lets through and whom it refuses.            *)
(***************************************************************************)
EXTENDS RateLimiter, TokenBucketProofs

-------------------------------------------------------------------------------
(* Type correctness *)

\* The limiter is one of its parameters, and its buckets are as old as the calls.
LimiterInv ==
  /\ now \in Nat
  /\ grants \in [Key -> Seq(Nat)]
  /\ Limiter(limiter, Capacity, Refill, Interval, Key, now)

LEMMA GivenParameters == Parameters(Capacity, Refill, Interval)
BY LimiterAssumption DEF Parameters

LEMMA LimiterInvInit == LimiterInit => LimiterInv
<1> SUFFICES ASSUME LimiterInit PROVE LimiterInv
  OBVIOUS
<1>1. Limiter(limiter, Capacity, Refill, Interval, Key, now)
  BY FreshIsLimiter DEF LimiterInit
<1>2. now \in Nat /\ grants \in [Key -> Seq(Nat)]
  BY DEF LimiterInit
<1> QED BY <1>1, <1>2 DEF LimiterInv

\* A call leaves a limiter, whatever it answers.
LEMMA CalledIsLimiter ==
  ASSUME LimiterInv, NEW key \in Key
  PROVE  Limiter(AfterAllow(limiter, key, now), Capacity, Refill, Interval, Key, now)
<1>0. Parameters(Capacity, Refill, Interval) /\ now \in Nat
      /\ Limiter(limiter, Capacity, Refill, Interval, Key, now)
  BY GivenParameters DEF LimiterInv
<1> DEFINE m == AfterAllow(limiter, key, now)
<1>1. PICK had \in 0 .. Capacity, since \in Nat :
        Call(limiter, m, key, now, had, since, Capacity, Refill, Interval)
  BY <1>0, CallFacts
<1> HIDE DEF m
<1>2. Limiter(m, Capacity, Refill, Interval, Key, now)
  BY <1>0, <1>1, CallLimiter
<1> QED BY <1>2 DEF m

LEMMA LimiterInvStep == LimiterInv /\ [LimiterNext]_limiterVars => LimiterInv'
<1> SUFFICES ASSUME LimiterInv, [LimiterNext]_limiterVars PROVE LimiterInv'
  OBVIOUS
<1>1. CASE LimiterTick
  <2>1. now' \in Nat /\ now <= now' /\ UNCHANGED <<limiter, grants>>
    BY <1>1 DEF LimiterTick, LimiterInv
  <2>2. Limiter(limiter, Capacity, Refill, Interval, Key, now')
    BY <2>1, LimiterLater DEF LimiterInv
  <2> QED BY <2>1, <2>2 DEF LimiterInv
<1>2. ASSUME NEW key \in Key, Grant(key) PROVE LimiterInv'
  <2>1. grants' \in [Key -> Seq(Nat)] /\ now' = now /\ now' \in Nat
    BY <1>2 DEF Grant, LimiterInv
  <2>2. limiter' = AfterAllow(limiter, key, now)
    BY <1>2 DEF Grant
  <2> QED BY <2>1, <2>2, CalledIsLimiter DEF LimiterInv
<1>3. ASSUME NEW key \in Key, Deny(key) PROVE LimiterInv'
  <2>1. limiter' = AfterAllow(limiter, key, now) /\ UNCHANGED <<now, grants>>
    BY <1>3 DEF Deny
  <2> QED BY <2>1, CalledIsLimiter DEF LimiterInv
<1>4. CASE UNCHANGED limiterVars
  BY <1>4 DEF limiterVars, LimiterInv
<1> QED BY <1>1, <1>2, <1>3, <1>4 DEF LimiterNext

LEMMA LimiterInvAlways == LimiterSpec => []LimiterInv
BY LimiterInvInit, LimiterInvStep, PTL DEF LimiterSpec

\* Whatever keys call and whenever, every bucket holds between nothing and the
\* capacity (prune_idle, refill and allow, src/rate_limit.rs:51-81).
THEOREM LimiterTypeCorrect == LimiterSpec => []LimiterTypeOK
<1>1. LimiterInv => LimiterTypeOK
  <2> SUFFICES ASSUME LimiterInv PROVE LimiterTypeOK
    OBVIOUS
  <2>1. \A k \in DOMAIN limiter.buckets : limiter.buckets[k] \in Bucket
    BY DEF LimiterInv, Limiter, Bucket
  <2>2. /\ limiter = [NewLimiter(Capacity, Refill, Interval) EXCEPT !.buckets = limiter.buckets]
        /\ DOMAIN limiter.buckets \subseteq Key
    BY Zenon DEF LimiterInv, Limiter
  <2> QED BY <2>1, <2>2, Zenon DEF LimiterInv, LimiterTypeOK
<1> QED BY <1>1, LimiterInvAlways, PTL

-------------------------------------------------------------------------------
(* Refusals *)

AllowanceInv == LimiterInv /\ Allowance(limiter, grants, Capacity, Refill)

LEMMA AllowanceInvInit == LimiterInit => AllowanceInv
<1> SUFFICES ASSUME LimiterInit PROVE AllowanceInv
  OBVIOUS
<1>1. DOMAIN limiter.buckets = {}
  BY DEF LimiterInit, NewLimiter, EmptyMap
<1> QED BY <1>1, LimiterInvInit DEF AllowanceInv, Allowance

\* CallAllowance for the limiter of this module.
LEMMA AllowanceOfCall ==
  ASSUME AllowanceInv, NEW key \in Key
  PROVE  LET m == AfterAllow(limiter, key, now) IN
         /\ Allows(limiter, key, now) =>
              Allowance(m, [grants EXCEPT ![key] = Append(@, now)], Capacity, Refill)
         /\ ~Allows(limiter, key, now) =>
              /\ Allowance(m, grants, Capacity, Refill)
              /\ Cardinality(Recent(grants[key], now, Interval)) >= Least(Capacity, Refill)
<1>1. /\ now \in Nat /\ grants \in [Key -> Seq(Nat)]
      /\ Limiter(limiter, Capacity, Refill, Interval, Key, now)
      /\ Allowance(limiter, grants, Capacity, Refill)
  BY DEF AllowanceInv, LimiterInv
<1> QED BY <1>1, GivenParameters, CallAllowance

LEMMA AllowanceInvStep == AllowanceInv /\ [LimiterNext]_limiterVars => AllowanceInv'
<1> SUFFICES ASSUME AllowanceInv, [LimiterNext]_limiterVars PROVE AllowanceInv'
  OBVIOUS
<1>0. LimiterInv'
  BY LimiterInvStep DEF AllowanceInv
<1>1. CASE LimiterTick
  BY <1>0, <1>1 DEF LimiterTick, AllowanceInv, Allowance
<1>2. ASSUME NEW key \in Key, Grant(key) PROVE AllowanceInv'
  <2>1. /\ Allows(limiter, key, now) /\ limiter' = AfterAllow(limiter, key, now)
        /\ grants' = [grants EXCEPT ![key] = Append(@, now)]
    BY <1>2 DEF Grant
  <2>2. Allowance(limiter', grants', Capacity, Refill)
    BY <2>1, AllowanceOfCall
  <2> QED BY <1>0, <2>2 DEF AllowanceInv, Allowance
<1>3. ASSUME NEW key \in Key, Deny(key) PROVE AllowanceInv'
  <2>1. /\ ~Allows(limiter, key, now) /\ limiter' = AfterAllow(limiter, key, now)
        /\ grants' = grants
    BY <1>3 DEF Deny
  <2>2. Allowance(limiter', grants', Capacity, Refill)
    BY <2>1, AllowanceOfCall
  <2> QED BY <1>0, <2>2 DEF AllowanceInv, Allowance
<1>4. CASE UNCHANGED limiterVars
  BY <1>0, <1>4 DEF limiterVars, AllowanceInv, Allowance
<1> QED BY <1>1, <1>2, <1>3, <1>4 DEF LimiterNext

\* Nobody is refused who did not use up an allowance of his own within the last
\* interval, however the calls of all keys interleave and whatever is pruned
\* (refill and allow, src/rate_limit.rs:58-81).
THEOREM RefusalDeserved == LimiterSpec => DeniedOnlyAfterAllowance
<1> DEFINE Deserved(key) ==
      Cardinality({i \in DOMAIN grants[key] : now - grants[key][i] < Interval})
        >= Least(Capacity, Refill)
    Answers == \A key \in Key : Deny(key) => Deserved(key)
<1>1. LimiterSpec => []AllowanceInv
  BY AllowanceInvInit, AllowanceInvStep, PTL DEF LimiterSpec
<1>2. AllowanceInv => Answers
  <2> SUFFICES ASSUME AllowanceInv, NEW key \in Key, Deny(key) PROVE Deserved(key)
    OBVIOUS
  <2>1. ~Allows(limiter, key, now)
    BY DEF Deny
  <2>2. Cardinality(Recent(grants[key], now, Interval)) >= Least(Capacity, Refill)
    BY <2>1, AllowanceOfCall
  <2> QED BY <2>2 DEF Recent
<1>3. DeniedOnlyAfterAllowance <=> [][Answers]_limiterVars
  BY DEF DeniedOnlyAfterAllowance
<1> HIDE DEF Answers
<1> QED BY <1>1, <1>2, <1>3, PTL

-------------------------------------------------------------------------------
(* The rate *)

\* Two consecutive grants of a sequence are within the budget of their span.
Budgeted(q) ==
  \A i, j \in DOMAIN q : i <= j => j - i + 1 <= Capacity + Paid(Refill, Interval, q[i], q[j])

SpansInv ==
  /\ LimiterInv
  /\ Spans(limiter, grants, Key, Capacity, Refill, Interval, now)
  /\ \A key \in Key : Budgeted(grants[key])

LEMMA SpansInvInit == LimiterInit => SpansInv
<1> SUFFICES ASSUME LimiterInit PROVE SpansInv
  OBVIOUS
<1>1. \A key \in Key : DOMAIN grants[key] = {}
  BY DEF LimiterInit
<1> QED BY <1>1, LimiterInvInit DEF SpansInv, Spans, Budgeted

\* A grant at the end of a sequence that every span to it has a budget for.
LEMMA BudgetedAppend ==
  ASSUME NEW q \in Seq(Nat), Budgeted(q), NEW t \in Nat, NEW h, h = Append(q, t),
         \A i \in DOMAIN h : Len(h) - i + 1 <= Capacity + Paid(Refill, Interval, h[i], t)
  PROVE  Budgeted(h)
<1>1. /\ DOMAIN h = DOMAIN q \cup {Len(h)} /\ Len(h) = Len(q) + 1 /\ h[Len(h)] = t
      /\ \A i \in DOMAIN q : h[i] = q[i] /\ i \in Int /\ i <= Len(q)
      /\ Len(q) \in Nat
  OBVIOUS
<1> SUFFICES ASSUME NEW i \in DOMAIN h, NEW j \in DOMAIN h, i <= j
             PROVE  j - i + 1 <= Capacity + Paid(Refill, Interval, h[i], h[j])
  BY DEF Budgeted
<1>2. CASE j = Len(h)
  BY <1>1, <1>2
<1>3. CASE j \in DOMAIN q
  <2>1. i \in DOMAIN q
    BY <1>1, <1>3
  <2>2. j - i + 1 <= Capacity + Paid(Refill, Interval, q[i], q[j])
    BY <1>3, <2>1 DEF Budgeted
  <2> QED BY <1>1, <1>3, <2>1, <2>2
<1> QED BY <1>1, <1>2, <1>3

LEMMA SpansInvStep ==
  Capacity <= 2 * Refill /\ SpansInv /\ [LimiterNext]_limiterVars => SpansInv'
<1> SUFFICES ASSUME Capacity <= 2 * Refill, SpansInv, [LimiterNext]_limiterVars
             PROVE  SpansInv'
  OBVIOUS
<1>0. LimiterInv'
  BY LimiterInvStep DEF SpansInv
<1>t. /\ now \in Nat /\ grants \in [Key -> Seq(Nat)]
      /\ Limiter(limiter, Capacity, Refill, Interval, Key, now)
      /\ Spans(limiter, grants, Key, Capacity, Refill, Interval, now)
      /\ \A key \in Key : Budgeted(grants[key])
      /\ Parameters(Capacity, Refill, Interval)
  BY GivenParameters DEF SpansInv, LimiterInv
<1>1. CASE LimiterTick
  <2>1. now' \in Nat /\ now <= now' /\ UNCHANGED <<limiter, grants>>
    BY <1>t, <1>1 DEF LimiterTick
  <2>2. Spans(limiter, grants, Key, Capacity, Refill, Interval, now')
    BY <1>t, <2>1, SpansLater
  <2> QED BY <1>0, <1>t, <2>1, <2>2 DEF SpansInv, Budgeted
<1>2. ASSUME NEW key \in Key, Grant(key) PROVE SpansInv'
  <2> DEFINE h == [grants EXCEPT ![key] = Append(@, now)]
  <2>1. Allows(limiter, key, now) /\ limiter' = AfterAllow(limiter, key, now)
        /\ grants' = h /\ now' = now
    BY <1>2 DEF Grant
  <2>2. /\ Spans(AfterAllow(limiter, key, now), h, Key, Capacity, Refill, Interval, now)
        /\ \A i \in DOMAIN h[key] :
             Len(h[key]) - i + 1 <= Capacity + Paid(Refill, Interval, h[key][i], now)
    BY <1>t, <2>1, CallSpans
  <2>3. h[key] = Append(grants[key], now) /\ grants[key] \in Seq(Nat)
        /\ \A k \in Key \ {key} : h[k] = grants[k]
    BY <1>t
  <2> HIDE DEF h
  <2>4. Budgeted(h[key])
    BY <1>t, <2>2, <2>3, BudgetedAppend
  <2>5. \A k \in Key : Budgeted(h[k])
    BY <1>t, <2>3, <2>4
  <2> QED BY <1>0, <2>1, <2>2, <2>5 DEF SpansInv, Budgeted
<1>3. ASSUME NEW key \in Key, Deny(key) PROVE SpansInv'
  <2>1. /\ ~Allows(limiter, key, now) /\ limiter' = AfterAllow(limiter, key, now)
        /\ UNCHANGED <<now, grants>>
    BY <1>3 DEF Deny
  <2>2. Spans(AfterAllow(limiter, key, now), grants, Key, Capacity, Refill, Interval, now)
    BY <1>t, <2>1, CallSpans
  <2> QED BY <1>0, <1>t, <2>1, <2>2 DEF SpansInv, Budgeted
<1>4. CASE UNCHANGED limiterVars
  BY <1>0, <1>t, <1>4 DEF limiterVars, SpansInv, Budgeted, Spans, SpanOf
<1> QED BY <1>1, <1>2, <1>3, <1>4 DEF LimiterNext

\* However a key spreads its calls, and however often its bucket is pruned and
\* filled again, it is let through within the capacity and a refill for every
\* interval (prune_idle and allow, src/rate_limit.rs:51-81).
THEOREM GrantsWithinBudget == LimiterSpec => []GrantsBounded
<1>1. CASE Capacity <= 2 * Refill
  <2>1. LimiterSpec => []SpansInv
    BY <1>1, SpansInvInit, SpansInvStep, PTL DEF LimiterSpec
  <2>2. SpansInv => GrantsBounded
    BY DEF SpansInv, Budgeted, Paid, GrantsBounded
  <2> QED BY <2>1, <2>2, PTL
<1>2. CASE ~(Capacity <= 2 * Refill)
  <2>1. GrantsBounded
    BY <1>2 DEF GrantsBounded
  <2> QED BY <2>1, PTL
<1> QED BY <1>1, <1>2
================================================================================
