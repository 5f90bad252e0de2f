--------------------------- MODULE TokenBucketProofs ---------------------------
(***************************************************************************)
(* What one call of allow does to a limiter, and what a sequence of calls  *)
(* adds up to, as facts about the value of a limiter.  Whoever holds a     *)
(* limiter cites them.                                                     *)
(***************************************************************************)
EXTENDS TokenBucket, Sequences, FiniteSetTheorems, TLAPS

-------------------------------------------------------------------------------
(* Arithmetic of whole intervals *)

LEMMA DivRange ==
  ASSUME NEW a \in Int, NEW n \in Nat \ {0}
  PROVE  /\ a \div n \in Int
         /\ n * (a \div n) <= a
         /\ a < n * (a \div n) + n
OBVIOUS

LEMMA DivMono ==
  ASSUME NEW a \in Int, NEW b \in Int, NEW n \in Nat \ {0}, a <= b
  PROVE  a \div n <= b \div n
BY DivRange

\* Two spans hold no more whole intervals than the span of both together.
LEMMA DivAdd ==
  ASSUME NEW a \in Int, NEW b \in Int, NEW n \in Nat \ {0}
  PROVE  (a \div n) + (b \div n) <= (a + b) \div n
BY DivRange

LEMMA DivShift ==
  ASSUME NEW a \in Int, NEW n \in Nat \ {0}
  PROVE  (a + n) \div n = (a \div n) + 1
BY DivRange

LEMMA TimesMono ==
  ASSUME NEW a \in Int, NEW b \in Int, NEW n \in Nat, a <= b
  PROVE  n * a <= n * b
OBVIOUS

-------------------------------------------------------------------------------
(* One call *)

\* The limiter of these parameters, at an instant t: no bucket was touched later,
\* and the last call for a key paid out every whole interval before it.
Limiter(l, capacity, refill, interval, keys, t) ==
  /\ l = [NewLimiter(capacity, refill, interval) EXCEPT !.buckets = l.buckets]
  /\ DOMAIN l.buckets \subseteq keys
  /\ \A k \in DOMAIN l.buckets :
       LET b == l.buckets[k] IN
         /\ b \in [tokens : 0 .. capacity, last_refill : Nat, last_seen : Nat]
         /\ b.last_refill <= b.last_seen /\ b.last_seen <= t
         /\ b.last_seen - b.last_refill < interval

\* The parameters of a limiter: positive u32s and a positive interval.
Parameters(capacity, refill, interval) ==
  capacity \in 1 .. U32Max /\ refill \in 1 .. U32Max /\ interval \in Nat \ {0}

LEMMA FreshIsLimiter ==
  ASSUME NEW C, NEW R, NEW I, NEW K, NEW t
  PROVE  Limiter(NewLimiter(C, R, I), C, R, I, K, t)
<1> DEFINE l == NewLimiter(C, R, I)
<1>1. l.buckets = EmptyMap /\ l = [l EXCEPT !.buckets = l.buckets]
  BY DEF NewLimiter
<1>2. DOMAIN l.buckets = {}
  BY <1>1 DEF EmptyMap
<1> HIDE DEF l
<1> QED BY <1>1, <1>2 DEF Limiter, l

LEMMA LimiterFields ==
  ASSUME NEW l, NEW C, NEW R, NEW I, NEW K, NEW t, Limiter(l, C, R, I, K, t)
  PROVE  /\ l.capacity = C /\ l.refill = R /\ l.interval = I
         /\ l = [capacity |-> C, refill |-> R, interval |-> I, buckets |-> l.buckets]
BY DEF Limiter, NewLimiter

\* The bucket that a call works on: the key's, if it was not pruned, with what
\* whole intervals restore, or a full one.
Pruned(l, key, interval, t) ==
  key \in DOMAIN l.buckets => t - l.buckets[key].last_seen >= 2 * interval

\* A call for a key at t that finds `had` tokens in its bucket, refilled last at
\* `since`, and leaves the limiter m.
Call(l, m, key, t, had, since, capacity, refill, interval) ==
  /\ Pruned(l, key, interval, t) => had = capacity /\ since = t
  /\ ~Pruned(l, key, interval, t) =>
       LET b == l.buckets[key] IN
         /\ t - b.last_refill >= interval =>
              /\ since = t
              /\ had <= b.tokens + refill * ((t - b.last_refill) \div interval)
              /\ had >= Least(capacity, refill)
         /\ t - b.last_refill < interval => since = b.last_refill /\ had = b.tokens
  /\ since <= t /\ t - since < interval
  /\ m = [NewLimiter(capacity, refill, interval) EXCEPT !.buckets = m.buckets]
  /\ DOMAIN m.buckets = DOMAIN PruneIdle(l, t) \cup {key}
  /\ m.buckets[key] = [tokens |-> IF had = 0 THEN 0 ELSE had - 1,
                       last_refill |-> since, last_seen |-> t]
  /\ \A k \in DOMAIN PruneIdle(l, t) \ {key} : m.buckets[k] = l.buckets[k]

LEMMA CallFacts ==
  ASSUME NEW C, NEW R, NEW I, Parameters(C, R, I), NEW K, NEW key \in K, NEW t \in Nat,
         NEW l, Limiter(l, C, R, I, K, t)
  PROVE  \E had \in 0 .. C, since \in Nat :
           /\ Allows(l, key, t) <=> had > 0
           /\ Call(l, AfterAllow(l, key, t), key, t, had, since, C, R, I)
<1> DEFINE e == Entry(l, key, t)
           b == Refilled(l, e, t)
           m == AfterAllow(l, key, t)
           Full == [tokens |-> C, last_refill |-> t, last_seen |-> t]
<1>0. C \in Nat \ {0} /\ R \in Nat \ {0} /\ I \in Nat \ {0} /\ C <= U32Max /\ R <= U32Max
      /\ U32Max \in Nat
  BY U32Assumption DEF Parameters
<1>1. /\ l.capacity = C /\ l.refill = R /\ l.interval = I
      /\ l = [capacity |-> C, refill |-> R, interval |-> I, buckets |-> l.buckets]
  BY LimiterFields
<1>p. /\ DOMAIN PruneIdle(l, t) =
           {k \in DOMAIN l.buckets : t - l.buckets[k].last_seen < 2 * I}
      /\ \A k \in DOMAIN PruneIdle(l, t) : PruneIdle(l, t)[k] = l.buckets[k]
  BY <1>1 DEF PruneIdle, IdleTtl, Restrict
<1>t. \A k \in DOMAIN l.buckets :
         /\ l.buckets[k] \in [tokens : 0 .. C, last_refill : Nat, last_seen : Nat]
         /\ l.buckets[k].last_refill <= l.buckets[k].last_seen
         /\ l.buckets[k].last_seen <= t
         /\ l.buckets[k].last_seen - l.buckets[k].last_refill < I
  BY DEF Limiter
<1>2. Pruned(l, key, I, t) <=> key \notin DOMAIN PruneIdle(l, t)
  BY <1>p, <1>t, <1>0 DEF Pruned
\* What the refill leaves, and the rest of the call.
<1>m. ASSUME NEW had \in 0 .. C, NEW since \in Nat,
             b = [tokens |-> had, last_refill |-> since, last_seen |-> t]
      PROVE  /\ Allows(l, key, t) <=> had > 0
             /\ m = [NewLimiter(C, R, I) EXCEPT !.buckets = m.buckets]
             /\ DOMAIN m.buckets = DOMAIN PruneIdle(l, t) \cup {key}
             /\ m.buckets[key] = [tokens |-> IF had = 0 THEN 0 ELSE had - 1,
                                  last_refill |-> since, last_seen |-> t]
             /\ \A k \in DOMAIN PruneIdle(l, t) \ {key} : m.buckets[k] = l.buckets[k]
  <2> DEFINE spent == IF b.tokens = 0 THEN b ELSE [b EXCEPT !.tokens = @ - 1]
             rest == PruneIdle(l, t)
  <2>1. spent = [tokens |-> IF had = 0 THEN 0 ELSE had - 1, last_refill |-> since, last_seen |-> t]
    BY <1>m
  <2>2. Allows(l, key, t) <=> had > 0
    BY <1>m DEF Allows
  <2>3. m = [l EXCEPT !.buckets = Insert(rest, key, spent)]
    BY DEF AfterAllow
  <2> HIDE DEF spent, rest, m, b, e
  <2>4. m.buckets = Insert(rest, key, spent)
    BY <1>1, <2>3
  <2>5. m = [capacity |-> C, refill |-> R, interval |-> I, buckets |-> m.buckets]
    BY <1>1, <2>3
  <2>6. m = [NewLimiter(C, R, I) EXCEPT !.buckets = m.buckets]
    BY <2>5 DEF NewLimiter
  <2>7. /\ DOMAIN m.buckets = DOMAIN rest \cup {key}
        /\ m.buckets[key] = spent
        /\ \A k \in DOMAIN rest \ {key} : m.buckets[k] = rest[k]
    BY <2>4 DEF Insert
  <2>8. \A k \in DOMAIN rest \ {key} : m.buckets[k] = l.buckets[k]
    BY <1>p, <2>7 DEF rest
  <2> QED BY <2>1, <2>2, <2>6, <2>7, <2>8 DEF rest
<1>3. CASE Pruned(l, key, I, t)
  <2>1. e = Full
    BY <1>1, <1>2, <1>3 DEF Entry
  <2>2. b = Full
    BY <1>0, <1>1, <2>1 DEF Refilled
  <2>3. C \in 0 .. C /\ t \in Nat /\ b = [tokens |-> C, last_refill |-> t, last_seen |-> t]
    BY <1>0, <2>2
  <2>4. t <= t /\ t - t < I
    BY <1>0
  <2> HIDE DEF b, m, e
  <2>5. (Allows(l, key, t) <=> C > 0) /\ Call(l, m, key, t, C, t, C, R, I)
    BY <1>m, <1>3, <2>3, <2>4 DEF Call
  <2> QED BY <2>3, <2>5 DEF m
<1>4. CASE ~Pruned(l, key, I, t)
  <2> DEFINE old == l.buckets[key]
             gap == t - old.last_refill
             whole == gap \div I
             add == Saturated(R * Saturated(whole))
             had == IF gap >= I THEN Least(C, Saturated(old.tokens + add)) ELSE old.tokens
             since == IF gap >= I THEN t ELSE old.last_refill
  <2>1. /\ old \in [tokens : 0 .. C, last_refill : Nat, last_seen : Nat]
        /\ old.last_refill <= old.last_seen /\ old.last_seen <= t
        /\ PruneIdle(l, t)[key] = old
    BY <1>2, <1>4, <1>p, <1>t
  <2>2. e = [tokens |-> old.tokens, last_refill |-> old.last_refill, last_seen |-> t]
    BY <1>2, <1>4, <2>1 DEF Entry
  <2>3. b = [tokens |-> had, last_refill |-> since, last_seen |-> t]
    <3>1. /\ e.tokens = old.tokens /\ e.last_refill = old.last_refill
          /\ t - e.last_refill = gap
          /\ l.refill * Saturated((t - e.last_refill) \div l.interval) = R * Saturated(whole)
      BY <1>1, <2>2
    <3> HIDE DEF e, gap, whole, old
    <3>2. CASE gap >= I
      <4>1. b = [e EXCEPT !.tokens = Least(C, Saturated(old.tokens + add)), !.last_refill = t]
        BY <1>1, <3>1, <3>2 DEF Refilled
      <4> QED BY <2>2, <3>2, <4>1
    <3>3. CASE ~(gap >= I)
      <4>1. b = e
        BY <1>1, <3>1, <3>3 DEF Refilled
      <4> QED BY <2>2, <3>3, <4>1
    <3> QED BY <3>2, <3>3
  <2>4. old.tokens \in 0 .. C /\ gap \in Nat /\ old.last_refill \in Nat
    BY <2>1
  <2>5. whole \in Nat /\ (gap >= I => whole >= 1)
    <3> HIDE DEF gap
    <3>1. whole \in Int /\ I * whole <= gap /\ gap < I * whole + I
      BY <1>0, <2>4, DivRange
    <3> HIDE DEF whole
    <3> QED BY <1>0, <2>4, <3>1
  <2> HIDE DEF whole, gap, old, b, m, e
  <2>6. add \in Nat /\ add <= R * whole /\ (gap >= I => add >= R)
    <3>1. Saturated(whole) \in Nat /\ Saturated(whole) <= whole /\ (gap >= I => Saturated(whole) >= 1)
      BY <1>0, <2>5 DEF Saturated, Least
    <3>2. R * Saturated(whole) \in Nat /\ R * Saturated(whole) <= R * whole
          /\ (gap >= I => R * Saturated(whole) >= R)
      BY <1>0, <2>5, <3>1
    <3>3. R * whole \in Nat
      BY <1>0, <2>5
    <3> QED BY <1>0, <3>2, <3>3 DEF Saturated, Least
  <2> HIDE DEF add
  <2>7. had \in 0 .. C
    BY <1>0, <2>4, <2>6 DEF Saturated, Least
  <2>8. since \in Nat /\ since <= t /\ t - since < I
    BY <1>0, <2>1, <2>4 DEF gap
  <2>9. gap >= I => had <= old.tokens + R * whole /\ had >= Least(C, R) /\ since = t
    <3>1. R * whole \in Nat
      BY <1>0, <2>5
    <3> QED BY <1>0, <2>4, <2>6, <3>1 DEF Saturated, Least
  <2>10. ~(gap >= I) => had = old.tokens /\ since = old.last_refill
    OBVIOUS
  <2> HIDE DEF had, since
  <2>11. gap < I => ~(gap >= I)
    BY <1>0, <2>4
  <2>12. /\ Allows(l, key, t) <=> had > 0
         /\ m = [NewLimiter(C, R, I) EXCEPT !.buckets = m.buckets]
         /\ DOMAIN m.buckets = DOMAIN PruneIdle(l, t) \cup {key}
         /\ m.buckets[key] = [tokens |-> IF had = 0 THEN 0 ELSE had - 1,
                              last_refill |-> since, last_seen |-> t]
         /\ \A k \in DOMAIN PruneIdle(l, t) \ {key} : m.buckets[k] = l.buckets[k]
    BY <1>m, <2>3, <2>7, <2>8
  <2>13. Call(l, m, key, t, had, since, C, R, I)
    BY <1>4, <2>8, <2>9, <2>10, <2>11, <2>12, Zenon DEF Call, gap, whole, old
  <2> QED BY <2>7, <2>8, <2>12, <2>13, Zenon DEF m
<1> QED BY <1>3, <1>4

-------------------------------------------------------------------------------
(* What calls add up to; g records when each key was let through *)

\* What is left in a bucket and what was taken since its last refill are together
\* an allowance.
Allowance(l, g, capacity, refill) ==
  \A k \in DOMAIN l.buckets :
    l.buckets[k].tokens
      + Cardinality({i \in DOMAIN g[k] : g[k][i] >= l.buckets[k].last_refill})
      >= Least(capacity, refill)

\* The tokens of a refill for every interval that a span from s to v touches.
Paid(refill, interval, s, v) == refill * (((v - s) \div interval) + 1)

\* The grants since the i-th and what is left are within the capacity and a refill
\* for every interval up to the last refill; of a pruned bucket, up to now.
SpanOf(l, g, k, i, capacity, refill, interval, t) ==
  /\ g[k][i] <= t
  /\ k \in DOMAIN l.buckets =>
       LET b == l.buckets[k]
       IN  /\ g[k][i] <= b.last_seen
           /\ Len(g[k]) - i + 1 + b.tokens
                <= capacity + Paid(refill, interval, g[k][i], b.last_refill)
  /\ k \notin DOMAIN l.buckets =>
       Len(g[k]) - i + 1 <= Paid(refill, interval, g[k][i], t)

Spans(l, g, keys, capacity, refill, interval, t) ==
  \A k \in keys : \A i \in DOMAIN g[k] : SpanOf(l, g, k, i, capacity, refill, interval, t)

\* The instant only matters as a bound.
LEMMA LimiterLater ==
  ASSUME NEW C, NEW R, NEW I, NEW K, NEW l, NEW t \in Nat, NEW u \in Nat, t <= u,
         Limiter(l, C, R, I, K, t)
  PROVE  Limiter(l, C, R, I, K, u)
BY DEF Limiter

\* A call leaves a limiter.
LEMMA CallLimiter ==
  ASSUME NEW C, NEW R, NEW I, Parameters(C, R, I), NEW K, NEW key \in K, NEW t \in Nat,
         NEW l, Limiter(l, C, R, I, K, t), NEW m, NEW had \in 0 .. C, NEW since \in Nat,
         Call(l, m, key, t, had, since, C, R, I)
  PROVE  Limiter(m, C, R, I, K, t)
<1> DEFINE Good(b) == /\ b \in [tokens : 0 .. C, last_refill : Nat, last_seen : Nat]
                      /\ b.last_refill <= b.last_seen /\ b.last_seen <= t
                      /\ b.last_seen - b.last_refill < I
<1>0. C \in Nat
  BY DEF Parameters
<1>1. DOMAIN PruneIdle(l, t) \subseteq DOMAIN l.buckets
  BY DEF PruneIdle, Restrict
<1>2. \A k \in DOMAIN l.buckets : Good(l.buckets[k])
  BY DEF Limiter
<1>3. /\ m = [NewLimiter(C, R, I) EXCEPT !.buckets = m.buckets]
      /\ DOMAIN m.buckets = DOMAIN PruneIdle(l, t) \cup {key}
      /\ m.buckets[key] = [tokens |-> IF had = 0 THEN 0 ELSE had - 1,
                           last_refill |-> since, last_seen |-> t]
      /\ \A k \in DOMAIN PruneIdle(l, t) \ {key} : m.buckets[k] = l.buckets[k]
      /\ since <= t /\ t - since < I
  BY Zenon DEF Call
<1>4. Good(m.buckets[key])
  BY <1>0, <1>3
<1> HIDE DEF Good
<1>5. \A k \in DOMAIN m.buckets : Good(m.buckets[k])
  BY <1>1, <1>2, <1>3, <1>4
<1>6. DOMAIN m.buckets \subseteq K
  BY <1>1, <1>3 DEF Limiter
<1> QED BY <1>3, <1>5, <1>6, Zenon DEF Limiter, Good

-------------------------------------------------------------------------------
(* Refusals *)

\* Sets of indices of a sequence are finite, and appending adds at most one.
LEMMA IndexSets ==
  ASSUME NEW q \in Seq(Nat), NEW v \in Nat
  PROVE  LET In(x) == {i \in DOMAIN x : x[i] >= v} IN
         /\ IsFiniteSet(In(q)) /\ Cardinality(In(q)) \in Nat
         /\ \A t \in Nat : t >= v =>
              Cardinality(In(Append(q, t))) = Cardinality(In(q)) + 1
<1> DEFINE In(x) == {i \in DOMAIN x : x[i] >= v}
<1>1. IsFiniteSet(1 .. Len(q))
  BY FS_Interval
<1>2. IsFiniteSet(In(q))
  BY <1>1, FS_Subset
<1>3. Cardinality(In(q)) \in Nat
  BY <1>2, FS_CardinalityType
<1>4. ASSUME NEW t \in Nat, t >= v
      PROVE  Cardinality(In(Append(q, t))) = Cardinality(In(q)) + 1
  <2>1. In(Append(q, t)) = In(q) \cup {Len(q) + 1} /\ Len(q) + 1 \notin In(q)
    BY <1>4
  <2> QED BY <1>2, <2>1, FS_AddElement
<1> QED BY <1>2, <1>3, <1>4

\* The grants of a sequence within the last interval.
Recent(q, t, interval) == {i \in DOMAIN q : t - q[i] < interval}

\* A call keeps the allowances, and one that is refused comes after an allowance
\* within the last interval.
LEMMA CallAllowance ==
  ASSUME NEW C, NEW R, NEW I, Parameters(C, R, I), NEW K, NEW key \in K, NEW t \in Nat,
         NEW l, Limiter(l, C, R, I, K, t), NEW g \in [K -> Seq(Nat)],
         Allowance(l, g, C, R)
  PROVE  LET m == AfterAllow(l, key, t) IN
         /\ Allows(l, key, t) => Allowance(m, [g EXCEPT ![key] = Append(@, t)], C, R)
         /\ ~Allows(l, key, t) =>
              /\ Allowance(m, g, C, R)
              /\ Cardinality(Recent(g[key], t, I)) >= Least(C, R)
<1> DEFINE m == AfterAllow(l, key, t)
           Taken(q, v) == Cardinality({i \in DOMAIN q : q[i] >= v})
           h == [g EXCEPT ![key] = Append(@, t)]
<1>0. C \in Nat \ {0} /\ R \in Nat \ {0} /\ I \in Nat \ {0} /\ Least(C, R) \in Nat \ {0}
      /\ Least(C, R) <= C
  BY U32Assumption DEF Parameters, Least
<1>1. PICK had \in 0 .. C, since \in Nat :
         (Allows(l, key, t) <=> had > 0) /\ Call(l, m, key, t, had, since, C, R, I)
  BY CallFacts
<1>2. /\ DOMAIN m.buckets = DOMAIN PruneIdle(l, t) \cup {key}
      /\ m.buckets[key].tokens = (IF had = 0 THEN 0 ELSE had - 1)
      /\ m.buckets[key].last_refill = since
      /\ \A k \in DOMAIN PruneIdle(l, t) \ {key} : m.buckets[k] = l.buckets[k]
      /\ since <= t /\ t - since < I
  BY <1>1 DEF Call
<1>3. DOMAIN PruneIdle(l, t) \subseteq DOMAIN l.buckets
  BY DEF PruneIdle, Restrict
<1> HIDE DEF m
<1>a. DOMAIN l.buckets \subseteq K
  BY DEF Limiter
<1>t. \A q \in Seq(Nat), v \in Nat :
         /\ Taken(q, v) \in Nat /\ IsFiniteSet({i \in DOMAIN q : q[i] >= v})
         /\ t >= v => Taken(Append(q, t), v) = Taken(q, v) + 1
  BY IndexSets
<1> HIDE DEF Taken
<1>4. had + Taken(g[key], since) >= Least(C, R)
  <2>0. Taken(g[key], since) \in Nat
    BY <1>t
  <2>1. CASE Pruned(l, key, I, t)
    <3>1. had = C
      BY <1>1, <2>1 DEF Call
    <3> QED BY <1>0, <2>0, <3>1
  <2>2. CASE ~Pruned(l, key, I, t)
    <3> DEFINE b == l.buckets[key]
    <3>1. b.last_refill \in Nat /\ b.tokens \in Nat /\ key \in DOMAIN l.buckets
      BY <2>2 DEF Pruned, Limiter
    <3>2. CASE t - b.last_refill >= I
      <4>1. had >= Least(C, R)
        BY <1>1, <2>2, <3>2 DEF Call
      <4> QED BY <1>0, <2>0, <4>1
    <3>3. CASE t - b.last_refill < I
      <4>1. since = b.last_refill /\ had = b.tokens
        BY <1>1, <2>2, <3>3 DEF Call
      <4>2. b.tokens + Taken(g[key], b.last_refill) >= Least(C, R)
        BY <3>1 DEF Allowance, Taken
      <4> QED BY <4>1, <4>2
    <3> QED BY <1>0, <3>1, <3>2, <3>3
  <2> QED BY <2>1, <2>2
<1>5. ASSUME NEW f \in [K -> Seq(Nat)], \A k \in K \ {key} : f[k] = g[k],
             m.buckets[key].tokens + Taken(f[key], since) >= Least(C, R)
      PROVE  Allowance(m, f, C, R)
  <2>1. \A k \in DOMAIN l.buckets :
          l.buckets[k].tokens + Taken(g[k], l.buckets[k].last_refill) >= Least(C, R)
    BY DEF Allowance, Taken
  <2> SUFFICES ASSUME NEW k \in DOMAIN m.buckets
               PROVE  m.buckets[k].tokens + Taken(f[k], m.buckets[k].last_refill) >= Least(C, R)
    BY Zenon DEF Allowance, Taken
  <2>2. CASE k = key
    BY <1>2, <1>5, <2>2
  <2>3. CASE k # key
    <3>1. k \in DOMAIN l.buckets /\ m.buckets[k] = l.buckets[k] /\ f[k] = g[k]
      BY <1>2, <1>3, <1>a, <1>5, <2>3
    <3> QED BY <2>1, <3>1
  <2> QED BY <2>2, <2>3
<1>6. ASSUME Allows(l, key, t) PROVE Allowance(m, h, C, R)
  <2>1. h \in [K -> Seq(Nat)] /\ h[key] = Append(g[key], t) /\ \A k \in K \ {key} : h[k] = g[k]
    OBVIOUS
  <2>2. Taken(h[key], since) = Taken(g[key], since) + 1 /\ Taken(g[key], since) \in Nat
    BY <1>2, <1>t, <2>1
  <2>3. m.buckets[key].tokens = had - 1
    BY <1>1, <1>2, <1>6
  <2> HIDE DEF h
  <2>4. m.buckets[key].tokens + Taken(h[key], since) >= Least(C, R)
    BY <1>0, <1>4, <2>2, <2>3
  <2> QED BY <1>5, <2>1, <2>4
<1>7. ASSUME ~Allows(l, key, t)
      PROVE  /\ Allowance(m, g, C, R)
             /\ Cardinality(Recent(g[key], t, I)) >= Least(C, R)
  <2>1. had = 0 /\ m.buckets[key].tokens = 0
    BY <1>1, <1>2, <1>7
  <2>2. Taken(g[key], since) \in Nat
    BY <1>t
  <2>3. Taken(g[key], since) >= Least(C, R)
    BY <1>0, <1>4, <2>1, <2>2
  <2>4. m.buckets[key].tokens + Taken(g[key], since) >= Least(C, R)
    BY <1>0, <2>1, <2>2, <2>3
  <2>5. Allowance(m, g, C, R)
    BY <1>5, <2>4
  <2> DEFINE A == {i \in DOMAIN g[key] : g[key][i] >= since}
             B == Recent(g[key], t, I)
  <2>6. g[key] \in Seq(Nat)
    OBVIOUS
  <2>7. A \subseteq B
    BY <1>0, <1>2, <2>6 DEF Recent
  <2>8. IsFiniteSet(B)
    <3>1. Len(g[key]) \in Nat /\ B \subseteq 1 .. Len(g[key])
      BY <2>6 DEF Recent
    <3>2. IsFiniteSet(1 .. Len(g[key]))
      BY <3>1, FS_Interval
    <3> QED BY <3>1, <3>2, FS_Subset
  <2>9. Cardinality(A) <= Cardinality(B) /\ Cardinality(B) \in Nat /\ Cardinality(A) \in Nat
    BY <2>7, <2>8, FS_Subset, FS_CardinalityType
  <2>10. Taken(g[key], since) = Cardinality(A)
    BY DEF Taken
  <2> HIDE DEF A, B
  <2>11. Cardinality(B) >= Least(C, R)
    BY <1>0, <2>3, <2>9, <2>10
  <2> QED BY <2>5, <2>11 DEF B
<1> QED BY <1>6, <1>7 DEF m

-------------------------------------------------------------------------------
(* How many calls are let through *)

LEMMA PaidType ==
  ASSUME NEW R \in Nat, NEW I \in Nat \ {0}, NEW s \in Nat, NEW v \in Nat
  PROVE  Paid(R, I, s, v) \in Int
<1>1. v - s \in Int
  OBVIOUS
<1>2. (v - s) \div I \in Int
  BY <1>1, DivRange
<1> QED BY <1>2 DEF Paid

\* A longer span is paid more: a refill for every whole interval between the two
\* ends, and two refills for two intervals.
LEMMA PaidGrows ==
  ASSUME NEW R \in Nat, NEW I \in Nat \ {0},
         NEW s \in Nat, NEW v \in Nat, NEW t \in Nat, v <= t
  PROVE  /\ Paid(R, I, s, v) <= Paid(R, I, s, t)
         /\ R * ((t - v) \div I) \in Nat
         /\ Paid(R, I, s, v) + R * ((t - v) \div I) <= Paid(R, I, s, t)
<1> DEFINE a == (v - s) \div I
           b == (t - v) \div I
           c == (t - s) \div I
<1>0. v - s \in Int /\ t - v \in Int /\ t - s \in Int /\ v - s <= t - s
      /\ (v - s) + (t - v) = t - s /\ 0 <= t - v
  OBVIOUS
<1>1. a \in Int /\ b \in Int /\ c \in Int
  BY <1>0, DivRange
<1>2. a + b <= c
  BY <1>0, DivAdd
<1>3. b >= 0
  <2>1. I * b <= t - v /\ t - v < I * b + I
    BY <1>0, DivRange
  <2> HIDE DEF b
  <2> QED BY <1>0, <1>1, <2>1
<1>4. Paid(R, I, s, v) = R * (a + 1) /\ Paid(R, I, s, t) = R * (c + 1)
  BY DEF Paid
<1> HIDE DEF a, b, c
<1>5. R * b \in Nat
  BY <1>1, <1>3
<1>6. R * (a + 1) + R * b = R * (a + b + 1) /\ R * (a + 1) \in Int
  BY <1>1
<1>7. R * (a + b + 1) <= R * (c + 1)
  BY <1>1, <1>2, TimesMono
<1>8. Paid(R, I, s, v) + R * b <= Paid(R, I, s, t) /\ Paid(R, I, s, v) \in Int
  BY <1>4, <1>6, <1>7
<1>9. Paid(R, I, s, t) \in Int
  BY PaidType
<1>10. Paid(R, I, s, v) <= Paid(R, I, s, t)
  BY <1>5, <1>8, <1>9
<1> QED BY <1>5, <1>8, <1>10 DEF b

LEMMA PaidIdle ==
  ASSUME NEW R \in Nat, NEW I \in Nat \ {0},
         NEW s \in Nat, NEW v \in Nat, NEW t \in Nat, v + 2 * I <= t
  PROVE  Paid(R, I, s, v) + 2 * R <= Paid(R, I, s, t)
<1> DEFINE b == (t - v) \div I
<1>1. v <= t /\ t - v \in Int /\ t - v >= 2 * I
  OBVIOUS
<1>2. b \in Int /\ I * b <= t - v /\ t - v < I * b + I
  BY <1>1, DivRange
<1>3. R * b \in Nat /\ Paid(R, I, s, v) + R * b <= Paid(R, I, s, t)
  BY <1>1, PaidGrows
<1>4. Paid(R, I, s, v) \in Int /\ Paid(R, I, s, t) \in Int
  BY PaidType
<1> HIDE DEF b
<1>5. b >= 2
  BY <1>1, <1>2
<1>6. R * 2 <= R * b
  BY <1>2, <1>5, TimesMono
<1>7. 2 * R = R * 2
  OBVIOUS
<1> QED BY <1>3, <1>4, <1>6, <1>7

\* A span that begins less than an interval after v is not in debt.
LEMMA PaidNew ==
  ASSUME NEW R \in Nat, NEW I \in Nat \ {0}, NEW v \in Nat, NEW t \in Nat, t - v < I
  PROVE  Paid(R, I, t, v) >= 0
<1> DEFINE a == (v - t) \div I
<1>1. v - t \in Int
  OBVIOUS
<1>2. a \in Int /\ I * a <= v - t /\ v - t < I * a + I
  BY <1>1, DivRange
<1>3. Paid(R, I, t, v) = R * (a + 1)
  BY DEF Paid
<1> HIDE DEF a
<1>4. a + 1 >= 0
  BY <1>1, <1>2
<1> QED BY <1>2, <1>3, <1>4

LEMMA SpansLater ==
  ASSUME NEW C, NEW R, NEW I, Parameters(C, R, I), NEW K, NEW l,
         NEW g \in [K -> Seq(Nat)], NEW t \in Nat, NEW u \in Nat, t <= u,
         Spans(l, g, K, C, R, I, t)
  PROVE  Spans(l, g, K, C, R, I, u)
<1>0. C \in Nat /\ R \in Nat /\ I \in Nat \ {0}
  BY U32Assumption DEF Parameters
<1> SUFFICES ASSUME NEW k \in K, NEW i \in DOMAIN g[k]
             PROVE  SpanOf(l, g, k, i, C, R, I, u)
  BY DEF Spans
<1>1. SpanOf(l, g, k, i, C, R, I, t)
  BY DEF Spans
<1> DEFINE s == g[k][i]
           n == Len(g[k]) - i + 1
<1>2. s \in Nat /\ n \in Int
  OBVIOUS
<1>3. /\ s <= t
      /\ k \notin DOMAIN l.buckets => n <= Paid(R, I, s, t)
  BY <1>1 DEF SpanOf
<1> HIDE DEF n, s
<1>4. Paid(R, I, s, t) <= Paid(R, I, s, u) /\ Paid(R, I, s, t) \in Int /\ Paid(R, I, s, u) \in Int
  BY <1>0, <1>2, PaidGrows, PaidType
<1>5. s <= u /\ (k \notin DOMAIN l.buckets => n <= Paid(R, I, s, u))
  BY <1>2, <1>3, <1>4
<1> QED BY <1>1, <1>5 DEF SpanOf, n, s

\* A bucket that has not been seen for two intervals was refilled longer ago.
LEMMA IdleLong ==
  ASSUME NEW I \in Nat, NEW t \in Nat, NEW seen \in Nat, NEW filled \in Nat,
         filled <= seen, ~(t - seen < 2 * I)
  PROVE  filled + 2 * I <= t
<1> DEFINE w == 2 * I
<1>1. w \in Nat /\ ~(t - seen < w)
  OBVIOUS
<1> HIDE DEF w
<1>2. filled + w <= t
  BY <1>1
<1> QED BY <1>2 DEF w

\* A call for one key leaves the spans of the others within their budgets, also
\* of those whose idle bucket it prunes.
LEMMA CallSpansOther ==
  ASSUME NEW C, NEW R, NEW I, Parameters(C, R, I), C <= 2 * R,
         NEW K, NEW key \in K, NEW t \in Nat,
         NEW l, Limiter(l, C, R, I, K, t), NEW g \in [K -> Seq(Nat)],
         Spans(l, g, K, C, R, I, t), NEW m, NEW had \in 0 .. C, NEW since \in Nat,
         Call(l, m, key, t, had, since, C, R, I),
         NEW k \in K \ {key}, NEW i \in DOMAIN g[k]
  PROVE  SpanOf(m, g, k, i, C, R, I, t)
<1>0. C \in Nat /\ R \in Nat /\ I \in Nat \ {0}
  BY U32Assumption DEF Parameters
<1>1. SpanOf(l, g, k, i, C, R, I, t)
  BY DEF Spans
<1>2. l.interval = I
  BY LimiterFields
<1>3. /\ DOMAIN m.buckets = DOMAIN PruneIdle(l, t) \cup {key}
      /\ \A x \in DOMAIN PruneIdle(l, t) \ {key} : m.buckets[x] = l.buckets[x]
  BY DEF Call
<1>p. DOMAIN PruneIdle(l, t) = {x \in DOMAIN l.buckets : t - l.buckets[x].last_seen < 2 * I}
  BY <1>2 DEF PruneIdle, IdleTtl, Restrict
<1>4. CASE k \in DOMAIN m.buckets
  <2>1. k \in DOMAIN l.buckets /\ m.buckets[k] = l.buckets[k]
    BY <1>3, <1>p, <1>4
  <2> QED BY <1>1, <1>4, <2>1 DEF SpanOf
<1>5. CASE k \notin DOMAIN m.buckets
  <2>1. CASE k \notin DOMAIN l.buckets
    BY <1>1, <1>5, <2>1 DEF SpanOf
  <2>2. CASE k \in DOMAIN l.buckets
    <3> DEFINE b == l.buckets[k]
               n == Len(g[k]) - i + 1
               s == g[k][i]
    <3>1. /\ b.last_refill \in Nat /\ b.tokens \in Nat /\ b.last_seen \in Nat
          /\ b.last_refill <= b.last_seen
      BY <2>2 DEF Limiter
    <3>2. ~(t - b.last_seen < 2 * I)
      <4>1. k \notin DOMAIN PruneIdle(l, t)
        BY <1>3, <1>5
      <4> QED BY <1>p, <2>2, <4>1
    <3>3. s \in Nat /\ n \in Int
      OBVIOUS
    <3>4. n + b.tokens <= C + Paid(R, I, s, b.last_refill) /\ s <= t
      BY <1>1, <2>2 DEF SpanOf
    <3> HIDE DEF b, n, s
    <3>5. b.last_refill + 2 * I <= t
      BY <1>0, <3>1, <3>2, IdleLong
    <3>6. Paid(R, I, s, b.last_refill) + 2 * R <= Paid(R, I, s, t)
      BY <1>0, <3>1, <3>3, <3>5, PaidIdle
    <3>7. Paid(R, I, s, b.last_refill) \in Int /\ Paid(R, I, s, t) \in Int
      BY <1>0, <3>1, <3>3, PaidType
    <3>8. n <= Paid(R, I, s, t)
      <4> DEFINE x == Paid(R, I, s, b.last_refill)
                 y == Paid(R, I, s, t)
                 z == b.tokens
      <4>1. x \in Int /\ y \in Int /\ z \in Nat /\ x + 2 * R <= y /\ n + z <= C + x
        BY <3>1, <3>4, <3>6, <3>7
      <4> HIDE DEF x, y, z
      <4>2. n <= y
        BY <1>0, <3>3, <4>1
      <4> QED BY <4>2 DEF y
    <3> QED BY <1>5, <3>4, <3>8 DEF SpanOf, n, s
  <2> QED BY <2>1, <2>2
<1> QED BY <1>4, <1>5

\* What a call finds for its own key is within the budget of every earlier grant.
LEMMA CallBudget ==
  ASSUME NEW C, NEW R, NEW I, Parameters(C, R, I), C <= 2 * R,
         NEW K, NEW key \in K, NEW t \in Nat,
         NEW l, Limiter(l, C, R, I, K, t), NEW g \in [K -> Seq(Nat)],
         Spans(l, g, K, C, R, I, t), NEW m, NEW had \in 0 .. C, NEW since \in Nat,
         Call(l, m, key, t, had, since, C, R, I),
         NEW i \in DOMAIN g[key]
  PROVE  Len(g[key]) - i + 1 + had <= C + Paid(R, I, g[key][i], since)
<1>0. C \in Nat /\ R \in Nat /\ I \in Nat \ {0}
  BY U32Assumption DEF Parameters
<1>1. SpanOf(l, g, key, i, C, R, I, t)
  BY DEF Spans
<1> DEFINE b == l.buckets[key]
           n == Len(g[key]) - i + 1
           s == g[key][i]
<1>3. s \in Nat /\ n \in Int
  OBVIOUS
<1>4. CASE key \notin DOMAIN l.buckets
  <2>1. had = C /\ since = t
    BY <1>4 DEF Call, Pruned
  <2>2. n <= Paid(R, I, s, t)
    BY <1>1, <1>4 DEF SpanOf
  <2> HIDE DEF n, s
  <2>3. Paid(R, I, s, t) \in Int
    BY <1>0, <1>3, PaidType
  <2>4. n + had <= C + Paid(R, I, s, since)
    BY <1>0, <1>3, <2>1, <2>2, <2>3
  <2> QED BY <2>4 DEF n, s
<1>5. CASE key \in DOMAIN l.buckets
  <2>1. /\ b.last_refill \in Nat /\ b.tokens \in Nat /\ b.last_seen \in Nat
        /\ b.last_refill <= b.last_seen /\ b.last_seen <= t
    BY <1>5 DEF Limiter
  <2>2. n + b.tokens <= C + Paid(R, I, s, b.last_refill)
    BY <1>1, <1>5 DEF SpanOf
  <2>3. CASE Pruned(l, key, I, t)
    <3>1. had = C /\ since = t
      BY <2>3 DEF Call
    <3>2. ~(t - b.last_seen < 2 * I)
      BY <1>0, <1>5, <2>1, <2>3 DEF Pruned
    <3> HIDE DEF b, n, s
    <3>3. b.last_refill + 2 * I <= t
      BY <1>0, <2>1, <3>2, IdleLong
    <3>4. Paid(R, I, s, b.last_refill) + 2 * R <= Paid(R, I, s, t)
      BY <1>0, <1>3, <2>1, <3>3, PaidIdle
    <3>5. Paid(R, I, s, b.last_refill) \in Int /\ Paid(R, I, s, t) \in Int
      BY <1>0, <1>3, <2>1, PaidType
    <3>6. n + had <= C + Paid(R, I, s, since)
      <4> DEFINE x == Paid(R, I, s, b.last_refill)
                 y == Paid(R, I, s, t)
                 z == b.tokens
      <4>1. x \in Int /\ y \in Int /\ z \in Nat /\ x + 2 * R <= y /\ n + z <= C + x
        BY <2>1, <2>2, <3>4, <3>5
      <4> HIDE DEF x, y, z
      <4>2. n + C <= C + y
        BY <1>0, <1>3, <4>1
      <4> QED BY <3>1, <4>2 DEF y
    <3> QED BY <3>6 DEF n, s
  <2>4. CASE ~Pruned(l, key, I, t)
    <3>1. /\ t - b.last_refill >= I => since = t /\ had <= b.tokens + R * ((t - b.last_refill) \div I)
          /\ t - b.last_refill < I => since = b.last_refill /\ had = b.tokens
      BY <2>4 DEF Call
    <3> HIDE DEF b, n, s
    <3>2. CASE t - b.last_refill < I
      BY <2>2, <3>1, <3>2 DEF n, s
    <3>3. CASE t - b.last_refill >= I
      <4>1. /\ R * ((t - b.last_refill) \div I) \in Nat
            /\ Paid(R, I, s, b.last_refill) + R * ((t - b.last_refill) \div I) <= Paid(R, I, s, t)
        <5>1. b.last_refill <= t
          BY <2>1
        <5> QED BY <1>0, <1>3, <2>1, <5>1, PaidGrows
      <4>2. Paid(R, I, s, b.last_refill) \in Int /\ Paid(R, I, s, t) \in Int
        BY <1>0, <1>3, <2>1, PaidType
      <4> DEFINE r == R * ((t - b.last_refill) \div I)
      <4>3. since = t /\ had <= b.tokens + r
        BY <3>1, <3>3
      <4>4. r \in Nat /\ Paid(R, I, s, b.last_refill) + r <= Paid(R, I, s, t)
        BY <4>1
      <4> HIDE DEF r
      <4> DEFINE x == Paid(R, I, s, b.last_refill)
                 y == Paid(R, I, s, t)
                 z == b.tokens
      <4>5. /\ x \in Int /\ y \in Int /\ z \in Nat /\ x + r <= y /\ n + z <= C + x
            /\ had <= z + r
        BY <2>1, <2>2, <4>2, <4>3, <4>4
      <4> HIDE DEF x, y, z
      <4>6. n + had <= C + y
        BY <1>0, <1>3, <4>4, <4>5
      <4>7. n + had <= C + Paid(R, I, s, since)
        BY <4>3, <4>6 DEF y
      <4> QED BY <4>7 DEF n, s
    <3>4. t - b.last_refill < I \/ t - b.last_refill >= I
      BY <1>0, <2>1
    <3> QED BY <3>2, <3>3, <3>4
  <2> QED BY <2>3, <2>4
<1> QED BY <1>4, <1>5

\* A call keeps every span within its budget, and so one that is let through is.
LEMMA CallSpans ==
  ASSUME NEW C, NEW R, NEW I, Parameters(C, R, I), C <= 2 * R,
         NEW K, NEW key \in K, NEW t \in Nat,
         NEW l, Limiter(l, C, R, I, K, t), NEW g \in [K -> Seq(Nat)],
         Spans(l, g, K, C, R, I, t)
  PROVE  LET m == AfterAllow(l, key, t)
             h == [g EXCEPT ![key] = Append(@, t)]
         IN  /\ Allows(l, key, t) =>
                  /\ Spans(m, h, K, C, R, I, t)
                  /\ \A i \in DOMAIN h[key] :
                       Len(h[key]) - i + 1 <= C + Paid(R, I, h[key][i], t)
             /\ ~Allows(l, key, t) => Spans(m, g, K, C, R, I, t)
<1> DEFINE m == AfterAllow(l, key, t)
           h == [g EXCEPT ![key] = Append(@, t)]
           N == Len(g[key])
           Left(had) == IF had = 0 THEN 0 ELSE had - 1
<1>0. C \in Nat \ {0} /\ R \in Nat \ {0} /\ I \in Nat \ {0}
  BY U32Assumption DEF Parameters
<1>1. PICK had \in 0 .. C, since \in Nat :
         (Allows(l, key, t) <=> had > 0) /\ Call(l, m, key, t, had, since, C, R, I)
  BY CallFacts
<1>2. /\ key \in DOMAIN m.buckets
      /\ m.buckets[key] = [tokens |-> Left(had), last_refill |-> since, last_seen |-> t]
      /\ since <= t /\ t - since < I
  BY <1>1 DEF Call
<1>3. /\ m.buckets[key].tokens = Left(had)
      /\ m.buckets[key].last_refill = since
      /\ m.buckets[key].last_seen = t
  BY <1>2
<1> HIDE DEF m
<1>4. ASSUME NEW k \in K \ {key}, NEW i \in DOMAIN g[k]
      PROVE  SpanOf(m, g, k, i, C, R, I, t)
  BY <1>1, CallSpansOther
<1>5. ASSUME NEW i \in DOMAIN g[key]
      PROVE  /\ g[key][i] \in Nat /\ g[key][i] <= t /\ i \in Int /\ i <= N
             /\ Paid(R, I, g[key][i], since) \in Int /\ Paid(R, I, g[key][i], t) \in Int
             /\ Paid(R, I, g[key][i], since) <= Paid(R, I, g[key][i], t)
             /\ N - i + 1 + had <= C + Paid(R, I, g[key][i], since)
  <2>1. SpanOf(l, g, key, i, C, R, I, t)
    BY DEF Spans
  <2>2. g[key][i] \in Nat /\ i \in Int /\ i <= N
    OBVIOUS
  <2>3. g[key][i] <= t
    BY <2>1 DEF SpanOf
  <2>4. N - i + 1 + had <= C + Paid(R, I, g[key][i], since)
    BY <1>1, CallBudget
  <2>5. Paid(R, I, g[key][i], since) \in Int /\ Paid(R, I, g[key][i], t) \in Int
    BY <1>0, <2>2, PaidType
  <2>6. Paid(R, I, g[key][i], since) <= Paid(R, I, g[key][i], t)
    BY <1>0, <1>2, <2>2, PaidGrows
  <2> QED BY <2>2, <2>3, <2>4, <2>5, <2>6
<1>6. Paid(R, I, t, since) \in Int /\ Paid(R, I, t, since) >= 0
  BY <1>0, <1>2, PaidType, PaidNew
<1>7. Paid(R, I, t, t) \in Int /\ Paid(R, I, t, t) >= 0
  <2>1. t - t < I
    BY <1>0
  <2> QED BY <1>0, <2>1, PaidType, PaidNew
<1>8. ASSUME ~Allows(l, key, t) PROVE Spans(m, g, K, C, R, I, t)
  <2> SUFFICES ASSUME NEW k \in K, NEW i \in DOMAIN g[k]
               PROVE  SpanOf(m, g, k, i, C, R, I, t)
    BY DEF Spans
  <2>1. CASE k # key
    BY <1>4, <2>1
  <2>2. CASE k = key
    <3> DEFINE n == N - i + 1
               p == Paid(R, I, g[key][i], since)
    <3>1. n + had <= C + p /\ g[key][i] <= t
      BY <1>5, <2>2
    <3>2. had = 0
      BY <1>1, <1>8
    <3>3. m.buckets[key].tokens = had
      BY <1>3, <3>2
    <3> HIDE DEF n, p
    <3>4. n + m.buckets[key].tokens <= C + p
      BY <3>1, <3>3
    <3> QED BY <1>2, <1>3, <2>2, <3>1, <3>4 DEF SpanOf, n, p
  <2> QED BY <2>1, <2>2
<1>9. ASSUME Allows(l, key, t)
      PROVE  /\ Spans(m, h, K, C, R, I, t)
             /\ \A i \in DOMAIN h[key] :
                  Len(h[key]) - i + 1 <= C + Paid(R, I, h[key][i], t)
  <2>1. /\ N \in Nat
        /\ h[key] = Append(g[key], t) /\ Len(h[key]) = N + 1
        /\ DOMAIN h[key] = DOMAIN g[key] \cup {N + 1}
        /\ h[key][N + 1] = t
        /\ \A i \in DOMAIN g[key] : h[key][i] = g[key][i]
    OBVIOUS
  <2>2. \A k \in K \ {key} : h[k] = g[k]
    OBVIOUS
  <2>3. m.buckets[key].tokens = had - 1 /\ had >= 1
    BY <1>1, <1>3, <1>9
  <2> HIDE DEF h
  <2>4. ASSUME NEW i \in DOMAIN h[key]
        PROVE  /\ h[key][i] <= t
               /\ Len(h[key]) - i + 1 + (had - 1) <= C + Paid(R, I, h[key][i], since)
               /\ Len(h[key]) - i + 1 <= C + Paid(R, I, h[key][i], t)
    <3>1. CASE i \in DOMAIN g[key]
      <4> DEFINE s == g[key][i]
                 p == Paid(R, I, s, since)
                 q == Paid(R, I, s, t)
      <4>1. /\ i \in Int /\ p \in Int /\ q \in Int /\ p <= q /\ s <= t
            /\ N - i + 1 + had <= C + p
        BY <1>5, <3>1
      <4>2. h[key][i] = s
        BY <2>1, <3>1
      <4> HIDE DEF N, s, p, q
      <4>3. N + 1 - i + 1 + (had - 1) <= C + p /\ N + 1 - i + 1 <= C + q
        BY <1>0, <2>1, <2>3, <4>1
      <4> QED BY <2>1, <4>1, <4>2, <4>3 DEF p, q
    <3>2. CASE i = N + 1
      <4> DEFINE p == Paid(R, I, t, since)
                 q == Paid(R, I, t, t)
      <4>1. p \in Int /\ q \in Int /\ p >= 0 /\ q >= 0
        BY <1>6, <1>7
      <4> HIDE DEF N, p, q
      <4>2. N + 1 - i + 1 + (had - 1) <= C + p /\ N + 1 - i + 1 <= C + q /\ t <= t
        BY <1>0, <2>1, <2>3, <3>2, <4>1
      <4> QED BY <2>1, <3>2, <4>2 DEF p, q
    <3> QED BY <2>1, <3>1, <3>2
  <2>5. ASSUME NEW k \in K, NEW i \in DOMAIN h[k]
        PROVE  SpanOf(m, h, k, i, C, R, I, t)
    <3>1. CASE k # key
      <4>1. h[k] = g[k]
        BY <2>2, <3>1
      <4>2. SpanOf(m, g, k, i, C, R, I, t)
        BY <1>4, <3>1, <4>1
      <4> QED BY <4>1, <4>2 DEF SpanOf
    <3>2. CASE k = key
      <4>1. /\ h[key][i] <= t
            /\ Len(h[key]) - i + 1 + m.buckets[key].tokens
                 <= C + Paid(R, I, h[key][i], since)
        BY <2>3, <2>4, <3>2
      <4> QED BY <1>2, <1>3, <3>2, <4>1 DEF SpanOf
    <3> QED BY <3>1, <3>2
  <2> QED BY <2>4, <2>5 DEF Spans
<1> QED BY <1>8, <1>9 DEF m
================================================================================
