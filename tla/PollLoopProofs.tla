----------------------------- MODULE PollLoopProofs ----------------------------
(***************************************************************************)
(* The loop for every knock sequence, every set of packets, every size of  *)
(* the table and every timeout: it implements the mailbox, its pass over   *)
(* the table misses nothing overdue, only silent connections are given up, *)
(* and every datagram socket has its turn.                                 *)
(*                                                                         *)
(* A packet that waits is in exactly one place, so what a step takes out   *)
(* of a queue or of the table is what it handles, moves or gives up.       *)
(***************************************************************************)
EXTENDS PollLoop, WellFoundedInduction, TLAPS

-------------------------------------------------------------------------------
(* Loops.  A recursive function over 0 .. N is what its equations say because   *)
(* some function satisfies them, and a set of numbers has a least element.      *)

\* Any set of numbers has a least one.
LEMMA LeastElement ==
  ASSUME NEW T \in SUBSET Nat, T # {}
  PROVE  \E m \in T : \A k \in T : m <= k
<1> DEFINE R == OpToRel(<, Nat)
<1>1. ASSUME NEW m \in Nat, NEW k \in Nat, k < m PROVE <<k, m>> \in R
  BY <1>1 DEF OpToRel
<1>2. IsWellFoundedOn(R, Nat)
  BY NatLessThanWellFounded
<1> HIDE DEF R
<1>3. PICK m \in T : \A k \in T : ~(<<k, m>> \in R)
  BY <1>2, WFMin
<1>4. ASSUME NEW k \in T PROVE m <= k
  <2>1. m \in Nat /\ k \in Nat
    OBVIOUS
  <2>2. ~(k < m)
    BY <1>1, <1>3, <2>1
  <2> QED BY <2>1, <2>2
<1> QED BY <1>4

\* What holds before a loop and is kept by every round holds throughout.
LEMMA LoopInduction ==
  ASSUME NEW N \in Nat, NEW G, 0 \in G, \A n \in 1 .. N : n - 1 \in G => n \in G
  PROVE  0 .. N \subseteq G
<1> DEFINE T == (0 .. N) \ G
<1>1. SUFFICES ASSUME T # {} PROVE FALSE
  OBVIOUS
<1>2. PICK m \in T : \A k \in T : m <= k
  <2>1. T \in SUBSET Nat
    OBVIOUS
  <2> HIDE DEF T
  <2> QED BY <1>1, <2>1, LeastElement
<1>3. m \in 1 .. N /\ m - 1 \in 0 .. N
  OBVIOUS
<1>4. m - 1 \in G
  BY <1>2, <1>3
<1> QED BY <1>3, <1>4

\* The values that a loop over 1 .. N goes through; its body is a function.
LoopOf(f, N, A, base, step) ==
  /\ f \in [0 .. N -> A]
  /\ f[0] = base
  /\ \A n \in 1 .. N : f[n] = step[<<f[n - 1], n>>]

\* A loop over 1 .. N computes something: its recursive definition has a solution.
LEMMA LoopDefined ==
  ASSUME NEW N \in Nat, NEW A, NEW base \in A, NEW step \in [A \X (1 .. N) -> A]
  PROVE  \E f : LoopOf(f, N, A, base, step)
<1> DEFINE Sol(f, m) == LoopOf(f, m, A, base, step)
           G == {m \in 0 .. N : \E f : Sol(f, m)}
<1>1. 0 \in G
  <2> DEFINE f == [n \in 0 .. 0 |-> base]
  <2>1. Sol(f, 0)
    BY DEF LoopOf
  <2> HIDE DEF f
  <2> QED BY <2>1
<1>2. ASSUME NEW m \in 1 .. N, m - 1 \in G PROVE m \in G
  <2>1. PICK g : Sol(g, m - 1)
    BY <1>2
  <2>g. /\ g \in [0 .. m - 1 -> A] /\ g[0] = base
        /\ \A n \in 1 .. m - 1 : g[n] = step[<<g[n - 1], n>>]
    BY <2>1 DEF LoopOf
  <2> DEFINE f == [n \in 0 .. m |-> IF n = m THEN step[<<g[m - 1], m>>] ELSE g[n]]
  <2>2. g[m - 1] \in A
    BY <2>g
  <2>3. f \in [0 .. m -> A]
    <3>1. step[<<g[m - 1], m>>] \in A
      BY <2>2
    <3>2. \A n \in 0 .. m : n # m => g[n] \in A
      BY <2>g
    <3> QED BY <3>1, <3>2
  <2>4. f[0] = base
    BY <2>g
  <2>7. f[m] = step[<<g[m - 1], m>>] /\ \A n \in 0 .. m - 1 : f[n] = g[n]
    OBVIOUS
  <2> HIDE DEF f
  <2>5. ASSUME NEW n \in 1 .. m PROVE f[n] = step[<<f[n - 1], n>>]
    <3>1. n \in Int /\ n - 1 \in 0 .. m - 1 /\ (n # m => n \in 1 .. m - 1 /\ n \in 0 .. m - 1)
      OBVIOUS
    <3>2. f[n - 1] = g[n - 1]
      BY <2>7, <3>1
    <3>3. CASE n = m
      <4>1. f[m - 1] = g[m - 1]
        BY <3>2, <3>3
      <4>2. f[m] = step[<<f[m - 1], m>>]
        BY <2>7, <4>1
      <4> QED BY <3>3, <4>2
    <3>4. CASE n # m
      <4>1. f[n] = g[n] /\ g[n] = step[<<g[n - 1], n>>]
        BY <2>7, <2>g, <3>1, <3>4
      <4> QED BY <3>2, <4>1
    <3> QED BY <3>3, <3>4
  <2>6. Sol(f, m)
    BY <2>3, <2>4, <2>5 DEF LoopOf
  <2> QED BY <2>6
<1> HIDE DEF G
<1>3. N \in G
  BY <1>1, <1>2, LoopInduction
<1> QED BY <1>3 DEF G

-------------------------------------------------------------------------------
(* The sockets *)

\* What the loop that binds has done for a protocol after n steps.
Bound(ports, protocol, n) ==
  /\ ports \in Seq(Nat)
  /\ \A i \in 1 .. Len(ports) : SocketOf(protocol, ports[i]) \in Socket
  /\ \A m \in 1 .. n : Sequence[m].protocol = protocol => Contains(ports, Sequence[m].port)

\* What a step is, and the socket it is for.
LEMMA StepFacts ==
  /\ Len(Sequence) \in Nat
  /\ \A n \in 1 .. Len(Sequence) :
       /\ Sequence[n] = SocketOf(Sequence[n].protocol, Sequence[n].port)
       /\ Sequence[n] \in Socket /\ Sequence[n].port \in Nat
       /\ Sequence[n].protocol \in {"udp", "tcp", "icmp"}
  /\ \A q \in Socket : \E n \in 1 .. Len(Sequence) : q = Sequence[n]
<1> DEFINE Step == [protocol : {"udp", "tcp", "icmp"}, port : Nat]
<1>1. Sequence \in Seq(Step)
  BY LoopAssumption
<1>2. \A s \in Step : /\ s = SocketOf(s.protocol, s.port) /\ s.port \in Nat
                      /\ s.protocol \in {"udp", "tcp", "icmp"}
  BY DEF SocketOf
<1> HIDE DEF Step
<1>3. Len(Sequence) \in Nat /\ DOMAIN Sequence = 1 .. Len(Sequence)
      /\ \A n \in 1 .. Len(Sequence) : Sequence[n] \in Step
  BY <1>1
<1> QED BY <1>2, <1>3 DEF Socket, ToSet

LEMMA BindFacts ==
  ASSUME NEW ports, NEW protocol, NEW n \in 1 .. Len(Sequence), Bound(ports, protocol, n - 1)
  PROVE  Bound(Bind(ports, Sequence[n], protocol), protocol, n)
<1> DEFINE step == Sequence[n]
           next == Bind(ports, step, protocol)
<1>1. ports \in Seq(Nat) /\ Len(ports) \in Nat /\ step.port \in Nat
      /\ step = SocketOf(step.protocol, step.port) /\ step \in Socket /\ n \in Int
  BY StepFacts DEF Bound
<1>2. 1 .. n = (1 .. n - 1) \cup {n}
  BY StepFacts
<1> HIDE DEF step
<1>3. CASE step.protocol = protocol /\ ~Contains(ports, step.port)
  <2> DEFINE m == Len(ports)
             port == step.port
             more == Append(ports, port)
  <2>1. next = more
    BY <1>3 DEF Bind
  <2>2. /\ m \in Nat /\ more \in Seq(Nat) /\ Len(more) = m + 1 /\ more[m + 1] = port
        /\ \A i \in 1 .. m : more[i] = ports[i]
    BY <1>1
  <2>p. SocketOf(protocol, port) \in Socket
    BY <1>1, <1>3
  <2>b. /\ \A i \in 1 .. m : SocketOf(protocol, ports[i]) \in Socket
        /\ \A j \in 1 .. n - 1 : Sequence[j].protocol = protocol => Contains(ports, Sequence[j].port)
    BY DEF Bound
  <2>c. \A x : Contains(ports, x) <=> \E i \in 1 .. m : ports[i] = x
    BY DEF Contains
  <2>d. \A x : Contains(more, x) <=> \E i \in 1 .. m + 1 : more[i] = x
    BY <2>2 DEF Contains
  <2> HIDE DEF more, port, m, next
  <2>3. 1 .. m + 1 = (1 .. m) \cup {m + 1}
    BY <2>2
  <2>4. \A i \in 1 .. m + 1 : SocketOf(protocol, more[i]) \in Socket
    BY <2>p, <2>b, <2>2, <2>3
  <2>5. \A x : Contains(ports, x) => Contains(more, x)
    BY <2>c, <2>d, <2>2, <2>3
  <2>6. Contains(more, port)
    BY <2>d, <2>2, <2>3
  <2>7. \A j \in 1 .. n : Sequence[j].protocol = protocol => Contains(more, Sequence[j].port)
    BY <1>2, <2>b, <2>5, <2>6 DEF step, port
  <2>8. Bound(more, protocol, n)
    BY <2>2, <2>4, <2>7 DEF Bound
  <2> QED BY <2>1, <2>8 DEF next, step
<1>4. CASE step.protocol # protocol \/ Contains(ports, step.port)
  <2>1. next = ports
    BY <1>4 DEF Bind
  <2> HIDE DEF next
  <2>2. Bound(ports, protocol, n)
    BY <1>2, <1>4 DEF Bound, step
  <2> QED BY <2>1, <2>2 DEF next, step
<1> QED BY <1>3, <1>4

\* A socket is bound for every step of a protocol, and no other.
LEMMA PortsFacts ==
  ASSUME NEW protocol
  PROVE  /\ Len(Ports(protocol)) \in Nat
         /\ \A i \in 1 .. Len(Ports(protocol)) : SocketOf(protocol, Ports(protocol)[i]) \in Socket
         /\ \A q \in Socket : q.protocol = protocol =>
              \E i \in 1 .. Len(Ports(protocol)) : Ports(protocol)[i] = q.port
<1> DEFINE N == Len(Sequence)
           A == Seq(Nat)
           step == [x \in A \X (1 .. N) |-> Bind(x[1], Sequence[x[2]], protocol)]
           Eq(f) == f = [n \in 0 .. N |-> IF n = 0 THEN <<>>
                                          ELSE Bind(f[n - 1], Sequence[n], protocol)]
           bound == CHOOSE f : Eq(f)
<1>n. N \in Nat /\ <<>> \in A
  BY StepFacts
<1>1. ASSUME NEW ports \in A, NEW n \in 1 .. N PROVE Bind(ports, Sequence[n], protocol) \in A
  <2>1. Sequence[n].port \in Nat
    BY StepFacts
  <2> QED BY <2>1 DEF Bind
<1> HIDE DEF A
<1>2. step \in [A \X (1 .. N) -> A]
  BY <1>1
<1>s. \A a \in A, n \in 1 .. N : step[<<a, n>>] = Bind(a, Sequence[n], protocol)
  OBVIOUS
<1>3. PICK f : LoopOf(f, N, A, <<>>, step)
  <2> HIDE DEF step, N
  <2> QED BY <1>2, <1>n, LoopDefined
<1>f. f \in [0 .. N -> A] /\ f[0] = <<>> /\ \A n \in 1 .. N : f[n] = step[<<f[n - 1], n>>]
  BY <1>3, Zenon DEF LoopOf
<1>4. ASSUME NEW n \in 1 .. N PROVE f[n] = Bind(f[n - 1], Sequence[n], protocol)
  <2>1. f[n - 1] \in A
    <3>1. n - 1 \in 0 .. N
      BY <1>n
    <3> HIDE DEF N
    <3> QED BY <1>f, <3>1
  <2> HIDE DEF step, N
  <2> QED BY <1>f, <1>s, <2>1
<1>5. Eq(f)
  BY <1>f, <1>4
<1>6. Eq(bound)
  <2> HIDE DEF Eq
  <2> QED BY <1>5
<1>7. bound[0] = <<>> /\ \A n \in 1 .. N : bound[n] = Bind(bound[n - 1], Sequence[n], protocol)
  <2>1. 0 \in 0 .. N /\ \A n \in 1 .. N : n \in 0 .. N /\ n # 0
    BY <1>n
  <2> HIDE DEF N, bound
  <2> QED BY <1>6, <2>1
<1> HIDE DEF bound
<1> DEFINE G == {n \in 0 .. N : Bound(bound[n], protocol, n)}
<1>8. 0 \in G
  <2> DEFINE none == <<>>
  <2>1. none \in Seq(Nat) /\ Len(none) = 0
    OBVIOUS
  <2> HIDE DEF none
  <2>2. Bound(none, protocol, 0)
    BY <2>1 DEF Bound
  <2>3. bound[0] = none
    BY <1>7 DEF none
  <2> HIDE DEF N
  <2> QED BY <1>n, <2>2, <2>3
<1>9. ASSUME NEW n \in 1 .. N, n - 1 \in G PROVE n \in G
  <2>1. Bound(bound[n], protocol, n)
    BY <1>7, <1>9, BindFacts
  <2> QED BY <1>n, <2>1
<1>10. N \in G
  <2> HIDE DEF G, N
  <2> QED BY <1>n, <1>8, <1>9, LoopInduction
<1>11. Ports(protocol) = bound[N]
  BY DEF Ports, bound
<1>12. Bound(Ports(protocol), protocol, N)
  BY <1>10, <1>11
<1>13. \A q \in Socket : \E n \in 1 .. N : q = Sequence[n]
  BY StepFacts
<1> DEFINE ports == Ports(protocol)
<1>14. /\ Len(ports) \in Nat
       /\ \A i \in 1 .. Len(ports) : SocketOf(protocol, ports[i]) \in Socket
       /\ \A m \in 1 .. N : Sequence[m].protocol = protocol => Contains(ports, Sequence[m].port)
  BY <1>12 DEF Bound
<1> HIDE DEF ports, N
<1>15. ASSUME NEW q \in Socket, q.protocol = protocol
       PROVE  \E i \in 1 .. Len(ports) : ports[i] = q.port
  <2>1. PICK n \in 1 .. N : q = Sequence[n]
    BY <1>13
  <2>2. Contains(ports, q.port)
    BY <1>14, <1>15, <2>1
  <2> QED BY <2>2 DEF Contains
<1> QED BY <1>14, <1>15 DEF ports

-------------------------------------------------------------------------------
(* Sequences of packets *)

\* The packets in a queue or in the table, and that each is there once.
PacketsIn(s) == {s[i].packet : i \in DOMAIN s}
OnceEach(s) == \A i, j \in DOMAIN s : s[i].packet = s[j].packet => i = j

\* Receiving takes the head.
LEMMA TailFacts ==
  ASSUME NEW S, NEW s \in Seq(S), s # <<>>
  PROVE  /\ Tail(s) \in Seq(S) /\ Head(s) \in S /\ Len(Tail(s)) = Len(s) - 1
         /\ \A i \in DOMAIN Tail(s) : i + 1 \in DOMAIN s /\ Tail(s)[i] = s[i + 1]
         /\ Head(s).packet \in PacketsIn(s)
         /\ OnceEach(s) => /\ OnceEach(Tail(s))
                           /\ PacketsIn(Tail(s)) = PacketsIn(s) \ {Head(s).packet}
<1> DEFINE t == Tail(s)
           n == Len(s)
<1>1. n \in Nat /\ n > 0 /\ DOMAIN s = 1 .. n /\ DOMAIN t = 1 .. n - 1 /\ Head(s) = s[1]
      /\ t \in Seq(S) /\ Head(s) \in S /\ Len(t) = n - 1
  OBVIOUS
<1>2. \A i \in 1 .. n - 1 : t[i] = s[i + 1]
  OBVIOUS
<1> HIDE DEF t, n
<1>3. \A i \in DOMAIN t : i \in Int /\ i + 1 \in DOMAIN s /\ i + 1 # 1 /\ t[i] = s[i + 1]
  BY <1>1, <1>2
<1>4. Head(s).packet \in PacketsIn(s)
  BY <1>1 DEF PacketsIn
<1>5. ASSUME OnceEach(s) PROVE OnceEach(t) /\ PacketsIn(t) = PacketsIn(s) \ {s[1].packet}
  <2>1. OnceEach(t)
    <3> SUFFICES ASSUME NEW i \in DOMAIN t, NEW j \in DOMAIN t, t[i].packet = t[j].packet
                 PROVE  i = j
      BY DEF OnceEach
    <3>1. i + 1 = j + 1
      BY <1>3, <1>5 DEF OnceEach
    <3> QED BY <1>3, <3>1
  <2>2. \A i \in DOMAIN t : t[i].packet \in PacketsIn(s) /\ t[i].packet # s[1].packet
    <3> TAKE i \in DOMAIN t
    <3>1. i + 1 \in DOMAIN s /\ 1 \in DOMAIN s /\ i + 1 # 1 /\ t[i] = s[i + 1]
      BY <1>1, <1>3
    <3> QED BY <1>5, <3>1 DEF OnceEach, PacketsIn
  <2>3. \A i \in DOMAIN s : s[i].packet # s[1].packet => s[i].packet \in PacketsIn(t)
    <3> SUFFICES ASSUME NEW i \in DOMAIN s, i # 1 PROVE s[i].packet \in PacketsIn(t)
      OBVIOUS
    <3>1. i - 1 \in DOMAIN t /\ t[i - 1] = s[i]
      BY <1>1, <1>2
    <3> QED BY <3>1 DEF PacketsIn
  <2> QED BY <2>1, <2>2, <2>3 DEF PacketsIn
<1> QED BY <1>1, <1>3, <1>4, <1>5 DEF t, n

\* What comes last.
LEMMA AppendFacts ==
  ASSUME NEW S, NEW s \in Seq(S), NEW e \in S
  PROVE  /\ Append(s, e) \in Seq(S) /\ Len(Append(s, e)) = Len(s) + 1
         /\ \A i \in DOMAIN Append(s, e) :
              \/ i \in DOMAIN s /\ Append(s, e)[i] = s[i]
              \/ i = Len(s) + 1 /\ Append(s, e)[i] = e
         /\ PacketsIn(Append(s, e)) = PacketsIn(s) \cup {e.packet}
         /\ OnceEach(s) /\ e.packet \notin PacketsIn(s) => OnceEach(Append(s, e))
<1> DEFINE t == Append(s, e)
           n == Len(s)
<1>1. /\ n \in Nat /\ DOMAIN s = 1 .. n /\ DOMAIN t = 1 .. n + 1 /\ t[n + 1] = e
      /\ t \in Seq(S) /\ Len(t) = n + 1 /\ \A i \in 1 .. n : t[i] = s[i]
  OBVIOUS
<1> HIDE DEF t, n
<1>2. \A i \in DOMAIN t : (i \in DOMAIN s /\ t[i] = s[i]) \/ (i = n + 1 /\ t[i] = e)
  BY <1>1
<1>3. DOMAIN s \subseteq DOMAIN t /\ n + 1 \in DOMAIN t /\ n + 1 \notin DOMAIN s
  BY <1>1
<1>4. PacketsIn(t) = PacketsIn(s) \cup {e.packet}
  BY <1>1, <1>2, <1>3 DEF PacketsIn
<1>5. OnceEach(s) /\ e.packet \notin PacketsIn(s) => OnceEach(t)
  BY <1>2, <1>3 DEF OnceEach, PacketsIn
<1> QED BY <1>1, <1>2, <1>4, <1>5 DEF t, n

\* swap_remove takes one element out and leaves what is before it in place.
LEMMA SwapRemoveFacts ==
  ASSUME NEW S, NEW s \in Seq(S), NEW k \in 1 .. Len(s)
  PROVE  /\ SwapRemove(s, k) \in Seq(S) /\ Len(SwapRemove(s, k)) = Len(s) - 1
         /\ \A i \in DOMAIN SwapRemove(s, k) :
              i \in DOMAIN s /\ (i < k => SwapRemove(s, k)[i] = s[i])
         /\ OnceEach(s) => /\ OnceEach(SwapRemove(s, k))
                           /\ PacketsIn(SwapRemove(s, k)) = PacketsIn(s) \ {s[k].packet}
<1> DEFINE t == SwapRemove(s, k)
           n == Len(s)
           from(i) == IF i = k THEN n ELSE i
<1>1. n \in Nat /\ n > 0 /\ k \in 1 .. n /\ DOMAIN s = 1 .. n /\ k \in Int
  OBVIOUS
<1>2. Front(s) \in Seq(S) /\ Len(Front(s)) = n - 1 /\ \A i \in 1 .. n - 1 : Front(s)[i] = s[i]
  BY <1>1 DEF Front
<1>3. t \in Seq(S) /\ Len(t) = n - 1 /\ \A i \in 1 .. n - 1 : t[i] = s[from(i)]
  <2> DEFINE f == Front(s)
  <2>f. f \in Seq(S) /\ Len(f) = n - 1 /\ \A i \in 1 .. n - 1 : f[i] = s[i]
    BY <1>2
  <2> HIDE DEF n, f
  <2>1. CASE k = n
    <3>1. t = f
      BY <2>1 DEF SwapRemove, n, f
    <3>2. \A i \in 1 .. n - 1 : from(i) = i
      BY <1>1, <2>1
    <3> HIDE DEF t
    <3> QED BY <2>f, <3>1, <3>2
  <2>2. CASE k # n
    <3>1. t = [f EXCEPT ![k] = s[n]]
      BY <2>2 DEF SwapRemove, ReplaceAt, Last, n, f
    <3>2. s[n] \in S /\ k \in 1 .. n - 1
      BY <1>1, <2>2
    <3>3. DOMAIN f = 1 .. n - 1
      BY <1>1, <2>f
    <3> HIDE DEF t
    <3> QED BY <1>1, <2>f, <3>1, <3>2, <3>3
  <2> QED BY <2>1, <2>2
<1> HIDE DEF t, n
<1>4. DOMAIN t = 1 .. n - 1
  BY <1>1, <1>3
<1>5. \A i \in DOMAIN t : /\ i \in DOMAIN s /\ i \in Int /\ i # n /\ t[i] = s[from(i)]
                          /\ from(i) \in DOMAIN s /\ from(i) # k
  BY <1>1, <1>3, <1>4
<1>6. \A i \in DOMAIN t : i \in DOMAIN s /\ (i < k => t[i] = s[i])
  BY <1>1, <1>5
<1>7. ASSUME OnceEach(s) PROVE OnceEach(t) /\ PacketsIn(t) = PacketsIn(s) \ {s[k].packet}
  <2>1. OnceEach(t)
    <3> SUFFICES ASSUME NEW i \in DOMAIN t, NEW j \in DOMAIN t, t[i].packet = t[j].packet
                 PROVE  i = j
      BY DEF OnceEach
    <3> HIDE DEF from
    <3>1. from(i) = from(j)
      BY <1>5, <1>7 DEF OnceEach
    <3> QED BY <1>5, <3>1 DEF from
  <2>2. ASSUME NEW i \in DOMAIN t PROVE t[i].packet \in PacketsIn(s) \ {s[k].packet}
    <3> HIDE DEF from
    <3>1. k \in DOMAIN s
      BY <1>1
    <3> QED BY <1>5, <1>7, <3>1 DEF OnceEach, PacketsIn
  <2>3. ASSUME NEW i \in DOMAIN s, i # k PROVE s[i].packet \in PacketsIn(t)
    <3>1. CASE i = n
      <4>1. k \in DOMAIN t /\ t[k] = s[n]
        BY <1>1, <1>3, <1>4, <2>3, <3>1
      <4> QED BY <3>1, <4>1 DEF PacketsIn
    <3>2. CASE i # n
      <4>1. i \in DOMAIN t /\ t[i] = s[i]
        BY <1>1, <1>3, <1>4, <2>3, <3>2
      <4> QED BY <4>1 DEF PacketsIn
    <3> QED BY <3>1, <3>2
  <2>4. \A x \in PacketsIn(s) \ {s[k].packet} : x \in PacketsIn(t)
    BY <2>3 DEF PacketsIn
  <2>5. \A x \in PacketsIn(t) : x \in PacketsIn(s) \ {s[k].packet}
    BY <2>2 DEF PacketsIn
  <2> QED BY <2>1, <2>4, <2>5
<1> QED BY <1>1, <1>3, <1>6, <1>7 DEF t, n

\* Changing what else the entries hold moves no packet.
LEMMA SamePackets ==
  ASSUME NEW s, NEW t, DOMAIN t = DOMAIN s, \A i \in DOMAIN s : t[i].packet = s[i].packet
  PROVE  PacketsIn(t) = PacketsIn(s) /\ (OnceEach(s) => OnceEach(t))
BY DEF PacketsIn, OnceEach

-------------------------------------------------------------------------------
(* The invariant *)

\* What the table holds for a connection.
PendingEntry == [packet : Connection, left : 0 .. ReadTimeout]

\* Every packet that waits is in one place, that of its socket or the table, and
\* has not been handled.
Placed ==
  /\ \A q \in Socket : OnceEach(queues[q])
  /\ \A q \in Socket : \A p \in PacketsIn(queues[q]) :
       SocketOf(p.protocol, p.port) = q /\ p \in sent \ handled /\ p \notin PacketsIn(pending)
  /\ OnceEach(pending)
  /\ PacketsIn(pending) \subseteq sent \ handled

KeptInv == LoopTypeOK /\ Placed

\* The step is one of the mailbox, or none.
BoxStep == Box!Next \/ UNCHANGED Box!mailboxVars

\* What OnlySilentDropped says of a step.
DropsSilent ==
  \A c \in Connection :
    c \in Waiting /\ c \notin Waiting' => c \in handled' \/ stream[c] = "idle"

\* The places that make up Waiting.
LEMMA WaitingWhere ==
  /\ \A p : p \in Waiting <=> \/ p \in PacketsIn(pending)
                              \/ \E q \in Socket : p \in PacketsIn(queues[q])
  /\ \A p : p \in Waiting' <=> \/ p \in PacketsIn(pending')
                               \/ \E q \in Socket : p \in PacketsIn(queues'[q])
BY DEF Waiting, InQueues, InPending, PacketsIn

LEMMA PlacedWaiting == Placed => Waiting \subseteq sent \ handled
BY WaitingWhere DEF Placed

\* The socket of a packet; what is in its queue is a packet of its protocol.
LEMMA PacketSocket ==
  /\ \A p \in Packet : SocketOf(p.protocol, p.port) \in Socket
  /\ \A p \in Packet, q \in Socket : SocketOf(p.protocol, p.port) = q => p.protocol = q.protocol
BY LoopAssumption DEF SocketOf, Socket

-------------------------------------------------------------------------------
(* What each kind of step does to the places *)

\* Nothing moves.
LEMMA StayStep ==
  ASSUME Placed, UNCHANGED <<sent, handled, calls>>,
         \A q \in Socket : PacketsIn(queues'[q]) = PacketsIn(queues[q]) /\ OnceEach(queues'[q]),
         PacketsIn(pending') = PacketsIn(pending), OnceEach(pending')
  PROVE  Placed' /\ Waiting' = Waiting
<1>1. Waiting' = Waiting
  BY WaitingWhere
<1>2. Placed'
  BY DEF Placed
<1> QED BY <1>1, <1>2

\* A packet is taken from its queue and handled.
LEMMA ReceiveStep ==
  ASSUME Placed, NEW q \in Socket, NEW p \in PacketsIn(queues[q]),
         handled' = handled \cup {p}, UNCHANGED <<sent, pending>>,
         PacketsIn(queues'[q]) = PacketsIn(queues[q]) \ {p},
         \A r \in Socket \ {q} : PacketsIn(queues'[r]) = PacketsIn(queues[r]),
         \A r \in Socket : OnceEach(queues'[r])
  PROVE  Placed' /\ p \in Waiting /\ Waiting' = Waiting \ {p}
<1>1. p \notin PacketsIn(pending) /\ p \in sent \ handled
      /\ \A r \in Socket \ {q} : p \notin PacketsIn(queues[r])
  BY DEF Placed
<1>2. p \in Waiting /\ Waiting' = Waiting \ {p}
  BY <1>1, WaitingWhere
<1>3. ASSUME NEW r \in Socket, NEW x \in PacketsIn(queues'[r])
      PROVE  /\ SocketOf(x.protocol, x.port) = r /\ x \in sent' \ handled'
             /\ x \notin PacketsIn(pending')
  <2>1. x \in PacketsIn(queues[r]) /\ x # p
    BY <1>1, <1>3
  <2> QED BY <2>1 DEF Placed
<1>4. OnceEach(pending') /\ PacketsIn(pending') \subseteq sent' \ handled'
  BY <1>1 DEF Placed
<1> QED BY <1>2, <1>3, <1>4 DEF Placed

\* A connection moves from its queue into the table.
LEMMA AcceptStep ==
  ASSUME Placed, NEW q \in Socket, NEW p \in PacketsIn(queues[q]),
         UNCHANGED <<sent, handled, calls>>,
         PacketsIn(queues'[q]) = PacketsIn(queues[q]) \ {p},
         \A r \in Socket \ {q} : PacketsIn(queues'[r]) = PacketsIn(queues[r]),
         \A r \in Socket : OnceEach(queues'[r]),
         PacketsIn(pending') = PacketsIn(pending) \cup {p}, OnceEach(pending')
  PROVE  Placed' /\ Waiting' = Waiting
<1>1. p \notin PacketsIn(pending) /\ p \in sent \ handled
      /\ \A r \in Socket \ {q} : p \notin PacketsIn(queues[r])
  BY DEF Placed
<1>2. Waiting' = Waiting
  BY <1>1, WaitingWhere
<1>3. ASSUME NEW r \in Socket, NEW x \in PacketsIn(queues'[r])
      PROVE  /\ SocketOf(x.protocol, x.port) = r /\ x \in sent' \ handled'
             /\ x \notin PacketsIn(pending')
  <2>1. x \in PacketsIn(queues[r]) /\ x # p
    BY <1>1, <1>3
  <2> QED BY <2>1 DEF Placed
<1>4. OnceEach(pending') /\ PacketsIn(pending') \subseteq sent' \ handled'
  BY <1>1 DEF Placed
<1> QED BY <1>2, <1>3, <1>4 DEF Placed

\* A connection leaves the table, read or given up.
LEMMA LeaveStep ==
  ASSUME Placed, NEW p \in PacketsIn(pending), UNCHANGED <<sent, queues>>,
         handled' = handled \/ handled' = handled \cup {p},
         PacketsIn(pending') = PacketsIn(pending) \ {p}, OnceEach(pending')
  PROVE  Placed' /\ p \in Waiting /\ Waiting' = Waiting \ {p}
<1>1. p \in sent \ handled /\ \A r \in Socket : p \notin PacketsIn(queues[r])
  BY DEF Placed
<1>2. p \in Waiting /\ Waiting' = Waiting \ {p}
  BY <1>1, WaitingWhere
<1>3. Placed'
  BY <1>1 DEF Placed
<1> QED BY <1>2, <1>3

\* A packet comes to the queue of its socket.
LEMMA ArriveStep ==
  ASSUME Placed, handled \subseteq sent, NEW q \in Socket, NEW p, p \notin sent,
         SocketOf(p.protocol, p.port) = q,
         sent' = sent \cup {p}, UNCHANGED <<handled, pending>>,
         PacketsIn(queues'[q]) = PacketsIn(queues[q]) \cup {p},
         \A r \in Socket \ {q} : PacketsIn(queues'[r]) = PacketsIn(queues[r]),
         \A r \in Socket : OnceEach(queues'[r])
  PROVE  Placed' /\ Waiting' = Waiting \cup {p}
<1>1. p \notin PacketsIn(pending) /\ p \notin handled
  BY DEF Placed
<1>2. Waiting' = Waiting \cup {p}
  BY WaitingWhere
<1>3. Placed'
  BY <1>1 DEF Placed
<1> QED BY <1>2, <1>3

-------------------------------------------------------------------------------
(* The mailbox *)

LEMMA BoxStutter ==
  ASSUME UNCHANGED <<sent, handled, calls>>, Waiting' = Waiting, Running' = Running
  PROVE  BoxStep /\ DropsSilent
BY DEF BoxStep, Box!mailboxVars, DropsSilent

LEMMA BoxSend ==
  ASSUME NEW p \in Packet, p \notin sent, handled \subseteq sent, Running, Running',
         sent' = sent \cup {p}, UNCHANGED <<handled, calls>>, Waiting' = Waiting \cup {p}
  PROVE  BoxStep /\ DropsSilent
<1>1. p \in Datagram \cup Connection
  BY DEF Datagram, Connection
<1>2. Box!Send(p)
  BY DEF Box!Send
<1> QED BY <1>1, <1>2 DEF BoxStep, Box!Next, DropsSilent

LEMMA BoxHandle ==
  ASSUME NEW p \in Packet, p \in Waiting, Waiting \subseteq sent \ handled, Running, Running',
         ProcessPacket(p), sent' = sent, Waiting' = Waiting \ {p}
  PROVE  BoxStep /\ DropsSilent
<1>1. p \in Datagram \cup Connection
  BY DEF Datagram, Connection
<1>2. Box!Handle(p)
  BY DEF Box!Handle, Box!Waiting, ProcessPacket
<1> QED BY <1>1, <1>2 DEF BoxStep, Box!Next, DropsSilent, ProcessPacket

LEMMA BoxGiveUp ==
  ASSUME NEW p \in Connection, p \in Waiting, Waiting \subseteq sent \ handled,
         Running, Running', stream[p] = "idle",
         UNCHANGED <<sent, handled, calls>>, Waiting' = Waiting \ {p}
  PROVE  BoxStep /\ DropsSilent
<1>1. Box!GiveUp(p)
  BY DEF Box!GiveUp, Box!Waiting
<1> QED BY <1>1 DEF BoxStep, Box!Next, DropsSilent

LEMMA BoxEnd ==
  ASSUME Running, ~Running', UNCHANGED <<sent, handled, calls>>, Waiting' = Waiting
  PROVE  BoxStep /\ DropsSilent
<1>1. Box!End
  BY DEF Box!End, Running
<1> QED BY <1>1 DEF BoxStep, Box!Next, DropsSilent

-------------------------------------------------------------------------------
(* The steps of the loop *)

\* The packets of a queue, and what is in it without its head.
LEMMA QueueFacts ==
  ASSUME KeptInv, NEW q \in Socket
  PROVE  /\ queues[q] \in Seq(Entry) /\ PacketsIn(queues[q]) \subseteq Packet
         /\ OnceEach(queues[q])
         /\ queues[q] # <<>> =>
              /\ Tail(queues[q]) \in Seq(Entry) /\ OnceEach(Tail(queues[q]))
              /\ Head(queues[q]).packet \in PacketsIn(queues[q])
              /\ Head(queues[q]).packet \in Packet
              /\ PacketsIn(Tail(queues[q])) = PacketsIn(queues[q]) \ {Head(queues[q]).packet}
<1> DEFINE s == queues[q]
<1>1. s \in Seq(Entry) /\ OnceEach(s)
  BY DEF KeptInv, LoopTypeOK, Placed
<1> HIDE DEF s
<1>2. PacketsIn(s) \subseteq Packet
  <2>1. \A i \in DOMAIN s : s[i] \in Entry
    BY <1>1
  <2> QED BY <2>1 DEF PacketsIn, Entry
<1>3. s # <<>> => /\ Tail(s) \in Seq(Entry) /\ OnceEach(Tail(s))
                  /\ Head(s).packet \in PacketsIn(s)
                  /\ PacketsIn(Tail(s)) = PacketsIn(s) \ {Head(s).packet}
  BY <1>1, TailFacts
<1> QED BY <1>1, <1>2, <1>3 DEF s

LEMMA TakeFirst ==
  ASSUME KeptInv, NEW q \in Socket, queues[q] # <<>>,
         queues' = [queues EXCEPT ![q] = Tail(queues[q])]
  PROVE  LET p == Head(queues[q]).packet IN
         /\ queues' \in [Socket -> Seq(Entry)]
         /\ p \in PacketsIn(queues[q]) /\ p \in Packet
         /\ PacketsIn(queues'[q]) = PacketsIn(queues[q]) \ {p}
         /\ \A r \in Socket \ {q} : PacketsIn(queues'[r]) = PacketsIn(queues[r])
         /\ \A r \in Socket : OnceEach(queues'[r])
<1>1. queues \in [Socket -> Seq(Entry)]
  BY DEF KeptInv, LoopTypeOK
<1>2. queues'[q] = Tail(queues[q]) /\ \A r \in Socket \ {q} : queues'[r] = queues[r]
  BY <1>1
<1>3. Tail(queues[q]) \in Seq(Entry)
  BY QueueFacts
<1>4. queues' \in [Socket -> Seq(Entry)]
  BY <1>1, <1>3
<1> QED BY <1>2, <1>4, QueueFacts

LEMMA UdpSocket ==
  \A i \in 1 .. Len(UdpPorts) : SocketOf("udp", UdpPorts[i]) \in Socket
BY PortsFacts DEF UdpPorts

LEMMA TcpSocket ==
  \A i \in 1 .. Len(TcpPorts) : SocketOf("tcp", TcpPorts[i]) \in Socket
BY PortsFacts DEF TcpPorts

LEMMA ReceiveUdpKeeps ==
  ASSUME KeptInv, ReceiveUdp
  PROVE  KeptInv' /\ BoxStep /\ DropsSilent
<1> DEFINE q == SocketOf("udp", UdpPorts[index])
<1>0. LoopTypeOK /\ Placed /\ Waiting \subseteq sent \ handled
  BY PlacedWaiting DEF KeptInv
<1>1. q \in Socket
  <2>1. index \in Nat \ {0} /\ index <= Len(UdpPorts) /\ Len(UdpPorts) \in Nat
    BY PortsFacts DEF ReceiveUdp, KeptInv, LoopTypeOK, UdpPorts
  <2> DEFINE n == Len(UdpPorts)
  <2>2. index \in 1 .. n
    <3> HIDE DEF n
    <3> QED BY <2>1 DEF n
  <2> QED BY <2>2, UdpSocket
<1>2. /\ stage = "udp" /\ stage' = "udp" /\ index' = index + 1
      /\ UNCHANGED <<stream, pending, elapsed, sent>> /\ ReceiveFrom(q)
  BY DEF ReceiveUdp, Goto
<1> HIDE DEF q
<1>3. Running /\ Running'
  BY <1>2 DEF Running
<1>4. index' \in Nat \ {0}
  BY <1>0, <1>2 DEF LoopTypeOK
<1>5. CASE queues[q] = <<>>
  <2>1. UNCHANGED <<queues, handled, calls>>
    BY <1>2, <1>5 DEF ReceiveFrom
  <2>2. Placed' /\ Waiting' = Waiting
    BY <1>0, <1>2, <2>1 DEF Placed, Waiting, InQueues, InPending
  <2>3. LoopTypeOK'
    BY <1>0, <1>2, <1>4, <2>1 DEF LoopTypeOK
  <2> QED BY <1>2, <1>3, <2>1, <2>2, <2>3, BoxStutter DEF KeptInv
<1>6. CASE queues[q] # <<>>
  <2> DEFINE p == Head(queues[q]).packet
  <2>1. queues' = [queues EXCEPT ![q] = Tail(queues[q])] /\ ProcessPacket(p)
    BY <1>2, <1>6 DEF ReceiveFrom
  <2>h. handled' = handled \cup {p} /\ calls' = calls + 1
    BY <2>1 DEF ProcessPacket
  <2>2. /\ queues' \in [Socket -> Seq(Entry)]
        /\ p \in PacketsIn(queues[q]) /\ p \in Packet
        /\ PacketsIn(queues'[q]) = PacketsIn(queues[q]) \ {p}
        /\ \A r \in Socket \ {q} : PacketsIn(queues'[r]) = PacketsIn(queues[r])
        /\ \A r \in Socket : OnceEach(queues'[r])
    BY <1>1, <1>6, <2>1, TakeFirst
  <2> HIDE DEF p
  <2>3. Placed' /\ p \in Waiting /\ Waiting' = Waiting \ {p}
    BY <1>0, <1>1, <1>2, <2>h, <2>2, ReceiveStep
  <2>4. BoxStep /\ DropsSilent
    BY <1>0, <1>2, <1>3, <2>1, <2>2, <2>3, BoxHandle
  <2>5. handled' \subseteq sent'
    BY <1>0, <1>2, <2>h, <2>3 DEF LoopTypeOK
  <2>6. LoopTypeOK'
    BY <1>0, <1>2, <1>4, <2>h, <2>2, <2>5 DEF LoopTypeOK
  <2> QED BY <2>3, <2>4, <2>6 DEF KeptInv
<1> QED BY <1>5, <1>6

\* Reading the clock brings the deadlines nearer.
LEMMA ReadClockKeeps ==
  ASSUME KeptInv, ReadClock
  PROVE  KeptInv' /\ BoxStep /\ DropsSilent
<1>0. LoopTypeOK /\ Placed /\ ReadTimeout \in Nat
  BY LoopAssumption DEF KeptInv
<1> DEFINE left(i) == IF pending[i].left > elapsed THEN pending[i].left - elapsed ELSE 0
<1>1. /\ stage = "udp" /\ stage' = "accept" /\ index' = 1 /\ elapsed' = 0
      /\ UNCHANGED <<queues, stream, sent, handled, calls>>
      /\ pending' = [i \in DOMAIN pending |-> [pending[i] EXCEPT !.left = left(i)]]
  BY DEF ReadClock, Goto
<1>2. pending \in Seq(PendingEntry) /\ elapsed \in 0 .. ReadTimeout /\ Len(pending) <= MaxPending
  BY <1>0 DEF LoopTypeOK, PendingEntry
<1>3. DOMAIN pending = 1 .. Len(pending) /\ Len(pending) \in Nat
      /\ \A i \in DOMAIN pending : pending[i] \in PendingEntry
  BY <1>2
<1>4. ASSUME NEW i \in DOMAIN pending
      PROVE  pending'[i] \in PendingEntry /\ pending'[i].packet = pending[i].packet
  <2>1. pending[i].left \in 0 .. ReadTimeout /\ pending[i] \in PendingEntry
    BY <1>3 DEF PendingEntry
  <2> DEFINE was == pending[i].left
  <2>3. left(i) = IF was > elapsed THEN was - elapsed ELSE 0
    OBVIOUS
  <2>2. left(i) \in 0 .. ReadTimeout
    <3> HIDE DEF was, left
    <3> QED BY <1>0, <1>2, <2>1, <2>3 DEF was
  <2>4. pending'[i] = [pending[i] EXCEPT !.left = left(i)]
    BY <1>1
  <2> HIDE DEF left
  <2> QED BY <2>1, <2>2, <2>4 DEF PendingEntry
<1> HIDE DEF left
<1>d. DOMAIN pending' = DOMAIN pending
  BY <1>1
<1>5. pending' \in Seq(PendingEntry) /\ Len(pending') = Len(pending)
  <2>1. pending' = [i \in 1 .. Len(pending) |-> pending'[i]]
    BY <1>1, <1>3
  <2> DEFINE n == Len(pending)
             new == pending'
  <2>2. n \in Nat /\ new = [i \in 1 .. n |-> new[i]] /\ \A i \in 1 .. n : new[i] \in PendingEntry
    BY <1>3, <1>4, <2>1
  <2>3. new \in [1 .. n -> PendingEntry]
    <3> HIDE DEF new, n
    <3> QED BY <2>2
  <2>4. new \in Seq(PendingEntry) /\ Len(new) = n
    <3> HIDE DEF new, n
    <3> QED BY <2>2, <2>3
  <2> QED BY <2>4
<1>6. PacketsIn(pending') = PacketsIn(pending) /\ OnceEach(pending')
  <2>1. OnceEach(pending)
    BY <1>0 DEF Placed
  <2> QED BY <1>4, <1>d, <2>1, SamePackets
<1>7. Placed' /\ Waiting' = Waiting
  <2>1. \A q \in Socket : PacketsIn(queues'[q]) = PacketsIn(queues[q]) /\ OnceEach(queues'[q])
    BY <1>0, <1>1 DEF Placed
  <2> QED BY <1>0, <1>1, <1>6, <2>1, StayStep
<1>8. LoopTypeOK'
  BY <1>0, <1>1, <1>2, <1>5 DEF LoopTypeOK, PendingEntry, Stages
<1>9. Running' = Running
  BY <1>1 DEF Running
<1> QED BY <1>1, <1>7, <1>8, <1>9, BoxStutter DEF KeptInv

\* A listener gives the head of its backlog, or the loop goes on to the next.
LEMMA AcceptKeeps ==
  ASSUME KeptInv, Accept
  PROVE  KeptInv' /\ BoxStep /\ DropsSilent
<1> DEFINE q == SocketOf("tcp", TcpPorts[index])
<1>0. LoopTypeOK /\ Placed /\ MaxPending \in Nat /\ ReadTimeout \in Nat
  BY LoopAssumption DEF KeptInv
<1>1. q \in Socket /\ q.protocol = "tcp"
  <2>1. index \in Nat \ {0} /\ index <= Len(TcpPorts) /\ Len(TcpPorts) \in Nat
    BY PortsFacts DEF Accept, KeptInv, LoopTypeOK, TcpPorts
  <2> DEFINE n == Len(TcpPorts)
  <2>2. index \in 1 .. n
    <3> HIDE DEF n
    <3> QED BY <2>1 DEF n
  <2>3. q.protocol = "tcp"
    BY DEF SocketOf
  <2> QED BY <2>2, <2>3, TcpSocket
<1>2. /\ stage = "accept" /\ UNCHANGED <<stream, elapsed, sent, handled, calls>>
      /\ IF Len(pending) >= MaxPending \/ queues[q] = <<>>
         THEN Goto("accept", index + 1) /\ UNCHANGED <<queues, pending>>
         ELSE /\ queues' = [queues EXCEPT ![q] = Tail(queues[q])]
              /\ pending' = Append(pending, [packet |-> Head(queues[q]).packet, left |-> ReadTimeout])
              /\ UNCHANGED <<stage, index>>
  BY DEF Accept
<1> HIDE DEF q
<1>3. CASE Len(pending) >= MaxPending \/ queues[q] = <<>>
  <2>1. stage' = "accept" /\ index' = index + 1 /\ UNCHANGED <<queues, pending>>
    BY <1>2, <1>3 DEF Goto
  <2>2. Placed' /\ Waiting' = Waiting /\ Running' = Running
    BY <1>0, <1>2, <2>1 DEF Placed, Waiting, InQueues, InPending, Running
  <2>3. LoopTypeOK'
    BY <1>0, <1>2, <2>1 DEF LoopTypeOK
  <2> QED BY <1>2, <2>2, <2>3, BoxStutter DEF KeptInv
<1>4. CASE ~(Len(pending) >= MaxPending) /\ queues[q] # <<>>
  <2> DEFINE p == Head(queues[q]).packet
             e == [packet |-> p, left |-> ReadTimeout]
  <2>1. /\ queues' = [queues EXCEPT ![q] = Tail(queues[q])]
        /\ pending' = Append(pending, e) /\ UNCHANGED <<stage, index>>
    BY <1>2, <1>4
  <2>2. /\ queues' \in [Socket -> Seq(Entry)]
        /\ p \in PacketsIn(queues[q]) /\ p \in Packet
        /\ PacketsIn(queues'[q]) = PacketsIn(queues[q]) \ {p}
        /\ \A r \in Socket \ {q} : PacketsIn(queues'[r]) = PacketsIn(queues[r])
        /\ \A r \in Socket : OnceEach(queues'[r])
    BY <1>1, <1>4, <2>1, TakeFirst
  <2>3. p \in Connection /\ p \notin PacketsIn(pending)
    <3> HIDE DEF p
    <3> QED BY <1>0, <1>1, <2>2, PacketSocket DEF Placed, Connection
  <2>4. pending \in Seq(PendingEntry) /\ Len(pending) \in Nat /\ OnceEach(pending)
    BY <1>0 DEF LoopTypeOK, PendingEntry, Placed
  <2> HIDE DEF p
  <2>5. e \in PendingEntry /\ e.packet = p
    BY <1>0, <2>3 DEF PendingEntry
  <2> HIDE DEF e
  <2>6. /\ pending' \in Seq(PendingEntry) /\ Len(pending') = Len(pending) + 1
        /\ PacketsIn(pending') = PacketsIn(pending) \cup {p} /\ OnceEach(pending')
    <3>1. /\ Append(pending, e) \in Seq(PendingEntry)
          /\ Len(Append(pending, e)) = Len(pending) + 1
          /\ PacketsIn(Append(pending, e)) = PacketsIn(pending) \cup {e.packet}
          /\ OnceEach(Append(pending, e))
      BY <2>3, <2>4, <2>5, AppendFacts
    <3> QED BY <2>1, <2>5, <3>1
  <2>7. Placed' /\ Waiting' = Waiting
    BY <1>0, <1>1, <1>2, <2>2, <2>6, AcceptStep
  <2>8. Len(pending') <= MaxPending
    BY <1>0, <1>4, <2>4, <2>6
  <2>9. LoopTypeOK'
    BY <1>0, <1>2, <2>1, <2>2, <2>6, <2>8 DEF LoopTypeOK, PendingEntry
  <2>10. Running' = Running
    BY <2>1 DEF Running
  <2> QED BY <1>2, <2>7, <2>9, <2>10, BoxStutter DEF KeptInv
<1> QED BY <1>3, <1>4

\* What a pass sees of the connection it is at, and what is left without it.
LEMMA CurrentFacts ==
  ASSUME KeptInv, AtPending
  PROVE  /\ index \in 1 .. Len(pending) /\ Current.packet \in Connection
         /\ Current.packet \in PacketsIn(pending)
         /\ pending' = SwapRemove(pending, index) =>
              /\ pending' \in Seq(PendingEntry) /\ Len(pending') <= MaxPending
              /\ PacketsIn(pending') = PacketsIn(pending) \ {Current.packet}
              /\ OnceEach(pending')
              /\ \A i \in DOMAIN pending' :
                   i \in DOMAIN pending /\ (i < index => pending'[i] = pending[i])
<1>1. /\ pending \in Seq(PendingEntry) /\ Len(pending) \in Nat /\ OnceEach(pending)
      /\ index \in Nat \ {0} /\ index <= Len(pending) /\ Len(pending) <= MaxPending
      /\ MaxPending \in Nat
  BY LoopAssumption DEF KeptInv, LoopTypeOK, PendingEntry, Placed, AtPending
<1>2. index \in 1 .. Len(pending) /\ DOMAIN pending = 1 .. Len(pending)
  BY <1>1
<1>3. pending[index] \in PendingEntry
  BY <1>1, <1>2
<1>4. pending[index].packet \in Connection /\ pending[index].packet \in PacketsIn(pending)
  BY <1>2, <1>3 DEF PendingEntry, PacketsIn
<1>5. /\ SwapRemove(pending, index) \in Seq(PendingEntry)
      /\ Len(SwapRemove(pending, index)) = Len(pending) - 1
      /\ \A i \in DOMAIN SwapRemove(pending, index) :
           i \in DOMAIN pending /\ (i < index => SwapRemove(pending, index)[i] = pending[i])
      /\ OnceEach(SwapRemove(pending, index))
      /\ PacketsIn(SwapRemove(pending, index)) = PacketsIn(pending) \ {pending[index].packet}
  BY <1>1, <1>2, SwapRemoveFacts
<1>6. Len(pending) - 1 <= MaxPending
  BY <1>1
<1> QED BY <1>2, <1>4, <1>5, <1>6 DEF Current

LEMMA LeaveKeeps ==
  ASSUME KeptInv, ReadKnock \/ ReadTimesOut
  PROVE  KeptInv' /\ BoxStep /\ DropsSilent
<1>0. LoopTypeOK /\ Placed /\ Waiting \subseteq sent \ handled /\ AtPending
  BY PlacedWaiting DEF KeptInv, ReadKnock, ReadTimesOut
<1> DEFINE p == Current.packet
<1>1. /\ pending' = SwapRemove(pending, index) /\ UNCHANGED <<queues, stream, stage, index, elapsed, sent>>
      /\ \/ ProcessPacket(p)
         \/ UNCHANGED <<handled, calls>> /\ stream[p] = "idle"
  BY DEF ReadKnock, ReadTimesOut
<1>2. /\ p \in Connection /\ p \in PacketsIn(pending)
      /\ pending' \in Seq(PendingEntry) /\ Len(pending') <= MaxPending
      /\ PacketsIn(pending') = PacketsIn(pending) \ {p} /\ OnceEach(pending')
  BY <1>0, <1>1, CurrentFacts
<1> HIDE DEF p
<1>3. Placed' /\ p \in Waiting /\ Waiting' = Waiting \ {p}
  <2>1. handled' = handled \/ handled' = handled \cup {p}
    BY <1>1 DEF ProcessPacket
  <2> QED BY <1>0, <1>1, <1>2, <2>1, LeaveStep
<1>4. Running /\ Running'
  BY <1>0, <1>1 DEF Running, AtPending
<1>5. p \in Packet
  BY <1>2 DEF Connection
<1>6. BoxStep /\ DropsSilent
  BY <1>0, <1>1, <1>2, <1>3, <1>4, <1>5, BoxHandle, BoxGiveUp
<1>7. handled' \subseteq sent' /\ calls' \in Nat
  BY <1>0, <1>1, <1>3 DEF LoopTypeOK, ProcessPacket
<1>8. LoopTypeOK'
  BY <1>0, <1>1, <1>2, <1>7 DEF LoopTypeOK, PendingEntry
<1> QED BY <1>3, <1>6, <1>8 DEF KeptInv

\* A step that only moves the loop on, or ends it.
LEMMA MoveKeeps ==
  ASSUME KeptInv, UNCHANGED <<queues, pending, sent, handled, calls>>,
         stream' \in [Connection -> {"idle", "readable", "reset"}],
         elapsed' \in 0 .. ReadTimeout, stage' \in Stages, index' \in Nat \ {0},
         Running \/ (~Running /\ ~Running')
  PROVE  KeptInv' /\ BoxStep /\ DropsSilent
<1>1. Placed' /\ Waiting' = Waiting
  BY DEF KeptInv, Placed, Waiting, InQueues, InPending
<1>2. LoopTypeOK'
  BY DEF KeptInv, LoopTypeOK
<1>3. BoxStep /\ DropsSilent
  <2>1. CASE Running /\ ~Running'
    BY <1>1, <2>1, BoxEnd
  <2>2. CASE Running' = Running
    BY <1>1, <2>2, BoxStutter
  <2>3. Running' = Running \/ (Running /\ ~Running')
    BY DEF Running
  <2> QED BY <2>1, <2>2, <2>3
<1> QED BY <1>1, <1>2, <1>3 DEF KeptInv

LEMMA MovingKeeps ==
  ASSUME KeptInv,
         \/ StartPass \/ ReadNothing \/ ReadFails \/ EndPass \/ Stop \/ Tick
         \/ \E c \in Connection : ClientActs(c)
         \/ UNCHANGED loopVars
  PROVE  KeptInv' /\ BoxStep /\ DropsSilent
<1>0. /\ stream \in [Connection -> {"idle", "readable", "reset"}]
      /\ elapsed \in 0 .. ReadTimeout /\ stage \in Stages /\ index \in Nat \ {0}
      /\ ReadTimeout \in Nat
  BY LoopAssumption DEF KeptInv, LoopTypeOK
<1>1. CASE StartPass \/ ReadNothing \/ ReadFails \/ EndPass \/ Stop
  <2>1. /\ UNCHANGED <<queues, pending, sent, handled, calls, stream, elapsed>>
        /\ stage' \in Stages /\ index' \in Nat \ {0} /\ Running
    BY <1>0, <1>1 DEF StartPass, ReadNothing, ReadFails, EndPass, Stop, Goto, AtPending,
                      Stages, Running
  <2> QED BY <1>0, <2>1, MoveKeeps
<1>2. CASE Tick
  <2>1. elapsed' \in 0 .. ReadTimeout /\ Running
        /\ UNCHANGED <<queues, stream, pending, stage, index, sent, handled, calls>>
    BY <1>0, <1>2 DEF Tick
  <2> QED BY <1>0, <2>1, MoveKeeps
<1>3. ASSUME NEW c \in Connection, ClientActs(c) PROVE KeptInv' /\ BoxStep /\ DropsSilent
  <2>1. stream' \in [Connection -> {"idle", "readable", "reset"}] /\ Running
        /\ UNCHANGED <<queues, pending, stage, index, elapsed, sent, handled, calls>>
    BY <1>0, <1>3 DEF ClientActs
  <2> QED BY <1>0, <2>1, MoveKeeps
<1>4. CASE UNCHANGED loopVars
  <2>1. UNCHANGED <<queues, stream, pending, stage, index, elapsed, sent, handled, calls>>
    BY <1>4 DEF loopVars
  <2> QED BY <1>0, <2>1, MoveKeeps DEF Running
<1> QED BY <1>1, <1>2, <1>3, <1>4

\* A packet arrives at its socket.
LEMMA ArriveKeeps ==
  ASSUME KeptInv, NEW p \in Packet, Arrive(p)
  PROVE  KeptInv' /\ BoxStep /\ DropsSilent
<1> DEFINE q == SocketOf(p.protocol, p.port)
           s == queues[q]
           e == [packet |-> p, rounds |-> Len(s) + 1]
<1>0. LoopTypeOK /\ Placed /\ q \in Socket
  BY PacketSocket DEF KeptInv
<1>1. /\ Running /\ p \notin sent /\ sent' = sent \cup {p}
      /\ queues' = [queues EXCEPT ![q] = Append(s, e)]
      /\ UNCHANGED <<stream, pending, stage, index, elapsed, handled, calls>>
  BY DEF Arrive
<1>2. queues \in [Socket -> Seq(Entry)] /\ s \in Seq(Entry) /\ OnceEach(s)
  BY <1>0 DEF LoopTypeOK, Placed
<1>3. p \notin PacketsIn(s)
  BY <1>0, <1>1 DEF Placed
<1>4. SocketOf(p.protocol, p.port) = q
  OBVIOUS
<1> HIDE DEF q, s
<1>5. e \in Entry /\ e.packet = p
  BY <1>2 DEF Entry
<1> HIDE DEF e
<1>6. /\ Append(s, e) \in Seq(Entry) /\ OnceEach(Append(s, e))
      /\ PacketsIn(Append(s, e)) = PacketsIn(s) \cup {p}
  BY <1>2, <1>3, <1>5, AppendFacts
<1>7. queues'[q] = Append(s, e) /\ \A r \in Socket \ {q} : queues'[r] = queues[r]
  BY <1>0, <1>1, <1>2
<1>8. queues' \in [Socket -> Seq(Entry)]
  BY <1>0, <1>1, <1>2, <1>6
<1>9. \A r \in Socket : OnceEach(queues'[r])
  BY <1>0, <1>6, <1>7 DEF Placed
<1>10. handled \subseteq sent /\ PacketsIn(queues'[q]) = PacketsIn(queues[q]) \cup {p}
  BY <1>0, <1>6, <1>7 DEF LoopTypeOK, s
<1>11. Placed' /\ Waiting' = Waiting \cup {p}
  BY <1>0, <1>1, <1>4, <1>7, <1>9, <1>10, ArriveStep
<1>12. Running'
  BY <1>1 DEF Running
<1>13. BoxStep /\ DropsSilent
  BY <1>1, <1>10, <1>11, <1>12, BoxSend
<1>14. LoopTypeOK'
  BY <1>0, <1>1, <1>8 DEF LoopTypeOK
<1> QED BY <1>11, <1>13, <1>14 DEF KeptInv

\* An iteration ages what it leaves.
LEMMA AgedFacts ==
  ASSUME NEW s \in Seq(Entry)
  PROVE  /\ Aged(s) \in Seq(Entry) /\ DOMAIN Aged(s) = DOMAIN s
         /\ \A i \in DOMAIN s : Aged(s)[i].packet = s[i].packet
                                /\ Aged(s)[i].rounds = s[i].rounds - 1
<1> DEFINE n == Len(s)
           t == Aged(s)
<1>1. n \in Nat /\ DOMAIN s = 1 .. n /\ \A i \in 1 .. n : s[i] \in Entry
  OBVIOUS
<1>2. t = [i \in 1 .. n |-> [s[i] EXCEPT !.rounds = s[i].rounds - 1]]
  BY <1>1 DEF Aged
<1> HIDE DEF n, t
<1>3. ASSUME NEW i \in 1 .. n
      PROVE  t[i] \in Entry /\ t[i].packet = s[i].packet /\ t[i].rounds = s[i].rounds - 1
  <2>1. s[i] \in Entry /\ t[i] = [s[i] EXCEPT !.rounds = s[i].rounds - 1]
    BY <1>1, <1>2
  <2>2. s[i].rounds - 1 \in Int
    BY <2>1 DEF Entry
  <2> QED BY <2>1, <2>2 DEF Entry
<1>4. t \in [1 .. n -> Entry] /\ DOMAIN t = 1 .. n
  BY <1>2, <1>3
<1>5. t \in Seq(Entry)
  BY <1>1, <1>4
<1> QED BY <1>1, <1>3, <1>4, <1>5 DEF t

\* There is at most one ICMP socket.
LEMMA IcmpSocket ==
  \A q, r \in Socket : q.protocol = "icmp" /\ r.protocol = "icmp" => q = r
<1> SUFFICES ASSUME NEW q \in Socket, NEW r \in Socket, q.protocol = "icmp", r.protocol = "icmp"
             PROVE  q = r
  OBVIOUS
<1>1. q.port = 0 /\ r.port = 0
  BY LoopAssumption DEF Socket
<1>2. q = SocketOf("icmp", 0) /\ r = SocketOf("icmp", 0)
  BY <1>1, StepFacts
<1> QED BY <1>2

\* What the last step of an iteration leaves in each queue.
LEMMA IcmpQueues ==
  ASSUME KeptInv, ReceiveIcmp, NEW q \in Socket
  PROVE  /\ queues'[q] \in Seq(Entry) /\ OnceEach(queues'[q])
         /\ q.protocol = "tcp" => queues'[q] = queues[q]
         /\ q.protocol # "icmp" \/ queues[q] = <<>> =>
              /\ PacketsIn(queues'[q]) = PacketsIn(queues[q])
              /\ q.protocol # "tcp" => queues'[q] = Aged(queues[q])
         /\ q.protocol = "icmp" /\ queues[q] # <<>> =>
              /\ PacketsIn(queues'[q]) = PacketsIn(queues[q]) \ {Head(queues[q]).packet}
              /\ queues'[q] = Aged(Tail(queues[q]))
<1> DEFINE rest == IF q.protocol = "icmp" /\ queues[q] # <<>> THEN Tail(queues[q]) ELSE queues[q]
<1>1. queues'[q] = IF q.protocol = "tcp" THEN rest ELSE Aged(rest)
  BY DEF ReceiveIcmp
<1>2. rest \in Seq(Entry) /\ OnceEach(rest)
  BY QueueFacts
<1>3. rest = queues[q] \/ (q.protocol = "icmp" /\ queues[q] # <<>>)
  OBVIOUS
<1>r. /\ q.protocol # "icmp" \/ queues[q] = <<>> => rest = queues[q]
      /\ q.protocol = "icmp" /\ queues[q] # <<>> => rest = Tail(queues[q])
  OBVIOUS
<1> HIDE DEF rest
<1>4. Aged(rest) \in Seq(Entry) /\ PacketsIn(Aged(rest)) = PacketsIn(rest) /\ OnceEach(Aged(rest))
  BY <1>2, AgedFacts, SamePackets
<1>5. queues'[q] \in Seq(Entry) /\ OnceEach(queues'[q]) /\ PacketsIn(queues'[q]) = PacketsIn(rest)
  BY <1>1, <1>2, <1>4
<1>6. q.protocol = "tcp" => q.protocol # "icmp"
  OBVIOUS
<1>7. q.protocol = "icmp" /\ queues[q] # <<>> =>
        PacketsIn(rest) = PacketsIn(queues[q]) \ {Head(queues[q]).packet}
  BY <1>r, QueueFacts
<1> QED BY <1>1, <1>5, <1>6, <1>7, <1>r

LEMMA ReceiveIcmpKeeps ==
  ASSUME KeptInv, ReceiveIcmp
  PROVE  KeptInv' /\ BoxStep /\ DropsSilent
<1> DEFINE ready == {q \in Socket : q.protocol = "icmp" /\ queues[q] # <<>>}
<1>0. LoopTypeOK /\ Placed /\ Waiting \subseteq sent \ handled
  BY PlacedWaiting DEF KeptInv
<1>1. /\ stage = "icmp" /\ stage' = "udp" /\ index' = 1
      /\ UNCHANGED <<stream, pending, elapsed, sent>>
      /\ DOMAIN queues' = Socket /\ queues' = [q \in Socket |-> queues'[q]]
      /\ \/ ready = {} /\ UNCHANGED <<handled, calls>>
         \/ \E q \in ready : ProcessPacket(Head(queues[q]).packet)
  BY DEF ReceiveIcmp, Goto
<1>2. Running /\ Running'
  BY <1>1 DEF Running
<1>3. queues' \in [Socket -> Seq(Entry)] /\ \A q \in Socket : OnceEach(queues'[q])
  BY <1>1, IcmpQueues
<1>4. CASE ready = {}
  <2>1. UNCHANGED <<handled, calls>>
    BY <1>1, <1>4
  <2>2. \A q \in Socket : PacketsIn(queues'[q]) = PacketsIn(queues[q])
    BY <1>4, IcmpQueues
  <2>3. Placed' /\ Waiting' = Waiting
    <3>1. PacketsIn(pending') = PacketsIn(pending) /\ OnceEach(pending')
      BY <1>0, <1>1 DEF Placed
    <3> QED BY <1>0, <1>1, <1>3, <2>1, <2>2, <3>1, StayStep
  <2>4. LoopTypeOK'
    BY <1>0, <1>1, <1>3, <2>1 DEF LoopTypeOK, Stages
  <2> QED BY <1>1, <1>2, <2>1, <2>3, <2>4, BoxStutter DEF KeptInv
<1>5. ASSUME NEW q \in ready PROVE KeptInv' /\ BoxStep /\ DropsSilent
  <2> DEFINE p == Head(queues[q]).packet
  <2>1. q \in Socket /\ q.protocol = "icmp" /\ queues[q] # <<>>
    OBVIOUS
  <2>2. \A r \in ready : r = q
    BY <2>1, IcmpSocket
  <2>3. ProcessPacket(p)
    BY <1>1, <1>5, <2>2
  <2>h. handled' = handled \cup {p} /\ calls' = calls + 1
    BY <2>3 DEF ProcessPacket
  <2>4. p \in PacketsIn(queues[q]) /\ p \in Packet
        /\ PacketsIn(queues'[q]) = PacketsIn(queues[q]) \ {p}
    BY <2>1, QueueFacts, IcmpQueues
  <2>5. \A r \in Socket \ {q} : PacketsIn(queues'[r]) = PacketsIn(queues[r])
    <3>1. \A r \in Socket \ {q} : r.protocol # "icmp" \/ queues[r] = <<>>
      BY <2>2
    <3> QED BY <3>1, IcmpQueues
  <2> HIDE DEF p, ready
  <2>6. Placed' /\ p \in Waiting /\ Waiting' = Waiting \ {p}
    BY <1>0, <1>1, <1>3, <2>1, <2>h, <2>4, <2>5, ReceiveStep
  <2>7. BoxStep /\ DropsSilent
    BY <1>0, <1>1, <1>2, <2>3, <2>4, <2>6, BoxHandle
  <2>8. handled' \subseteq sent'
    BY <1>0, <1>1, <2>h, <2>6 DEF LoopTypeOK
  <2>9. LoopTypeOK'
    BY <1>0, <1>1, <1>3, <2>h, <2>8 DEF LoopTypeOK, Stages
  <2> QED BY <2>6, <2>7, <2>9 DEF KeptInv
<1> QED BY <1>4, <1>5

LEMMA KeptInvInit == LoopInit => KeptInv
<1> SUFFICES ASSUME LoopInit PROVE KeptInv
  OBVIOUS
<1> DEFINE none == <<>>
<1>1. none \in Seq(Entry) /\ none \in Seq(PendingEntry) /\ Len(none) = 0
      /\ OnceEach(none) /\ PacketsIn(none) = {}
  BY DEF OnceEach, PacketsIn
<1>2. queues = [q \in Socket |-> none] /\ pending = none
  BY DEF LoopInit
<1> HIDE DEF none
<1>3. Placed
  BY <1>1, <1>2 DEF Placed
<1>4. LoopTypeOK
  <2>1. ReadTimeout \in Nat /\ MaxPending \in Nat /\ 0 <= MaxPending
    BY LoopAssumption
  <2> QED BY <1>1, <1>2, <2>1 DEF LoopTypeOK, LoopInit, Stages, PendingEntry
<1> QED BY <1>3, <1>4 DEF KeptInv

LEMMA KeptInvStep ==
  ASSUME KeptInv, [LoopNext]_loopVars
  PROVE  KeptInv' /\ BoxStep /\ DropsSilent
BY ReceiveUdpKeeps, ReadClockKeeps, AcceptKeeps, LeaveKeeps, MovingKeeps, ArriveKeeps,
   ReceiveIcmpKeeps DEF LoopNext, LoopStep

LEMMA KeptAlways == LoopSpec => []KeptInv
<1>1. KeptInv /\ [LoopNext]_loopVars => KeptInv'
  BY KeptInvStep
<1> QED BY <1>1, KeptInvInit, PTL DEF LoopSpec

-------------------------------------------------------------------------------
(* The pass over the table *)

\* The pass has left nothing overdue behind it.
PassInv ==
  /\ stage = "read" => \A i \in DOMAIN pending : i < index => pending[i].left > 0
  /\ NoOverdueSurvives

LEMMA PassStep ==
  ASSUME KeptInv, PassInv, [LoopNext]_loopVars
  PROVE  PassInv'
<1>0. /\ pending \in Seq(PendingEntry) /\ index \in Nat \ {0}
      /\ Len(pending) \in Nat /\ DOMAIN pending = 1 .. Len(pending)
  BY DEF KeptInv, LoopTypeOK, PendingEntry
<1>1. CASE UNCHANGED <<stage, index, pending>>
  BY <1>1 DEF PassInv, NoOverdueSurvives
<1>2. CASE stage' \notin {"read", "icmp"}
  BY <1>2 DEF PassInv, NoOverdueSurvives
<1>3. CASE StartPass
  <2>1. stage' = "read" /\ index' = 1 /\ pending' = pending
    BY <1>3 DEF StartPass, Goto
  <2>2. \A i \in DOMAIN pending : ~(i < 1)
    BY <1>0
  <2> QED BY <2>1, <2>2 DEF PassInv, NoOverdueSurvives
<1>4. CASE ReadKnock \/ ReadTimesOut
  <2>1. /\ AtPending /\ stage = "read" /\ stage' = "read" /\ index' = index
        /\ pending' = SwapRemove(pending, index)
    BY <1>4 DEF ReadKnock, ReadTimesOut, AtPending
  <2>2. \A i \in DOMAIN pending' :
          i \in DOMAIN pending /\ (i < index => pending'[i] = pending[i])
    BY <2>1, CurrentFacts
  <2> QED BY <2>1, <2>2 DEF PassInv, NoOverdueSurvives
<1>5. CASE ReadNothing
  <2>1. /\ stage = "read" /\ stage' = "read" /\ index' = index + 1 /\ pending' = pending
        /\ pending[index].left > 0
    BY <1>5 DEF ReadNothing, AtPending, Current
  <2>2. \A i \in DOMAIN pending : i < index + 1 => i < index \/ i = index
    BY <1>0
  <2> QED BY <2>1, <2>2 DEF PassInv, NoOverdueSurvives
<1>6. CASE EndPass
  <2>1. /\ stage = "read" /\ stage' = "icmp" /\ pending' = pending /\ index > Len(pending)
    BY <1>6 DEF EndPass, Goto
  <2>2. \A i \in DOMAIN pending : i < index
    BY <1>0, <2>1
  <2> QED BY <2>1, <2>2 DEF PassInv, NoOverdueSurvives
<1>7. CASE ReceiveUdp \/ ReadClock \/ ReadFails \/ ReceiveIcmp \/ Stop
  <2>1. stage' \in {"udp", "accept", "failed", "stopped"}
    BY <1>7 DEF ReceiveUdp, ReadClock, ReadFails, ReceiveIcmp, Stop, Goto
  <2> QED BY <1>2, <2>1
<1>8. CASE Accept
  <2>1. stage' = "accept"
    BY <1>8 DEF Accept, Goto
  <2> QED BY <1>2, <2>1
<1>9. ASSUME Tick \/ UNCHANGED loopVars \/ (\E p \in Packet : Arrive(p))
             \/ \E c \in Connection : ClientActs(c)
      PROVE  PassInv'
  <2>1. UNCHANGED <<stage, index, pending>>
    BY <1>9 DEF Tick, loopVars, Arrive, ClientActs
  <2> QED BY <1>1, <2>1
<1> QED BY <1>3, <1>4, <1>5, <1>6, <1>7, <1>8, <1>9 DEF LoopNext, LoopStep

-------------------------------------------------------------------------------
(* The turns of the datagram sockets *)

\* A UDP socket has had its turn in this iteration.
Done(q) ==
  /\ q.protocol = "udp"
  /\ \/ stage \in {"accept", "read", "icmp"}
     \/ stage = "udp" /\ \E j \in 1 .. Len(UdpPorts) : j < index /\ UdpPorts[j] = q.port

\* The datagram at i has at least i iterations left, or i - 1 while the turn of
\* this iteration is still to come.
InTurn ==
  \A q \in Socket : q.protocol # "tcp" =>
    \A i \in DOMAIN queues[q] : queues[q][i].rounds >= (IF Done(q) THEN i ELSE i - 1)

\* InTurn for one queue that had its turn or not.
Timely(s, done) == \A i \in DOMAIN s : s[i].rounds >= (IF done THEN i ELSE i - 1)

LEMMA TimelyFacts ==
  ASSUME NEW s \in Seq(Entry)
  PROVE  /\ Timely(s, TRUE) => Timely(s, FALSE) /\ Timely(Aged(s), FALSE)
         /\ Timely(s, FALSE) /\ s # <<>> => Timely(Tail(s), TRUE)
         /\ s = <<>> => Timely(s, TRUE)
<1>1. Len(s) \in Nat /\ DOMAIN s = 1 .. Len(s)
      /\ \A i \in DOMAIN s : i \in Int /\ s[i].rounds \in Int
  <2>1. \A i \in DOMAIN s : s[i] \in Entry
    OBVIOUS
  <2> QED BY <2>1 DEF Entry
<1>2. ASSUME Timely(s, TRUE) PROVE Timely(s, FALSE) /\ Timely(Aged(s), FALSE)
  <2>1. \A i \in DOMAIN s : s[i].rounds >= i
    BY <1>2 DEF Timely
  <2>2. \A i \in DOMAIN s : s[i].rounds >= i - 1 /\ s[i].rounds - 1 >= i - 1
    BY <1>1, <2>1
  <2> QED BY <2>2, AgedFacts DEF Timely
<1>3. ASSUME Timely(s, FALSE), s # <<>> PROVE Timely(Tail(s), TRUE)
  <2>1. \A i \in DOMAIN s : s[i].rounds >= i - 1
    BY <1>3 DEF Timely
  <2>2. \A i \in DOMAIN Tail(s) : i + 1 \in DOMAIN s /\ Tail(s)[i] = s[i + 1]
    BY <1>3, TailFacts
  <2>3. ASSUME NEW i \in DOMAIN Tail(s) PROVE Tail(s)[i].rounds >= i
    <3>1. i \in Int
      BY <1>1, <1>3
    <3>2. s[i + 1].rounds >= (i + 1) - 1
      BY <2>1, <2>2
    <3>3. (i + 1) - 1 = i
      BY <3>1
    <3> QED BY <2>2, <3>2, <3>3
  <2> QED BY <2>3 DEF Timely
<1>4. s = <<>> => Timely(s, TRUE)
  BY DEF Timely
<1> QED BY <1>2, <1>3, <1>4

LEMMA TurnStep ==
  ASSUME KeptInv, InTurn, [LoopNext]_loopVars
  PROVE  InTurn'
<1>0. /\ queues \in [Socket -> Seq(Entry)] /\ index \in Nat \ {0}
      /\ \A q \in Socket : queues[q] \in Seq(Entry)
  BY DEF KeptInv, LoopTypeOK
<1>i. \A q \in Socket : q.protocol # "tcp" => (Done(q) => Timely(queues[q], TRUE))
                                              /\ (~Done(q) => Timely(queues[q], FALSE))
  BY DEF InTurn, Timely
<1>f. \A q \in Socket : q.protocol # "tcp" => Timely(queues[q], FALSE)
  BY <1>0, <1>i, TimelyFacts
<1>s. SUFFICES ASSUME NEW q \in Socket, q.protocol # "tcp"
               PROVE  /\ Done(q)' => Timely(queues'[q], TRUE)
                      /\ ~Done(q)' => Timely(queues'[q], FALSE)
  BY DEF InTurn, Timely
<1>1. ASSUME queues'[q] = queues[q], Done(q)' => Done(q)
      PROVE  /\ Done(q)' => Timely(queues'[q], TRUE)
             /\ ~Done(q)' => Timely(queues'[q], FALSE)
  BY <1>i, <1>f, <1>s, <1>1
<1>2. CASE ReceiveUdp
  <2> DEFINE u == SocketOf("udp", UdpPorts[index])
  <2>1. /\ stage = "udp" /\ stage' = "udp" /\ index' = index + 1 /\ ReceiveFrom(u)
    BY <1>2 DEF ReceiveUdp, Goto
  <2>2. CASE q = u
    <3>1. Timely(queues'[q], TRUE)
      <4>1. CASE queues[q] = <<>>
        BY <1>0, <2>1, <2>2, <4>1, TimelyFacts DEF ReceiveFrom
      <4>2. CASE queues[q] # <<>>
        <5>1. queues'[q] = Tail(queues[q])
          BY <1>0, <2>1, <2>2, <4>2 DEF ReceiveFrom
        <5> QED BY <1>0, <1>f, <1>s, <4>2, <5>1, TimelyFacts
      <4> QED BY <4>1, <4>2
    <3>2. queues'[q] \in Seq(Entry)
      BY <1>2, ReceiveUdpKeeps DEF KeptInv, LoopTypeOK
    <3> QED BY <3>1, <3>2, TimelyFacts
  <2>3. CASE q # u
    <3>1. queues'[q] = queues[q]
      BY <1>0, <2>1, <2>3 DEF ReceiveFrom
    <3>2. Done(q)' => Done(q)
      <4> SUFFICES ASSUME Done(q)' PROVE Done(q)
        OBVIOUS
      <4>1. PICK j \in 1 .. Len(UdpPorts) : j < index + 1 /\ UdpPorts[j] = q.port
        BY <2>1 DEF Done
      <4>2. q.protocol = "udp" /\ q = SocketOf("udp", q.port)
        BY StepFacts DEF Done
      <4>3. j # index
        BY <2>3, <4>1, <4>2
      <4>4. j < index
        BY <1>0, <4>1, <4>3
      <4> QED BY <2>1, <4>1, <4>2, <4>4 DEF Done
    <3> QED BY <1>1, <3>1, <3>2
  <2> QED BY <2>2, <2>3
<1>3. CASE ReadClock
  <2>1. stage = "udp" /\ index > Len(UdpPorts) /\ queues' = queues
    BY <1>3 DEF ReadClock
  <2>2. ASSUME q.protocol = "udp" PROVE Done(q)
    <3>1. PICK j \in 1 .. Len(UdpPorts) : UdpPorts[j] = q.port
      BY <2>2, PortsFacts DEF UdpPorts
    <3>2. j < index
      <4>1. Len(UdpPorts) \in Nat
        BY PortsFacts DEF UdpPorts
      <4> QED BY <1>0, <2>1, <4>1
    <3> QED BY <2>1, <2>2, <3>1, <3>2 DEF Done
  <2>3. Done(q)' => Done(q)
    BY <2>2 DEF Done
  <2> QED BY <1>1, <2>1, <2>3
<1>4. CASE ReceiveIcmp
  <2>1. stage = "icmp" /\ stage' = "udp" /\ index' = 1
    BY <1>4 DEF ReceiveIcmp, Goto
  <2>2. ~Done(q)'
    <3>1. \A j \in 1 .. Len(UdpPorts) : ~(j < 1)
      BY PortsFacts DEF UdpPorts
    <3> QED BY <2>1, <3>1 DEF Done
  <2>3. Timely(queues'[q], FALSE)
    <3>1. CASE q.protocol = "icmp" /\ queues[q] # <<>>
      <4>1. queues'[q] = Aged(Tail(queues[q]))
        BY <1>4, <3>1, IcmpQueues
      <4>2. Tail(queues[q]) \in Seq(Entry) /\ Timely(Tail(queues[q]), TRUE)
        BY <1>0, <1>f, <1>s, <3>1, TailFacts, TimelyFacts
      <4> QED BY <4>1, <4>2, TimelyFacts
    <3>2. CASE q.protocol = "icmp" /\ queues[q] = <<>>
      <4>1. queues'[q] = Aged(queues[q])
        BY <1>4, <1>s, <3>2, IcmpQueues
      <4> QED BY <1>0, <3>2, <4>1, TimelyFacts
    <3>3. CASE q.protocol # "icmp"
      <4>1. queues'[q] = Aged(queues[q])
        BY <1>4, <1>s, <3>3, IcmpQueues
      <4>2. q.protocol = "udp"
        <5>1. q.protocol \in {"udp", "tcp", "icmp"}
          BY StepFacts
        <5> QED BY <1>s, <3>3, <5>1
      <4>3. Timely(queues[q], TRUE)
        BY <1>i, <2>1, <4>2 DEF Done
      <4> QED BY <1>0, <4>1, <4>3, TimelyFacts
    <3> QED BY <3>1, <3>2, <3>3
  <2> QED BY <2>2, <2>3
<1>5. ASSUME NEW p \in Packet, Arrive(p)
      PROVE  /\ Done(q)' => Timely(queues'[q], TRUE)
             /\ ~Done(q)' => Timely(queues'[q], FALSE)
  <2> DEFINE s == queues[q]
             e == [packet |-> p, rounds |-> Len(s) + 1]
  <2>1. UNCHANGED <<stage, index>>
        /\ queues'[q] = IF q = SocketOf(p.protocol, p.port) THEN Append(s, e) ELSE s
    BY <1>0, <1>5 DEF Arrive
  <2>2. Done(q)' <=> Done(q)
    BY <2>1 DEF Done
  <2>3. CASE q = SocketOf(p.protocol, p.port)
    <3>1. s \in Seq(Entry) /\ Len(s) \in Nat
      BY <1>0
    <3> HIDE DEF s
    <3>2. e \in Entry /\ e.rounds = Len(s) + 1
      BY <3>1 DEF Entry
    <3> HIDE DEF e
    <3>3. \A i \in DOMAIN Append(s, e) :
            \/ i \in DOMAIN s /\ Append(s, e)[i] = s[i]
            \/ i = Len(s) + 1 /\ Append(s, e)[i] = e
      BY <3>1, <3>2, AppendFacts
    <3>4. Timely(s, TRUE) => Timely(Append(s, e), TRUE)
      BY <3>1, <3>2, <3>3 DEF Timely
    <3>5. Timely(s, FALSE) => Timely(Append(s, e), FALSE)
      BY <3>1, <3>2, <3>3 DEF Timely
    <3> QED BY <1>i, <1>s, <2>1, <2>2, <2>3, <3>4, <3>5 DEF s
  <2>4. CASE q # SocketOf(p.protocol, p.port)
    BY <1>1, <2>1, <2>2, <2>4
  <2> QED BY <2>3, <2>4
<1>6. CASE Accept
  <2>1. stage = "accept" /\ stage' = "accept"
    BY <1>6 DEF Accept, Goto
  <2>2. queues'[q] = queues[q]
    <3>1. SocketOf("tcp", TcpPorts[index]).protocol = "tcp"
      BY DEF SocketOf
    <3> QED BY <1>0, <1>s, <1>6, <3>1 DEF Accept
  <2> QED BY <1>1, <2>1, <2>2 DEF Done
<1>7. CASE StartPass \/ ReadKnock \/ ReadTimesOut \/ ReadNothing \/ EndPass
  <2>1. stage \in {"accept", "read"} /\ queues' = queues
    BY <1>7 DEF StartPass, ReadKnock, ReadTimesOut, ReadNothing, EndPass, AtPending
  <2> QED BY <1>1, <2>1 DEF Done
<1>8. CASE ReadFails \/ Stop
  <2>1. stage' \in {"stopped", "failed"} /\ queues' = queues
    BY <1>8 DEF ReadFails, Stop
  <2> QED BY <1>1, <2>1 DEF Done
<1>9. CASE Tick \/ UNCHANGED loopVars \/ \E c \in Connection : ClientActs(c)
  <2>1. UNCHANGED <<stage, index, queues>>
    BY <1>9 DEF Tick, loopVars, ClientActs
  <2> QED BY <1>1, <2>1 DEF Done
<1> QED BY <1>2, <1>3, <1>4, <1>5, <1>6, <1>7, <1>8, <1>9 DEF LoopNext, LoopStep

-------------------------------------------------------------------------------
(* The theorems *)

LEMMA PassAndTurnInit == LoopInit => PassInv /\ InTurn
<1> SUFFICES ASSUME LoopInit PROVE PassInv /\ InTurn
  OBVIOUS
<1>1. PassInv
  BY DEF LoopInit, PassInv, NoOverdueSurvives
<1>2. \A q \in Socket : DOMAIN queues[q] = {}
  BY DEF LoopInit
<1> QED BY <1>1, <1>2 DEF InTurn

LEMMA LoopInvAlways == LoopSpec => [](KeptInv /\ PassInv /\ InTurn)
<1>1. PassInv /\ InTurn /\ KeptInv /\ [LoopNext]_loopVars => (PassInv /\ InTurn)'
  BY PassStep, TurnStep
<1> QED BY <1>1, PassAndTurnInit, KeptAlways, PTL DEF LoopSpec

\* Every reachable state of the loop is well typed, and pending_tcp never holds
\* more connections than max_partial_states (src/server.rs:161-163).
THEOREM LoopTypeCorrect == LoopSpec => []LoopTypeOK
<1>1. KeptInv => LoopTypeOK
  BY DEF KeptInv
<1> QED BY <1>1, KeptAlways, PTL

\* When a pass over pending_tcp ends, no connection in it is past its deadline,
\* although every removal moves one to another place (src/server.rs:181-195).
THEOREM PassMissesNone == LoopSpec => []NoOverdueSurvives
<1>1. PassInv => NoOverdueSurvives
  BY DEF PassInv
<1> QED BY <1>1, LoopInvAlways, PTL

\* A datagram is received at the latest in the iteration that its place in the
\* queue gives it, however many sockets there are (src/server.rs:149-157, 196-211).
THEOREM DatagramsInTurn == LoopSpec => []ServedInTurn
<1>1. KeptInv /\ InTurn => ServedInTurn
  <2> SUFFICES ASSUME KeptInv, InTurn, NEW q \in Socket, q.protocol # "tcp",
                      NEW i \in DOMAIN queues[q]
               PROVE  queues[q][i].rounds >= 0
    BY DEF ServedInTurn
  <2>1. queues[q] \in Seq(Entry)
    BY DEF KeptInv, LoopTypeOK
  <2>2. queues[q][i] \in Entry /\ i \in Nat \ {0}
    BY <2>1
  <2>3. queues[q][i].rounds \in Int
    BY <2>2 DEF Entry
  <2>4. queues[q][i].rounds >= i \/ queues[q][i].rounds >= i - 1
    BY DEF InTurn
  <2> QED BY <2>2, <2>3, <2>4
<1> QED BY <1>1, LoopInvAlways, PTL

\* A connection leaves the loop unhandled only when its client sent nothing and
\* did not close (the order of the two arms, src/server.rs:184-193).
THEOREM SilentDropped == LoopSpec => OnlySilentDropped
<1>1. KeptInv /\ [LoopNext]_loopVars => [DropsSilent]_loopVars
  BY KeptInvStep
<1>2. OnlySilentDropped <=> [][DropsSilent]_loopVars
  BY DEF OnlySilentDropped, DropsSilent
<1> HIDE DEF DropsSilent
<1> QED BY <1>1, <1>2, KeptAlways, PTL DEF LoopSpec

\* The loop implements the mailbox that the packet path relies on: each step is
\* one of Mailbox or changes nothing of it, for every sequence and every set of
\* packets (src/server.rs:148-211).
THEOREM LoopIsMailbox == LoopSpec => IsMailbox
<1>1. LoopInit => Box!Init
  <2> SUFFICES ASSUME LoopInit PROVE Box!Init
    OBVIOUS
  <2>1. Running /\ sent = {} /\ handled = {} /\ calls = 0
    BY DEF LoopInit, Running
  <2> QED BY <2>1 DEF Box!Init
<1>2. KeptInv /\ [LoopNext]_loopVars => [Box!Next]_(Box!mailboxVars)
  BY KeptInvStep DEF BoxStep
<1>3. IsMailbox <=> Box!Init /\ [][Box!Next]_(Box!mailboxVars)
  BY DEF IsMailbox, Box!Spec
<1> QED BY <1>1, <1>2, <1>3, KeptAlways, PTL DEF LoopSpec

================================================================================
