--------------------------- MODULE KnockTrackerProofs ---------------------------
(***************************************************************************)
(* What holds of the tracker for every set of sources, every sequence and  *)
(* every value of the limits: its types, the bound on partial states, and  *)
(* that a packet only touches the state of its own source.                 *)
(***************************************************************************)
EXTENDS KnockTracker, FiniteSetTheorems, TLAPS

-------------------------------------------------------------------------------
(* HashMap operations *)

\* insert puts the value under the key and leaves every other key alone.
LEMMA InsertFacts ==
  ASSUME NEW m, NEW key, NEW value
  PROVE  /\ DOMAIN Insert(m, key, value) = DOMAIN m \cup {key}
         /\ Insert(m, key, value)[key] = value
         /\ \A x \in DOMAIN m \ {key} : Insert(m, key, value)[x] = m[x]
BY DEF Insert

\* remove takes the key out and leaves every other key alone.
LEMMA WithoutFacts ==
  ASSUME NEW m, NEW key
  PROVE  /\ DOMAIN Without(m, key) = DOMAIN m \ {key}
         /\ \A x \in DOMAIN m \ {key} : Without(m, key)[x] = m[x]
BY DEF Without, Restrict

\* expire removes entries and changes none.
LEMMA LiveFacts ==
  /\ DOMAIN Live \subseteq DOMAIN states
  /\ \A x \in DOMAIN Live : Live[x] = states[x]
BY DEF Live, Expire, Restrict

-------------------------------------------------------------------------------
(* A well-formed table, and one that is also within its capacity *)

Table(st) == /\ DOMAIN st \subseteq Source
             /\ \A s \in DOMAIN st : st[s] \in SourceState

Bounded(st) == IsFiniteSet(DOMAIN st) /\ Size(st) <= MaxPartialStates

\* The table part of the type invariant, by itself.
LEMMA TypeOKTable == TypeOK => Table(states) /\ Table(Live)
BY LiveFacts DEF TypeOK, Table

\* Removing an entry keeps a table well formed and within its capacity.
LEMMA WithoutTable ==
  ASSUME NEW st, NEW s
  PROVE  /\ Table(st) => Table(Without(st, s))
         /\ Bounded(st) => Bounded(Without(st, s))
<1>0. /\ DOMAIN Without(st, s) = DOMAIN st \ {s}
      /\ \A x \in DOMAIN st \ {s} : Without(st, s)[x] = st[x]
  BY WithoutFacts
<1>1. Table(st) => Table(Without(st, s))
  BY <1>0 DEF Table
<1>2. ASSUME Bounded(st) PROVE Bounded(Without(st, s))
  <2>1. DOMAIN Without(st, s) \subseteq DOMAIN st
    BY <1>0
  <2>2. IsFiniteSet(DOMAIN Without(st, s)) /\ Size(Without(st, s)) <= Size(st)
    BY <1>2, <2>1, FS_Subset DEF Bounded, Size
  <2>3. Size(st) \in Nat /\ Size(Without(st, s)) \in Nat
    BY <1>2, <2>2, FS_CardinalityType DEF Bounded, Size
  <2> QED
    BY <1>2, <2>2, <2>3, TrackerAssumption DEF Bounded
<1> QED
  BY <1>1, <1>2

\* Overwriting an entry never grows the table.
LEMMA OverwriteBounded ==
  ASSUME NEW st, NEW s \in DOMAIN st, NEW v, Bounded(st)
  PROVE  Bounded(Insert(st, s, v))
<1>1. DOMAIN Insert(st, s, v) = DOMAIN st \cup {s}
  BY InsertFacts
<1> QED
  BY <1>1 DEF Bounded, Size

\* start_partial_state keeps the table well formed and within its capacity.
LEMMA StartTable ==
  ASSUME NEW st, NEW s \in Source, Table(st), Bounded(st), now \in Nat,
         Len(Sequence) > 1, StartPartialState(st, s)
  PROVE  Table(states') /\ Bounded(states') /\ outcome' \in Outcomes
<1> DEFINE v == [next_step |-> 1, first_seen |-> now, last_seen |-> now]
<1>0. Len(Sequence) \in Nat
  BY TrackerAssumption
<1>1. v \in SourceState
  BY <1>0 DEF SourceState
<1> HIDE DEF v
<1>2. CASE s \notin DOMAIN st /\ Size(st) >= MaxPartialStates
  BY <1>2 DEF StartPartialState, Outcomes
<1>3. CASE ~(s \notin DOMAIN st /\ Size(st) >= MaxPartialStates)
  <2>1. states' = Insert(st, s, v) /\ outcome' = "progress"
    BY <1>3 DEF StartPartialState, v
  <2>2. /\ DOMAIN states' = DOMAIN st \cup {s}
        /\ states'[s] = v
        /\ \A x \in DOMAIN st \ {s} : states'[x] = st[x]
    BY <2>1 DEF Insert
  <2>3. Table(states')
    BY <2>2, <1>1 DEF Table
  <2>4. Bounded(states')
    <3>1. CASE s \in DOMAIN st
      BY <3>1, <2>1, OverwriteBounded
    <3>2. CASE s \notin DOMAIN st
      <4>1. DOMAIN states' = DOMAIN st \cup {s}
        BY <2>2
      <4>2. IsFiniteSet(DOMAIN states') /\ Size(states') = Size(st) + 1
        BY <4>1, <3>2, FS_AddElement DEF Bounded, Size
      <4>3. Size(st) \in Nat
        BY FS_CardinalityType DEF Bounded, Size
      <4> QED
        BY <4>2, <4>3, <3>2, <1>3, TrackerAssumption DEF Bounded
    <3> QED
      BY <3>1, <3>2
  <2> QED
    BY <2>1, <2>3, <2>4 DEF Outcomes
<1> QED
  BY <1>2, <1>3

-------------------------------------------------------------------------------
(* Every packet keeps the invariant *)

\* TypeOK and PartialStatesBounded are inductive once the table is known to be
\* finite: Size says nothing of an infinite one.
IInv == TypeOK /\ IsFiniteSet(DOMAIN states) /\ PartialStatesBounded

\* IInv is a well-formed, bounded table beside a clock and an answer.
LEMMA IInvTable == IInv <=> /\ Table(states) /\ Bounded(states)
                            /\ now \in Nat /\ outcome \in Outcomes
BY DEF IInv, TypeOK, Table, Bounded, PartialStatesBounded

\* Expiry keeps the table within its capacity.
LEMMA LiveBounded == Bounded(states) => Bounded(Live)
<1> SUFFICES ASSUME Bounded(states) PROVE Bounded(Live)
  OBVIOUS
<1>1. IsFiniteSet(DOMAIN Live) /\ Size(Live) <= Size(states)
  BY LiveFacts, FS_Subset DEF Bounded, Size
<1>2. Size(states) \in Nat /\ Size(Live) \in Nat
  BY <1>1, FS_CardinalityType DEF Bounded, Size
<1> QED
  BY <1>1, <1>2, TrackerAssumption DEF Bounded

\* A packet of any source leaves a well-formed table within its capacity: the
\* five ways through process (src/knock.rs:69-111).
LEMMA ProcessTable ==
  ASSUME NEW s \in Source, NEW k \in Knock, Process(s, k),
         Table(states), Bounded(states), now \in Nat
  PROVE  Table(states') /\ Bounded(states') /\ outcome' \in Outcomes
<1> DEFINE Good == Table(states') /\ Bounded(states') /\ outcome' \in Outcomes
<1>0. Len(Sequence) \in Nat \ {0}
  BY TrackerAssumption
<1>1. Table(Live) /\ Bounded(Live)
  BY LiveFacts, LiveBounded DEF Table
<1>2. Table(Without(Live, s)) /\ Bounded(Without(Live, s))
  BY <1>1, WithoutTable
<1>3. ASSUME Oversized(s, k) PROVE Good
  BY <1>2, <1>3 DEF Oversized, Outcomes
<1>4. ASSUME Restart(s, k) PROVE Good
  <2>1. CASE MatchesStep(0, k)
    <3>1. StartPartialState(Without(Live, s), s)
      BY <1>4, <2>1 DEF Restart, StartOrReject
    <3>2. CASE Len(Sequence) > 1
      BY <3>1, <3>2, <1>2, StartTable
    <3>3. CASE ~(Len(Sequence) > 1)
      <4>1. ~InStep(s, k) /\ Expected(s) # 0
        BY <1>4, <2>1, <1>0 DEF Restart, StartOrReject, InStep
      <4>2. s \in DOMAIN Live /\ Live[s] \in SourceState
        BY <4>1, <1>1 DEF Expected, Table
      <4> QED
        BY <4>2, <3>3, <1>0 DEF SourceState
    <3> QED
      BY <3>2, <3>3
  <2>2. CASE ~MatchesStep(0, k)
    BY <1>4, <2>2, <1>2 DEF Restart, StartOrReject, Outcomes
  <2> QED
    BY <2>1, <2>2
<1>5. ASSUME Begin(s, k) PROVE Good
  BY <1>5, <1>0, <1>1, StartTable DEF Begin
<1>6. ASSUME Advance(s, k) PROVE Good
  <2>1. Expected(s) > 0 /\ Expected(s) + 1 # Len(Sequence)
    BY <1>6 DEF Advance
  <2>2. s \in DOMAIN Live /\ Expected(s) = Live[s].next_step
    BY <2>1 DEF Expected
  <2>3. Live[s] \in SourceState
    BY <2>2, <1>1 DEF Table
  <2> DEFINE v == [next_step |-> Expected(s) + 1,
                    first_seen |-> Live[s].first_seen, last_seen |-> now]
  <2>4. v \in SourceState
    <3>1. /\ Live[s].next_step \in 1 .. Len(Sequence) - 1
          /\ Live[s].first_seen \in Nat
      BY <2>3 DEF SourceState
    <3>2. Expected(s) + 1 \in 1 .. Len(Sequence) - 1
      BY <3>1, <2>1, <2>2, <1>0
    <3> QED
      BY <3>1, <3>2 DEF SourceState
  <2>5. states' = Insert(Live, s, v) /\ outcome' = "progress"
    BY <1>6 DEF Advance
  <2> HIDE DEF v
  <2>6. Table(Insert(Live, s, v))
    BY <2>4, <1>1 DEF Insert, Table
  <2>7. Bounded(Insert(Live, s, v))
    BY <2>2, <1>1, OverwriteBounded
  <2> QED
    BY <2>5, <2>6, <2>7 DEF Outcomes
<1>7. ASSUME Accept(s, k) PROVE Good
  BY <1>2, <1>7 DEF Accept, Outcomes
<1> QED
  BY <1>3, <1>4, <1>5, <1>6, <1>7 DEF Process

-------------------------------------------------------------------------------
(* The theorems *)

LEMMA InitIInv == Init => IInv
<1> SUFFICES ASSUME Init PROVE IInv
  OBVIOUS
<1>1. DOMAIN states = {}
  BY DEF Init, EmptyMap
<1>2. IsFiniteSet(DOMAIN states) /\ Size(states) = 0
  BY <1>1, FS_EmptySet DEF Size
<1> QED
  BY <1>1, <1>2, TrackerAssumption
  DEF Init, IInv, TypeOK, Outcomes, PartialStatesBounded

LEMMA NextIInv == IInv /\ [Next]_trackerVars => IInv'
<1> SUFFICES ASSUME IInv, [Next]_trackerVars PROVE IInv'
  OBVIOUS
<1>0. Table(states) /\ Bounded(states) /\ now \in Nat /\ outcome \in Outcomes
  BY IInvTable
<1> SUFFICES /\ Table(states') /\ Bounded(states')
             /\ now' \in Nat /\ outcome' \in Outcomes
  BY DEF IInv, TypeOK, Table, Bounded, PartialStatesBounded
<1>1. CASE Tick
  BY <1>0, <1>1 DEF Tick
<1>2. ASSUME NEW s \in Source, NEW k \in Knock, Receive(s, k)
      PROVE  Table(states') /\ Bounded(states') /\ now' \in Nat /\ outcome' \in Outcomes
  BY <1>0, <1>2, ProcessTable DEF Receive
<1>3. CASE UNCHANGED trackerVars
  BY <1>0, <1>3 DEF trackerVars
<1> QED
  BY <1>1, <1>2, <1>3 DEF Next

\* Every reachable state of the tracker is well typed.
THEOREM TypeCorrect == Spec => []TypeOK
<1>1. IInv => TypeOK
  BY DEF IInv
<1> QED
  BY <1>1, InitIInv, NextIInv, PTL DEF Spec

\* However many sources there are, a table of partial states never holds more
\* than max_partial_states entries (src/knock.rs:130).
THEOREM StatesBounded == Spec => []PartialStatesBounded
<1>1. IInv => PartialStatesBounded
  BY DEF IInv
<1> QED
  BY <1>1, InitIInv, NextIInv, PTL DEF Spec

\* A packet leaves the entries of every other source as expiry left them.
LEMMA ProcessTouchesOwnSource ==
  ASSUME NEW s \in Source, NEW k \in Knock, Process(s, k), NEW q \in Source \ {s}
  PROVE  /\ q \in DOMAIN states' <=> q \in DOMAIN Live
         /\ q \in DOMAIN Live => states'[q] = Live[q]
<1> DEFINE Same(st) == /\ q \in DOMAIN st <=> q \in DOMAIN Live
                       /\ q \in DOMAIN Live => st[q] = Live[q]
<1>1. \A v : Same(Insert(Live, s, v))
  BY DEF Insert
<1> DEFINE w == Without(Live, s)
<1>2. /\ DOMAIN w = DOMAIN Live \ {s}
      /\ \A x \in DOMAIN Live \ {s} : w[x] = Live[x]
  BY WithoutFacts
<1> HIDE DEF w
<1>3. Same(w)
  BY <1>2
<1>4. \A v : Same(Insert(w, s, v))
  BY <1>2 DEF Insert
<1>5. states' = w \/ states' = Live
      \/ (\E v : states' = Insert(Live, s, v)) \/ (\E v : states' = Insert(w, s, v))
  BY DEF Process, Oversized, Restart, StartOrReject, Begin, Advance, Accept, StartPartialState, w
<1> QED
  BY <1>1, <1>3, <1>4, <1>5

\* No packet creates, advances or drops the partial state of another source;
\* a full table refuses the newcomer and keeps what it holds.
THEOREM OtherSourcesKept == Spec => OneSourcePerPacket
<1> DEFINE A == \E s \in Source : \A q \in Source \ {s} :
                  /\ q \in DOMAIN states' <=> q \in DOMAIN Live
                  /\ q \in DOMAIN Live => states'[q] = Live[q]
<1>1. [Next]_trackerVars => [A]_states
  BY ProcessTouchesOwnSource DEF Next, Receive, Tick, trackerVars
<1> QED
  BY <1>1, PTL DEF Spec, OneSourcePerPacket
=================================================================================
