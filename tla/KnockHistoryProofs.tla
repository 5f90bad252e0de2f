--------------------------- MODULE KnockHistoryProofs ---------------------------
(***************************************************************************)
(* The soundness of acceptance, for every sequence, every number of        *)
(* sources and every value of the limits.                                  *)
(***************************************************************************)
EXTENDS KnockHistory, KnockTrackerProofs

\* A stored partial state never claims steps that were not sent, and the
\* history is well typed: together they are inductive.
HInv == IInv /\ HTypeOK /\ PrefixInv

\* The register after a packet k of the watched source.
Shifted(k) ==
  heard' = [i \in 1 .. N |-> IF i < N THEN heard[i + 1]
                             ELSE [knock |-> k, at |-> now, answer |-> outcome']]

\* One more matching step, in time, makes the matched suffix one longer and
\* leaves its first instant where it was.
LEMMA ShiftMatched ==
  ASSUME HTypeOK, NEW k \in Knock, Shifted(k), NEW m \in 0 .. N - 1,
         MatchesStep(m, k),
         m > 0 => /\ Matched(m) /\ Timely(m)
                  /\ now - heard[N].at <= PartialStateTimeout
                  /\ now - Back(m, 1).at <= SequenceWindow
  PROVE  /\ Matched(m + 1)'
         /\ Timely(m + 1)'
         /\ heard'[N].at = now
         /\ Back(m + 1, 1)'.at = IF m = 0 THEN now ELSE Back(m, 1).at
<1>1. N \in Nat \ {0} /\ m \in Nat /\ m + 1 <= N
  BY TrackerAssumption DEF N
<1>2. now \in Nat /\ heard \in [1 .. N -> Heard] /\ \A i \in 1 .. N : heard[i].at \in Nat
  BY DEF HTypeOK, TypeOK, Heard
<1>3. \A i \in 1 .. N : heard'[i] = IF i < N THEN heard[i + 1]
                             ELSE [knock |-> k, at |-> now, answer |-> outcome']
  BY DEF Shifted
<1>4. heard'[N].knock = k /\ heard'[N].at = now
  BY <1>1, <1>3
<1>5. \A i \in 1 .. m : heard'[N - (m + 1) + i] = heard[N - m + i]
  <2> SUFFICES ASSUME NEW i \in 1 .. m
               PROVE  heard'[N - (m + 1) + i] = heard[N - m + i]
    OBVIOUS
  <2>1. /\ N - (m + 1) + i \in 1 .. N
        /\ N - (m + 1) + i < N
        /\ N - (m + 1) + i + 1 = N - m + i
    BY <1>1
  <2> QED
    BY <1>3, <2>1
<1>6. N - (m + 1) + (m + 1) = N
  BY <1>1
<1>7. k = Sequence[m + 1]
  BY DEF MatchesStep
<1>8. SequenceWindow \in Nat /\ PartialStateTimeout \in Nat
  BY TrackerAssumption
<1>9. \A i \in 1 .. m : Back(m + 1, i)' = Back(m, i)
  BY <1>5 DEF Back, N
<1>10. Back(m + 1, m + 1)' = heard'[N]
  BY <1>6 DEF Back, N
<1>11. \A i \in 1 .. m + 1 : i \in 1 .. m \/ i = m + 1
  BY <1>1
<1>12. Matched(m + 1)'
  <2> SUFFICES ASSUME NEW i \in 1 .. m + 1
               PROVE  Back(m + 1, i)'.knock = Sequence[i]
    BY DEF Matched
  <2>1. CASE i \in 1 .. m
    <3>1. m > 0
      BY <2>1, <1>1
    <3> QED
      BY <2>1, <3>1, <1>9 DEF Matched
  <2>2. CASE i = m + 1
    BY <2>2, <1>4, <1>7, <1>10
  <2> QED
    BY <2>1, <2>2, <1>11
<1>13. Back(m + 1, 1)'.at = IF m = 0 THEN now ELSE Back(m, 1).at
  <2>1. CASE m = 0
    BY <2>1, <1>4, <1>10
  <2>2. CASE m # 0
    <3>1. 1 \in 1 .. m
      BY <2>2, <1>1
    <3> QED
      BY <2>2, <3>1, <1>9
  <2> QED
    BY <2>1, <2>2
<1>14. Timely(m + 1)'
  <2>1. ASSUME NEW i \in 1 .. m
        PROVE  Back(m + 1, i + 1)'.at - Back(m + 1, i)'.at <= PartialStateTimeout
    <3>1. m > 0
      BY <1>1
    <3>2. CASE i < m
      <4>1. i \in 1 .. m - 1 /\ i + 1 \in 1 .. m
        BY <3>2, <1>1
      <4>2. Back(m, i + 1).at - Back(m, i).at <= PartialStateTimeout
        BY <3>1, <4>1 DEF Timely
      <4> QED
        BY <4>1, <4>2, <1>9
    <3>3. CASE i = m
      <4>1. Back(m + 1, i)' = Back(m, m) /\ Back(m + 1, i + 1)' = heard'[N]
        BY <3>3, <1>9, <1>10
      <4>2. Back(m, m) = heard[N]
        BY <1>1 DEF Back
      <4> QED
        BY <4>1, <4>2, <3>1, <1>4
    <3> QED
      BY <3>2, <3>3
  <2>2. heard'[N].at - Back(m + 1, 1)'.at <= SequenceWindow
    BY <1>2, <1>4, <1>8, <1>13, <1>1
  <2>3. (m + 1) - 1 = m
    BY <1>1
  <2>4. \A i \in 1 .. (m + 1) - 1 :
          Back(m + 1, i + 1)'.at - Back(m + 1, i)'.at <= PartialStateTimeout
    BY <2>1, <2>3
  <2> QED
    BY <2>2, <2>4 DEF Timely, N
<1> QED
  BY <1>4, <1>12, <1>13, <1>14

\* What expiry leaves of the watched source still stands for its last packets,
\* and neither limit has been reached.
LEMMA LivePrefix ==
  ASSUME HInv, Watched \in DOMAIN Live
  PROVE  LET m == Expected(Watched)
         IN  /\ m \in 1 .. N - 1 /\ Live[Watched].next_step = m
             /\ Matched(m) /\ Timely(m)
             /\ Back(m, 1).at = Live[Watched].first_seen
             /\ now - heard[N].at <= PartialStateTimeout
             /\ now - Back(m, 1).at <= SequenceWindow
<1>1. Watched \in DOMAIN states /\ Live[Watched] = states[Watched]
  BY LiveFacts
<1>2. TrackedPrefix(Watched)
  BY <1>1 DEF HInv, PrefixInv
<1>3. states[Watched] \in SourceState
  BY <1>1 DEF HInv, HTypeOK, TypeOK
<1>4. Expected(Watched) = states[Watched].next_step
  BY <1>1 DEF Expected
<1>5. states[Watched].next_step \in 1 .. N - 1
  BY <1>3 DEF SourceState, N
<1>6. /\ now - states[Watched].last_seen <= PartialStateTimeout
      /\ now - states[Watched].first_seen <= SequenceWindow
  BY DEF Live, Expire, Restrict
<1> QED
  BY <1>1, <1>2, <1>4, <1>5, <1>6 DEF TrackedPrefix

\* A new partial state of the watched source stands for the packet that began it.
LEMMA StartPrefix ==
  ASSUME HTypeOK, NEW k \in Knock, Shifted(k), MatchesStep(0, k),
         NEW st, StartPartialState(st, Watched), Watched \notin DOMAIN st
  PROVE  PrefixInv'
<1> DEFINE v == [next_step |-> 1, first_seen |-> now, last_seen |-> now]
<1>1. CASE states' = st
  BY <1>1 DEF PrefixInv
<1>2. CASE states' = Insert(st, Watched, v)
  <2>1. states'[Watched] = v
    BY <1>2 DEF Insert
  <2>2. N \in Nat \ {0} /\ 0 \in 0 .. N - 1
    BY TrackerAssumption DEF N
  <2>3. /\ Matched(0 + 1)' /\ Timely(0 + 1)'
        /\ heard'[N].at = now /\ Back(0 + 1, 1)'.at = now
    BY <2>2, ShiftMatched
  <2>4. /\ Matched(1)' /\ Timely(1)' /\ Back(1, 1)'.at = now
    BY <2>3
  <2>5. /\ states'[Watched].next_step = 1
        /\ states'[Watched].first_seen = now /\ states'[Watched].last_seen = now
    BY <2>1
  <2>6. TrackedPrefix(Watched)'
    BY <2>3, <2>4, <2>5 DEF TrackedPrefix, N
  <2> QED
    BY <2>6 DEF PrefixInv
<1> QED
  BY <1>1, <1>2 DEF StartPartialState

\* A packet of the watched source keeps PrefixInv, and is accepted only at the
\* end of a complete knock.
LEMMA WatchedPacket ==
  ASSUME HInv, NEW k \in Knock, Process(Watched, k), Shifted(k)
  PROVE  /\ PrefixInv'
         /\ outcome' = "accepted" => Matched(N)' /\ Timely(N)'
<1> DEFINE Goal == /\ PrefixInv'
                   /\ outcome' = "accepted" => Matched(N)' /\ Timely(N)'
<1> DEFINE w == Without(Live, Watched)
<1>1. DOMAIN w = DOMAIN Live \ {Watched}
  BY WithoutFacts
<1>2. Watched \notin DOMAIN w
  BY <1>1
<1> HIDE DEF w
<1>3. states' = w => PrefixInv'
  BY <1>2 DEF PrefixInv
<1>4. HTypeOK /\ N \in Nat \ {0}
  BY TrackerAssumption DEF HInv, N
<1>5. ASSUME Oversized(Watched, k) PROVE Goal
  BY <1>3, <1>5 DEF Oversized, w
<1>6. ASSUME Restart(Watched, k) PROVE Goal
  <2>1. CASE MatchesStep(0, k)
    <3>1. StartPartialState(w, Watched)
      BY <1>6, <2>1 DEF Restart, StartOrReject, w
    <3>2. PrefixInv'
      BY <3>1, <2>1, <1>2, <1>4, StartPrefix
    <3> QED
      BY <3>1, <3>2 DEF StartPartialState
  <2>2. CASE ~MatchesStep(0, k)
    BY <1>3, <1>6, <2>2 DEF Restart, StartOrReject, w
  <2> QED
    BY <2>1, <2>2
<1>7. ASSUME Begin(Watched, k) PROVE Goal
  <2>1. Expected(Watched) = 0 /\ MatchesStep(0, k) /\ StartPartialState(Live, Watched)
    BY <1>7 DEF Begin, InStep
  <2>2. Watched \notin DOMAIN Live
    <3> SUFFICES ASSUME Watched \in DOMAIN Live PROVE FALSE
      OBVIOUS
    <3>1. Expected(Watched) \in 1 .. N - 1
      BY LivePrefix
    <3> QED
      BY <2>1, <3>1, <1>4
  <2>3. PrefixInv'
    BY <2>1, <2>2, <1>4, StartPrefix
  <2> QED
    BY <2>1, <2>3 DEF StartPartialState
<1>8. ASSUME Advance(Watched, k) PROVE Goal
  <2>0. PICK m : m = Expected(Watched)
    OBVIOUS
  <2>1. /\ m > 0 /\ MatchesStep(m, k) /\ outcome' = "progress"
        /\ states' = Insert(Live, Watched,
                       [next_step |-> m + 1, first_seen |-> Live[Watched].first_seen,
                        last_seen |-> now])
    BY <1>8, <2>0 DEF Advance, InStep
  <2>2. Watched \in DOMAIN Live
    BY <2>0, <2>1 DEF Expected
  <2>3. /\ m \in 1 .. N - 1 /\ Matched(m) /\ Timely(m)
        /\ Back(m, 1).at = Live[Watched].first_seen
        /\ now - heard[N].at <= PartialStateTimeout
        /\ now - Back(m, 1).at <= SequenceWindow
    BY <2>0, <2>2, LivePrefix
  <2>4. states'[Watched] = [next_step |-> m + 1, first_seen |-> Live[Watched].first_seen,
                            last_seen |-> now]
    BY <2>1 DEF Insert
  <2>5. m \in 0 .. N - 1 /\ m # 0
    BY <2>3, <1>4
  <2>6. /\ Matched(m + 1)' /\ Timely(m + 1)'
        /\ heard'[N].at = now /\ Back(m + 1, 1)'.at = Back(m, 1).at
    BY <2>1, <2>3, <2>5, <1>4, ShiftMatched
  <2>7. /\ states'[Watched].next_step = m + 1
        /\ states'[Watched].first_seen = Back(m, 1).at
        /\ states'[Watched].last_seen = now
    BY <2>3, <2>4
  <2>8. TrackedPrefix(Watched)'
    BY <2>6, <2>7 DEF TrackedPrefix, N
  <2> QED
    BY <2>1, <2>8 DEF PrefixInv
<1>9. ASSUME Accept(Watched, k) PROVE Goal
  <2>0. PICK m : m = Expected(Watched)
    OBVIOUS
  <2>1. m + 1 = N /\ MatchesStep(m, k) /\ states' = w
    BY <1>9, <2>0 DEF Accept, InStep, N, w
  <2>2. m \in 0 .. N - 1
        /\ (m > 0 => /\ Matched(m) /\ Timely(m)
                     /\ now - heard[N].at <= PartialStateTimeout
                     /\ now - Back(m, 1).at <= SequenceWindow)
    <3>1. CASE Watched \in DOMAIN Live
      <4>1. /\ m \in 1 .. N - 1 /\ Matched(m) /\ Timely(m)
            /\ now - heard[N].at <= PartialStateTimeout
            /\ now - Back(m, 1).at <= SequenceWindow
        BY <2>0, <3>1, LivePrefix
      <4> QED
        BY <4>1, <1>4
    <3>2. CASE Watched \notin DOMAIN Live
      BY <2>0, <3>2, <1>4 DEF Expected
    <3> QED
      BY <3>1, <3>2
  <2>3. Matched(m + 1)' /\ Timely(m + 1)'
    BY <2>1, <2>2, <1>4, ShiftMatched
  <2>4. Matched(N)' /\ Timely(N)'
    BY <2>1, <2>3
  <2> QED
    BY <2>1, <2>4, <1>3
<1> QED
  BY <1>5, <1>6, <1>7, <1>8, <1>9 DEF Process

-------------------------------------------------------------------------------
(* The theorems *)

LEMMA InitHInv == HInit => HInv
<1> SUFFICES ASSUME HInit PROVE HInv
  OBVIOUS
<1>1. IInv
  BY InitIInv DEF HInit
<1>2. heard \in [1 .. N -> Heard]
  BY TrackerAssumption DEF HInit, Heard, Outcomes
<1>3. DOMAIN states = {}
  BY DEF HInit, Init, EmptyMap
<1> QED
  BY <1>1, <1>2, <1>3 DEF HInv, HTypeOK, IInv, PrefixInv

\* A step of the history is a step of the tracker, and the register shifts
\* exactly when the packet is one of the watched source.
LEMMA HNextTracker == [HNext]_historyVars => [Next]_trackerVars
BY DEF HNext, HTick, HReceive, Next, historyVars, trackerVars

\* The register stays well typed.
LEMMA ShiftTyped ==
  ASSUME HTypeOK, NEW k \in Knock, Shifted(k), outcome' \in Outcomes
  PROVE  heard' \in [1 .. N -> Heard]
<1>1. N \in Nat \ {0} /\ now \in Nat /\ heard \in [1 .. N -> Heard]
  BY TrackerAssumption DEF N, HTypeOK, TypeOK
<1>2. [knock |-> k, at |-> now, answer |-> outcome'] \in Heard
  BY <1>1 DEF Heard
<1>3. \A i \in 1 .. N : i < N => heard[i + 1] \in Heard
  BY <1>1
<1> QED
  BY <1>1, <1>2, <1>3 DEF Shifted

\* A packet of another source leaves the watched one as it was.
LEMMA OtherPacket ==
  ASSUME HInv, NEW s \in Source, NEW k \in Knock, Process(s, k),
         s # Watched, heard' = heard
  PROVE  PrefixInv'
<1> SUFFICES ASSUME Watched \in DOMAIN states' PROVE TrackedPrefix(Watched)'
  BY DEF PrefixInv
<1>1. Watched \in DOMAIN Live /\ states'[Watched] = Live[Watched]
  BY HistoryAssumption, ProcessTouchesOwnSource
<1>2. Watched \in DOMAIN states /\ states'[Watched] = states[Watched]
  BY <1>1, LiveFacts
<1>3. TrackedPrefix(Watched)
  BY <1>2 DEF HInv, PrefixInv
<1> QED
  BY <1>2, <1>3 DEF TrackedPrefix, Matched, Timely, Back, N

LEMMA NextHInv == HInv /\ [HNext]_historyVars => HInv'
<1> SUFFICES ASSUME HInv, [HNext]_historyVars PROVE HInv'
  OBVIOUS
<1>1. IInv'
  BY NextIInv, HNextTracker DEF HInv
<1>2. heard \in [1 .. N -> Heard] /\ HTypeOK
  BY DEF HInv, HTypeOK
<1> SUFFICES heard' \in [1 .. N -> Heard] /\ PrefixInv'
  BY <1>1 DEF HInv, HTypeOK, IInv, N
<1>3. ASSUME UNCHANGED <<states, heard>> PROVE heard' \in [1 .. N -> Heard] /\ PrefixInv'
  BY <1>2, <1>3 DEF HInv, PrefixInv, TrackedPrefix, Matched, Timely, Back, N
<1>4. CASE HTick
  BY <1>3, <1>4 DEF HTick, Tick
<1>5. ASSUME NEW s \in Source, NEW k \in Knock, HReceive(s, k)
      PROVE  heard' \in [1 .. N -> Heard] /\ PrefixInv'
  <2>1. Process(s, k) /\ Record(s, k)
    BY <1>5 DEF HReceive, Receive
  <2>2. CASE s = Watched
    <3>1. Shifted(k)
      BY <2>1, <2>2 DEF Record, Shifted
    <3>2. outcome' \in Outcomes
      BY <1>1 DEF IInv, TypeOK
    <3> QED
      BY <1>2, <2>1, <2>2, <3>1, <3>2, WatchedPacket, ShiftTyped
  <2>3. CASE s # Watched
    BY <1>2, <2>1, <2>3, OtherPacket DEF Record
  <2> QED
    BY <2>2, <2>3
<1>6. CASE UNCHANGED historyVars
  BY <1>3, <1>6 DEF historyVars
<1> QED
  BY <1>4, <1>5, <1>6 DEF HNext

\* A stored partial state is backed by packets its source really sent.
THEOREM PrefixCorrect == HSpec => []PrefixInv
<1>1. HInv => PrefixInv
  BY DEF HInv
<1> QED
  BY <1>1, InitHInv, NextHInv, PTL DEF HSpec

\* No interleaving of packets of any number of sources makes process answer
\* "accepted" to a source that did not just complete the sequence in time.
THEOREM AcceptanceSound == HSpec => AcceptedOnlyAfterFullSequence
<1> DEFINE A == heard' # heard /\ outcome' = "accepted" => (Matched(N) /\ Timely(N))'
<1>1. ASSUME HInv, HNext PROVE A
  <2>1. CASE HTick
    BY <2>1 DEF HTick
  <2>2. ASSUME NEW s \in Source, NEW k \in Knock, HReceive(s, k) PROVE A
    <3>1. Process(s, k) /\ Record(s, k)
      BY <2>2 DEF HReceive, Receive
    <3>2. CASE s = Watched
      <4>1. Shifted(k)
        BY <3>1, <3>2 DEF Record, Shifted
      <4>2. outcome' = "accepted" => Matched(N)' /\ Timely(N)'
        BY <1>1, <3>1, <3>2, <4>1, WatchedPacket
      <4> QED
        BY <4>2
    <3>3. CASE s # Watched
      BY <3>1, <3>3 DEF Record
    <3> QED
      BY <3>2, <3>3
  <2> QED
    BY <1>1, <2>1, <2>2 DEF HNext
<1>2. HInv /\ [HNext]_historyVars => [A]_historyVars
  BY <1>1
<1> QED
  BY <1>2, InitHInv, NextHInv, PTL DEF HSpec, AcceptedOnlyAfterFullSequence

-------------------------------------------------------------------------------
(* The converse, for a sequence whose steps differ.  Validation makes UDP   *)
(* and TCP steps differ and bounds their size (src/config.rs:195-209).      *)

UnambiguousSequence ==
  /\ \A i, j \in 1 .. N : Sequence[i] = Sequence[j] => i = j
  /\ \A i \in 1 .. N : Sequence[i].size <= MaxPayloadSize

\* The clock has passed every recorded packet.
Past == \A i \in 1 .. N : heard[i].at <= now

\* The partial state stands for exactly the last m packets.
Tracks(m) ==
  /\ Watched \in DOMAIN states
  /\ states[Watched].next_step = m
  /\ states[Watched].first_seen = Back(m, 1).at
  /\ states[Watched].last_seen = heard[N].at

\* A matched, timely suffix that was begun with room in the table is tracked,
\* or it is already too late for its next step.
SuffixTracked ==
  \A m \in 1 .. N - 1 :
    Matched(m) /\ Timely(m) /\ Back(m, 1).answer = "progress"
      => \/ Tracks(m)
         \/ now - heard[N].at > PartialStateTimeout
         \/ now - Back(m, 1).at > SequenceWindow

CInv == HInv /\ Past /\ SuffixTracked

\* Reading the register one packet back: what a matched suffix was before its
\* last packet.
LEMMA UnshiftMatched ==
  ASSUME HTypeOK, Past, NEW k \in Knock, Shifted(k), NEW m \in 1 .. N - 1,
         Matched(m + 1)', Timely(m + 1)'
  PROVE  /\ Matched(m) /\ Timely(m)
         /\ now - heard[N].at <= PartialStateTimeout
         /\ now - Back(m, 1).at <= SequenceWindow
         /\ Back(m, 1) = Back(m + 1, 1)'
         /\ k = Sequence[m + 1]
<1>1. N \in Nat \ {0} /\ m \in Nat \ {0} /\ m + 1 <= N
  BY TrackerAssumption DEF N
<1>2. now \in Nat /\ \A i \in 1 .. N : heard[i].at \in Nat /\ heard[i].at <= now
  BY DEF HTypeOK, TypeOK, Heard, Past
<1>3. \A i \in 1 .. N : heard'[i] = IF i < N THEN heard[i + 1]
                             ELSE [knock |-> k, at |-> now, answer |-> outcome']
  BY DEF Shifted
<1>4. heard'[N].knock = k /\ heard'[N].at = now
  BY <1>1, <1>3
<1>5. \A i \in 1 .. m : heard'[N - (m + 1) + i] = heard[N - m + i]
  <2> SUFFICES ASSUME NEW i \in 1 .. m
               PROVE  heard'[N - (m + 1) + i] = heard[N - m + i]
    OBVIOUS
  <2>1. /\ N - (m + 1) + i \in 1 .. N
        /\ N - (m + 1) + i < N
        /\ N - (m + 1) + i + 1 = N - m + i
    BY <1>1
  <2> QED
    BY <1>3, <2>1
<1>6. N - (m + 1) + (m + 1) = N /\ N - m + m = N
  BY <1>1
<1>7. \A i \in 1 .. m : Back(m + 1, i)' = Back(m, i)
  BY <1>5 DEF Back, N
<1>8. Back(m + 1, m + 1)' = heard'[N] /\ Back(m, m) = heard[N]
  BY <1>6 DEF Back, N
<1>9. \A i \in 1 .. m + 1 : Back(m + 1, i)'.knock = Sequence[i]
  BY DEF Matched
<1>10. /\ \A i \in 1 .. m : Back(m + 1, i + 1)'.at - Back(m + 1, i)'.at <= PartialStateTimeout
       /\ heard'[N].at - Back(m + 1, 1)'.at <= SequenceWindow
  <2>1. (m + 1) - 1 = m
    BY <1>1
  <2> QED
    BY <2>1 DEF Timely, N
<1>11. Matched(m)
  <2>1. \A i \in 1 .. m : i \in 1 .. m + 1
    BY <1>1
  <2> QED
    BY <2>1, <1>7, <1>9 DEF Matched
<1>12. k = Sequence[m + 1]
  <2>1. m + 1 \in 1 .. m + 1
    BY <1>1
  <2> QED
    BY <2>1, <1>4, <1>8, <1>9
<1>13. 1 \in 1 .. m /\ m \in 1 .. m /\ Back(m, 1) = Back(m + 1, 1)'
  BY <1>1, <1>7
<1>14. now - heard[N].at <= PartialStateTimeout
  BY <1>4, <1>7, <1>8, <1>10, <1>13
<1>15. now - Back(m, 1).at <= SequenceWindow
  BY <1>4, <1>10, <1>13
<1>16. Timely(m)
  <2>1. ASSUME NEW i \in 1 .. m - 1
        PROVE  Back(m, i + 1).at - Back(m, i).at <= PartialStateTimeout
    <3>1. i \in 1 .. m /\ i + 1 \in 1 .. m
      BY <1>1
    <3> QED
      BY <3>1, <1>7, <1>10
  <2>2. heard[N].at - Back(m, 1).at <= SequenceWindow
    <3>1. N \in 1 .. N /\ N - m + 1 \in 1 .. N
      BY <1>1
    <3>2. heard[N].at \in Nat /\ heard[N].at <= now /\ Back(m, 1).at \in Nat
      BY <3>1, <1>2 DEF Back
    <3> QED
      BY <3>2, <1>2, <1>15, TrackerAssumption
  <2> QED
    BY <2>1, <2>2 DEF Timely
<1> QED
  BY <1>11, <1>12, <1>13, <1>14, <1>15, <1>16

\* A tracked suffix that is still in time survives expiry.
LEMMA TracksLive ==
  ASSUME HTypeOK, NEW m \in 1 .. N - 1, Tracks(m),
         now - heard[N].at <= PartialStateTimeout,
         now - Back(m, 1).at <= SequenceWindow
  PROVE  /\ Watched \in DOMAIN Live /\ Expected(Watched) = m
         /\ Live[Watched].first_seen = Back(m, 1).at
<1>1. Watched \in DOMAIN Live
  BY DEF Live, Expire, Restrict, Tracks
<1> QED
  BY <1>1, LiveFacts DEF Expected, Tracks

\* A packet of the watched source keeps SuffixTracked and, at the end of a
\* complete knock, is accepted.
LEMMA WatchedSuffix ==
  ASSUME UnambiguousSequence, CInv, NEW k \in Knock, Process(Watched, k), Shifted(k)
  PROVE  /\ SuffixTracked'
         /\ Matched(N)' /\ Timely(N)' /\ heard'[1].answer = "progress"
              => outcome' = "accepted"
<1>1. N \in Nat \ {0} /\ HTypeOK /\ Past /\ SuffixTracked /\ HInv
  BY TrackerAssumption DEF N, CInv, HInv
<1>2. heard'[N] = [knock |-> k, at |-> now, answer |-> outcome']
  BY <1>1 DEF Shifted
\* The step after a matched suffix that is in time is the expected one.
<1>3. ASSUME NEW m \in 1 .. N - 1, Matched(m + 1)', Timely(m + 1)',
             Back(m + 1, 1)'.answer = "progress"
      PROVE  /\ Expected(Watched) = m /\ Watched \in DOMAIN Live
             /\ Live[Watched].first_seen = Back(m + 1, 1)'.at
             /\ InStep(Watched, k) /\ k.size <= MaxPayloadSize
  <2>1. /\ Matched(m) /\ Timely(m)
        /\ now - heard[N].at <= PartialStateTimeout
        /\ now - Back(m, 1).at <= SequenceWindow
        /\ Back(m, 1) = Back(m + 1, 1)'
        /\ k = Sequence[m + 1]
    BY <1>1, <1>3, UnshiftMatched
  <2>2. now \in Nat /\ heard[N].at \in Nat /\ Back(m, 1).at \in Nat
    <3>1. N \in 1 .. N /\ N - m + 1 \in 1 .. N
      BY <1>1
    <3> QED
      BY <3>1, <1>1 DEF HTypeOK, TypeOK, Heard, Back
  <2>3. Tracks(m)
    <3>1. Back(m, 1).answer = "progress"
      BY <1>3, <2>1
    <3>2. \/ Tracks(m)
          \/ now - heard[N].at > PartialStateTimeout
          \/ now - Back(m, 1).at > SequenceWindow
      BY <1>1, <2>1, <3>1 DEF SuffixTracked
    <3> QED
      BY <2>1, <2>2, <3>2, TrackerAssumption
  <2>4. /\ Watched \in DOMAIN Live /\ Expected(Watched) = m
        /\ Live[Watched].first_seen = Back(m, 1).at
    BY <1>1, <2>1, <2>3, TracksLive
  <2>5. m + 1 \in 1 .. N
    BY <1>1
  <2>6. MatchesStep(m, k)
    BY <2>1, <2>5 DEF MatchesStep, N
  <2> QED
    BY <2>1, <2>4, <2>5, <2>6 DEF InStep, UnambiguousSequence
<1>4. ASSUME NEW m \in 1 .. N - 1, Matched(m)', Timely(m)', Back(m, 1)'.answer = "progress"
      PROVE  Tracks(m)'
  <2>1. CASE m = 1
    <3>1. Back(1, 1)' = heard'[N]
      <4>1. N - 1 + 1 = N
        BY <1>1
      <4> QED
        BY <4>1 DEF Back, N
    <3>2. outcome' = "progress" /\ Back(1, 1)'.knock = k
      BY <2>1, <1>2, <1>4, <3>1
    <3>3. k = Sequence[1]
      <4>1. 1 \in 1 .. 1
        OBVIOUS
      <4>2. Back(1, 1)'.knock = Sequence[1]
        BY <1>4, <2>1, <4>1 DEF Matched
      <4> QED
        BY <3>2, <4>2
    <3>4. ~Advance(Watched, k)
      <4> SUFFICES ASSUME Advance(Watched, k) PROVE FALSE
        OBVIOUS
      <4>1. Expected(Watched) > 0 /\ MatchesStep(Expected(Watched), k)
        BY DEF Advance, InStep
      <4>2. PICK j : j = Expected(Watched)
        OBVIOUS
      <4>3. j \in 1 .. N - 1
        <5>1. Watched \in DOMAIN Live
          BY <4>1 DEF Expected
        <5> QED
          BY <5>1, <4>2, <1>1, LivePrefix
      <4>4. j + 1 \in 1 .. N /\ Sequence[j + 1] = Sequence[1]
        BY <4>1, <4>2, <3>3 DEF MatchesStep, N
      <4>5. j + 1 = 1
        BY <4>4, <1>1 DEF UnambiguousSequence
      <4> QED
        BY <4>3, <4>5
    <3>5. \E st : states' = Insert(st, Watched,
                       [next_step |-> 1, first_seen |-> now, last_seen |-> now])
      BY <3>2, <3>4
      DEF Process, Oversized, Restart, StartOrReject, Begin, Accept, StartPartialState
    <3>6. /\ Watched \in DOMAIN states'
          /\ states'[Watched] = [next_step |-> 1, first_seen |-> now, last_seen |-> now]
      BY <3>5 DEF Insert
    <3>7. Tracks(1)'
      BY <3>6, <3>1, <1>2 DEF Tracks, N
    <3> QED
      BY <3>7, <2>1
  <2>2. CASE m # 1
    <3>1. PICK p : p = m - 1
      OBVIOUS
    <3>2. p \in 1 .. N - 1 /\ m = p + 1 /\ p # 0 /\ p + 1 # N
      BY <3>1, <2>2, <1>1
    <3>3. /\ Expected(Watched) = p /\ Watched \in DOMAIN Live
          /\ Live[Watched].first_seen = Back(p + 1, 1)'.at
          /\ InStep(Watched, k) /\ k.size <= MaxPayloadSize
      BY <3>2, <1>3, <1>4
    <3>4. k.size \in Nat
      BY TrackerAssumption
    <3>5. Advance(Watched, k)
      BY <3>2, <3>3, <3>4, TrackerAssumption
      DEF Process, Oversized, Restart, StartOrReject, Begin, Accept, N
    <3>6. states' = Insert(Live, Watched,
            [next_step |-> p + 1, first_seen |-> Live[Watched].first_seen, last_seen |-> now])
      BY <3>3, <3>5 DEF Advance
    <3>7. /\ Watched \in DOMAIN states'
          /\ states'[Watched] = [next_step |-> p + 1,
                first_seen |-> Live[Watched].first_seen, last_seen |-> now]
      BY <3>6 DEF Insert
    <3>8. /\ states'[Watched].next_step = m
          /\ states'[Watched].first_seen = Back(m, 1)'.at
          /\ states'[Watched].last_seen = heard'[N].at
      BY <3>2, <3>3, <3>7, <1>2
    <3> QED
      BY <3>7, <3>8 DEF Tracks, N
  <2> QED
    BY <2>1, <2>2
<1>5. SuffixTracked'
  BY <1>4 DEF SuffixTracked, N
<1>6. ASSUME Matched(N)', Timely(N)', heard'[1].answer = "progress"
      PROVE  outcome' = "accepted"
  <2>1. CASE N = 1
    <3>1. outcome' = "progress"
      BY <2>1, <1>2, <1>6
    <3>2. Watched \notin DOMAIN Live
      <4> SUFFICES ASSUME Watched \in DOMAIN Live PROVE FALSE
        OBVIOUS
      <4>1. Expected(Watched) \in 1 .. N - 1
        BY <1>1, LivePrefix
      <4> QED
        BY <4>1, <2>1
    <3>3. Expected(Watched) = 0 /\ ~(Expected(Watched) > 0)
      BY <3>2 DEF Expected
    <3>4. k = Sequence[1]
      <4>1. 1 \in 1 .. 1 /\ N - N + 1 = N
        BY <2>1
      <4>2. Back(N, 1)' = heard'[N] /\ Back(N, 1)'.knock = Sequence[1]
        BY <1>6, <2>1, <4>1 DEF Back, Matched, N
      <4> QED
        BY <4>2, <1>2
    <3>5. InStep(Watched, k)
      BY <3>3, <3>4, <2>1 DEF InStep, MatchesStep, N
    <3> QED
      BY <3>1, <3>3, <3>5, <2>1
      DEF Process, Oversized, Restart, StartOrReject, Begin, Advance, Accept, N
  <2>2. CASE N # 1
    <3>1. PICK p : p = N - 1
      OBVIOUS
    <3>2. p \in 1 .. N - 1 /\ N = p + 1 /\ p # 0
      BY <3>1, <2>2, <1>1
    <3>3. Back(p + 1, 1)' = heard'[1] /\ Matched(p + 1)' /\ Timely(p + 1)'
      <4>1. N - (p + 1) + 1 = 1
        BY <3>2
      <4> QED
        BY <4>1, <3>2, <1>6 DEF Back, N
    <3>4. /\ Expected(Watched) = p /\ InStep(Watched, k) /\ k.size <= MaxPayloadSize
      BY <3>2, <3>3, <1>3, <1>6
    <3>5. k.size \in Nat
      BY TrackerAssumption
    <3>6. Accept(Watched, k)
      BY <3>2, <3>4, <3>5, TrackerAssumption
      DEF Process, Oversized, Restart, StartOrReject, Begin, Advance, N
    <3> QED
      BY <3>6 DEF Accept
  <2> QED
    BY <2>1, <2>2
<1> QED
  BY <1>5, <1>6

LEMMA InitCInv == HInit => CInv
<1> SUFFICES ASSUME HInit PROVE CInv
  OBVIOUS
<1>1. \A i \in 1 .. N : heard[i].at = 0 /\ heard[i].answer = "none"
  BY DEF HInit
<1>2. now = 0 /\ N \in Nat \ {0}
  BY TrackerAssumption DEF HInit, Init, N
<1>3. \A m \in 1 .. N - 1 : Back(m, 1).answer = "none"
  <2> SUFFICES ASSUME NEW m \in 1 .. N - 1 PROVE Back(m, 1).answer = "none"
    OBVIOUS
  <2>1. N - m + 1 \in 1 .. N
    BY <1>2
  <2> QED
    BY <2>1, <1>1 DEF Back
<1>4. SuffixTracked
  BY <1>3 DEF SuffixTracked
<1>5. Past
  BY <1>1, <1>2 DEF Past
<1> QED
  BY <1>4, <1>5, InitHInv DEF CInv

\* No packet of the watched source, and an instant that is not earlier: what is
\* matched stays matched, and what expiry took was too late already.
LEMMA QuietSuffix ==
  ASSUME CInv, heard' = heard, now' \in Nat, now' >= now,
         Watched \in DOMAIN Live =>
           Watched \in DOMAIN states' /\ states'[Watched] = states[Watched]
  PROVE  Past' /\ SuffixTracked'
<1>1. /\ N \in Nat \ {0} /\ now \in Nat /\ SuffixTracked /\ Past
      /\ \A i \in 1 .. N : heard[i].at \in Nat
  BY TrackerAssumption DEF N, CInv, HInv, HTypeOK, TypeOK, Heard
<1>2. Past'
  BY <1>1 DEF Past, N
<1>3. ASSUME NEW m \in 1 .. N - 1, Matched(m)', Timely(m)', Back(m, 1)'.answer = "progress"
      PROVE  \/ Tracks(m)'
             \/ now' - heard'[N].at > PartialStateTimeout
             \/ now' - Back(m, 1)'.at > SequenceWindow
  <2>1. Matched(m) /\ Timely(m) /\ Back(m, 1).answer = "progress" /\ Back(m, 1)' = Back(m, 1)
    BY <1>3 DEF Matched, Timely, Back, N
  <2>2. heard[N].at \in Nat /\ Back(m, 1).at \in Nat
    <3>1. N \in 1 .. N /\ N - m + 1 \in 1 .. N
      BY <1>1
    <3> QED
      BY <3>1, <1>1 DEF Back
  <2>3. \/ Tracks(m)
        \/ now - heard[N].at > PartialStateTimeout
        \/ now - Back(m, 1).at > SequenceWindow
    BY <1>1, <2>1 DEF SuffixTracked
  <2>4. CASE \/ now - heard[N].at > PartialStateTimeout
             \/ now - Back(m, 1).at > SequenceWindow
    BY <2>1, <2>2, <2>4, <1>1, TrackerAssumption DEF N
  <2>5. CASE /\ Tracks(m)
             /\ now - heard[N].at <= PartialStateTimeout
             /\ now - Back(m, 1).at <= SequenceWindow
    <3>1. Watched \in DOMAIN Live
      BY <2>5, TracksLive DEF CInv, HInv
    <3> QED
      BY <3>1, <2>1, <2>5 DEF Tracks, N
  <2>6. /\ now - heard[N].at <= PartialStateTimeout
           \/ now - heard[N].at > PartialStateTimeout
        /\ now - Back(m, 1).at <= SequenceWindow
           \/ now - Back(m, 1).at > SequenceWindow
    BY <2>2, <1>1, TrackerAssumption
  <2> QED
    BY <2>3, <2>4, <2>5, <2>6, Zenon
<1> QED
  BY <1>2, <1>3 DEF SuffixTracked, N

LEMMA NextCInv ==
  ASSUME UnambiguousSequence
  PROVE  CInv /\ [HNext]_historyVars => CInv'
<1> SUFFICES ASSUME CInv, [HNext]_historyVars PROVE Past' /\ SuffixTracked'
  BY NextHInv DEF CInv
<1>1. now \in Nat /\ HTypeOK
  BY DEF CInv, HInv, HTypeOK, TypeOK
<1>2. CASE HTick
  BY <1>1, <1>2, LiveFacts, QuietSuffix DEF HTick, Tick
<1>3. ASSUME NEW s \in Source, NEW k \in Knock, HReceive(s, k)
      PROVE  Past' /\ SuffixTracked'
  <2>1. Process(s, k) /\ Record(s, k) /\ now' = now
    BY <1>3 DEF HReceive, Receive
  <2>2. CASE s = Watched
    <3>1. Shifted(k)
      BY <2>1, <2>2 DEF Record, Shifted
    <3>2. Past'
      <4>1. N \in Nat \ {0} /\ \A i \in 1 .. N : heard[i].at \in Nat /\ heard[i].at <= now
        BY TrackerAssumption DEF CInv, Past, HInv, HTypeOK, Heard, N
      <4>2. \A i \in 1 .. N : heard'[i].at <= now
        BY <4>1, <3>1, <1>1 DEF Shifted
      <4> QED
        BY <4>2, <2>1 DEF Past, N
    <3> QED
      BY <2>1, <2>2, <3>1, <3>2, WatchedSuffix
  <2>3. CASE s # Watched
    <3>1. Watched \in DOMAIN Live =>
            Watched \in DOMAIN states' /\ states'[Watched] = states[Watched]
      BY <2>1, <2>3, HistoryAssumption, ProcessTouchesOwnSource, LiveFacts
    <3> QED
      BY <2>1, <2>3, <3>1, <1>1, QuietSuffix DEF Record
  <2> QED
    BY <2>2, <2>3
<1>4. CASE UNCHANGED historyVars
  BY <1>1, <1>4, LiveFacts, QuietSuffix DEF historyVars
<1> QED
  BY <1>2, <1>3, <1>4 DEF HNext

\* A client that sends the steps in order and in time, and whose first packet
\* was not refused, gets in, whatever it and everybody else sent before: for
\* every sequence whose steps differ.
THEOREM AcceptanceComplete ==
  ASSUME UnambiguousSequence
  PROVE  HSpec => FullSequenceAccepted
<1> DEFINE B == (Matched(N) /\ Timely(N) /\ heard[1].answer = "progress")'
                  => outcome' = "accepted"
<1>1. ASSUME CInv, HNext PROVE heard' # heard => B
  <2>1. CASE HTick
    BY <2>1 DEF HTick
  <2>2. ASSUME NEW s \in Source, NEW k \in Knock, HReceive(s, k)
        PROVE  heard' # heard => B
    <3>1. Process(s, k) /\ Record(s, k)
      BY <2>2 DEF HReceive, Receive
    <3>2. CASE s = Watched
      <4>1. Shifted(k)
        BY <3>1, <3>2 DEF Record, Shifted
      <4>2. Matched(N)' /\ Timely(N)' /\ heard'[1].answer = "progress"
              => outcome' = "accepted"
        BY <1>1, <3>1, <3>2, <4>1, WatchedSuffix
      <4> QED
        BY <4>2
    <3>3. CASE s # Watched
      BY <3>1, <3>3 DEF Record
    <3> QED
      BY <3>2, <3>3
  <2> QED
    BY <1>1, <2>1, <2>2 DEF HNext
<1>2. CInv /\ [HNext]_historyVars => [heard' # heard => B]_historyVars
  BY <1>1
<1> QED
  BY <1>2, InitCInv, NextCInv, PTL DEF HSpec, FullSequenceAccepted
================================================================================
