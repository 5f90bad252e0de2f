----------------------------- MODULE KnockTracker -----------------------------
(***************************************************************************)
(* The knock sequence tracker, src/knock.rs: one partial state per source  *)
(* address, advanced, restarted or dropped by every packet, bounded in     *)
(* number and in age.                                                      *)
(*                                                                         *)
(* A packet is reduced to what `matches_step` and the size check read: a   *)
(* source and a knock, the record of protocol, port and payload size that  *)
(* the configuration also uses for a step.  Instants are natural numbers;  *)
(* the unit of a tick is immaterial because only differences of instants   *)
(* are compared with configured durations.                                 *)
(***************************************************************************)
EXTENDS HashMap, Sequences

CONSTANTS
  Source,               \* source addresses that can send packets
  Knock,                \* (protocol, port, size) combinations that can arrive
  Sequence,             \* the configured steps, a sequence of knocks
  SequenceWindow,       \* longest first-to-last distance of a sequence
  PartialStateTimeout,  \* longest silence of a source between two steps
  MaxPartialStates,     \* most sources with a partial state
  MaxPayloadSize,       \* larger payloads are oversized
  MaxTime               \* bound on the clock

ASSUME TrackerAssumption ==
  /\ \A k \in Knock : k.size \in Nat
  /\ Sequence \in Seq(Knock) /\ Len(Sequence) > 0
  /\ SequenceWindow \in Nat
  /\ PartialStateTimeout \in Nat
  /\ MaxPartialStates \in Nat
  /\ MaxPayloadSize \in Nat
  /\ MaxTime \in Nat

VARIABLES
  states,   \* HashMap from sources to their partial state
  now,      \* the monotonic clock (Instant::now)
  outcome   \* what the last call of process returned

trackerVars == <<states, now, outcome>>

SourceState ==
  [next_step : 1 .. Len(Sequence) - 1, first_seen : Nat, last_seen : Nat]

Outcomes == {"none", "accepted", "progress", "rejected", "oversized"}

\* The one type invariant of the tracker: a stored next_step is an index of a
\* step still to come, never 0 and never past the end (src/knock.rs:90-109).
TypeOK ==
  /\ DOMAIN states \subseteq Source
  /\ \A s \in DOMAIN states : states[s] \in SourceState
  /\ now \in Nat
  /\ outcome \in Outcomes

-------------------------------------------------------------------------------
(* Helpers of process *)

\* Mutant: a packet exactly at a limit comes too late.
Mut_Expire(t) ==
  Restrict(states,
    {s \in DOMAIN states : /\ t - states[s].last_seen < PartialStateTimeout
                           /\ t - states[s].first_seen < SequenceWindow})

\* The states that survive `expire(t)`.
Expire(t) ==
  Restrict(states,
    {s \in DOMAIN states : /\ t - states[s].last_seen <= PartialStateTimeout
                           /\ t - states[s].first_seen <= SequenceWindow})

\* Every call of process starts with `self.expire(now)`.
Live == Expire(now)

\* The zero-based step a source has to send next.
Expected(s) == IF s \in DOMAIN Live THEN Live[s].next_step ELSE 0

\* get(step_index) is None past the end, so nothing matches there.
MatchesStep(i, k) == i + 1 \in DOMAIN Sequence /\ Sequence[i + 1] = k

\* The packet continues (or, from nothing, begins) the sequence of its source.
\* The window was already enforced by `expire`; process tests it again.
InStep(s, k) ==
  /\ Expected(s) > 0 => now - Live[s].first_seen <= SequenceWindow
  /\ MatchesStep(Expected(s), k)

\* Mutant: the capacity test is off by one and forgets a free slot.
Mut_StartPartialState(st, s) ==
  IF s \notin DOMAIN st /\ Size(st) > MaxPartialStates
  THEN states' = st /\ outcome' = "rejected"
  ELSE /\ states' = Insert(st, s, [next_step |-> 1, first_seen |-> now, last_seen |-> now])
       /\ outcome' = "progress"

\* Mutant: at capacity another source's partial state is evicted.
Mut_EvictingStart(st, s) ==
  LET room == IF Size(st) < MaxPartialStates THEN st
              ELSE Without(st, CHOOSE q \in DOMAIN st : TRUE)
  IN  /\ states' = Insert(room, s, [next_step |-> 1, first_seen |-> now, last_seen |-> now])
      /\ outcome' = "progress"

\* A new partial state is refused, not traded for an old one, at capacity.
StartPartialState(st, s) ==
  IF s \notin DOMAIN st /\ Size(st) >= MaxPartialStates
  THEN states' = st /\ outcome' = "rejected"
  ELSE /\ states' = Insert(st, s, [next_step |-> 1, first_seen |-> now, last_seen |-> now])
       /\ outcome' = "progress"

\* A packet out of step may still be a new beginning.
StartOrReject(st, s, k) ==
  IF MatchesStep(0, k)
  THEN StartPartialState(st, s)
  ELSE states' = st /\ outcome' = "rejected"

-------------------------------------------------------------------------------
(* process, one action per way through it *)

Oversized(s, k) ==
  /\ k.size > MaxPayloadSize
  /\ states' = Without(Live, s)
  /\ outcome' = "oversized"

\* Mutant: the state that a wrong packet should drop survives it.
Mut_Restart(s, k) ==
  /\ k.size <= MaxPayloadSize
  /\ ~InStep(s, k)
  /\ IF MatchesStep(0, k)
     THEN StartPartialState(Without(Live, s), s)
     ELSE states' = Live /\ outcome' = "rejected"

\* The partial state is dropped; the packet may begin a new one.
Restart(s, k) ==
  /\ k.size <= MaxPayloadSize
  /\ ~InStep(s, k)
  /\ StartOrReject(Without(Live, s), s, k)

Begin(s, k) ==
  /\ k.size <= MaxPayloadSize
  /\ InStep(s, k) /\ Expected(s) = 0
  /\ Len(Sequence) # 1
  /\ StartPartialState(Live, s)

\* Mutant: the last step is stored as progress as well.
Mut_Advance(s, k) ==
  /\ k.size <= MaxPayloadSize
  /\ InStep(s, k) /\ Expected(s) > 0
  /\ states' = Insert(Live, s, [next_step |-> Expected(s) + 1,
                               first_seen |-> Live[s].first_seen, last_seen |-> now])
  /\ outcome' = "progress"

\* Mutant: every step restarts the window.
Mut_SlidingAdvance(s, k) ==
  /\ k.size <= MaxPayloadSize
  /\ InStep(s, k) /\ Expected(s) > 0
  /\ Expected(s) + 1 # Len(Sequence)
  /\ states' = Insert(Live, s, [next_step |-> Expected(s) + 1, first_seen |-> now, last_seen |-> now])
  /\ outcome' = "progress"

\* The window keeps counting from the first step.
Advance(s, k) ==
  /\ k.size <= MaxPayloadSize
  /\ InStep(s, k) /\ Expected(s) > 0
  /\ Expected(s) + 1 # Len(Sequence)
  /\ states' = Insert(Live, s, [next_step |-> Expected(s) + 1,
                               first_seen |-> Live[s].first_seen, last_seen |-> now])
  /\ outcome' = "progress"

Accept(s, k) ==
  /\ k.size <= MaxPayloadSize
  /\ InStep(s, k) /\ Expected(s) + 1 = Len(Sequence)
  /\ states' = Without(Live, s)
  /\ outcome' = "accepted"

Process(s, k) ==
  \/ Oversized(s, k)
  \/ Restart(s, k)
  \/ Begin(s, k)
  \/ Advance(s, k)
  \/ Accept(s, k)

-------------------------------------------------------------------------------
Init == states = EmptyMap /\ now = 0 /\ outcome = "none"

\* Time passes up to the bound MaxTime.
Tick == now < MaxTime /\ now' = now + 1 /\ UNCHANGED <<states, outcome>>

Receive(s, k) == Process(s, k) /\ UNCHANGED now

Next == Tick \/ \E s \in Source, k \in Knock : Receive(s, k)

Spec == Init /\ [][Next]_trackerVars

-------------------------------------------------------------------------------
(* Properties *)

\* Whatever is sent by however many sources, incomplete sequences never take
\* more than max_partial_states entries (start_partial_state, src/knock.rs:130).
PartialStatesBounded == Size(states) <= MaxPartialStates

\* A packet touches the partial state of its own source only: every other live
\* state is still there, unchanged, and none appears.  At capacity this is the
\* promise that a flood of new sources cannot push out a client that is halfway
\* through its sequence (src/knock.rs:129-142, process).
OneSourcePerPacket ==
  [][\E s \in Source : \A q \in Source \ {s} :
       /\ q \in DOMAIN states' <=> q \in DOMAIN Live
       /\ q \in DOMAIN Live => states'[q] = Live[q]]_states
===============================================================================
