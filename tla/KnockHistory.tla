----------------------------- MODULE KnockHistory -----------------------------
(***************************************************************************)
(* The tracker beside a record of what one source really sent.  `heard` is *)
(* a shift register of the last Len(Sequence) packets the tracker          *)
(* processed for the source Watched, each with its instant and the answer  *)
(* process gave.  It is an observation only: nothing of the tracker reads  *)
(* it.  Watched is an arbitrary source, so what holds for it holds for     *)
(* every source; the others are there to expire it, and to fill the table. *)
(***************************************************************************)
EXTENDS KnockTracker

CONSTANTS
  Watched,   \* the source whose packets are recorded
  NoKnock    \* stands for "no packet yet"

ASSUME HistoryAssumption == Watched \in Source /\ NoKnock \notin Knock

VARIABLE heard

historyVars == <<states, now, outcome, heard>>

N == Len(Sequence)

Heard == [knock : Knock \cup {NoKnock}, at : Nat, answer : Outcomes]

HTypeOK == TypeOK /\ heard \in [1 .. N -> Heard]

HInit ==
  /\ Init
  /\ heard = [i \in 1 .. N |-> [knock |-> NoKnock, at |-> 0, answer |-> "none"]]

Record(s, k) ==
  heard' = IF s = Watched
           THEN [i \in 1 .. N |-> IF i < N THEN heard[i + 1]
                                  ELSE [knock |-> k, at |-> now, answer |-> outcome']]
           ELSE heard

HReceive(s, k) == Receive(s, k) /\ Record(s, k)

HTick == Tick /\ UNCHANGED heard

HNext == HTick \/ \E s \in Source, k \in Knock : HReceive(s, k)

HSpec == HInit /\ [][HNext]_historyVars

-------------------------------------------------------------------------------
(* The last m packets of the register, oldest first, are its last m cells. *)

Back(m, i) == heard[N - m + i]

\* The last m packets of the source were the first m steps, in order.
Matched(m) == \A i \in 1 .. m : Back(m, i).knock = Sequence[i]

\* They arrived in time: no silence longer than partial_state_timeout, and no
\* more than sequence_window from the first to the last.
Timely(m) ==
  /\ \A i \in 1 .. m - 1 : Back(m, i + 1).at - Back(m, i).at <= PartialStateTimeout
  /\ heard[N].at - Back(m, 1).at <= SequenceWindow

\* A partial state that says next_step = m is backed by m packets that its
\* source really sent, in order and in time, and its two instants are theirs.
\* It also bounds the age of every partial state by what expiry allows.
TrackedPrefix(s) ==
  LET m == states[s].next_step
  IN  /\ Matched(m) /\ Timely(m)
      /\ Back(m, 1).at = states[s].first_seen
      /\ heard[N].at = states[s].last_seen

\* The inductive core of the soundness of acceptance: whatever the other
\* sources do, a stored next_step never claims steps that were not sent
\* (process, src/knock.rs:69-111).
PrefixInv == Watched \in DOMAIN states => TrackedPrefix(Watched)

\* Access is granted only for a complete knock: when process answers
\* "accepted" to the watched source, the last Len(Sequence) packets of that
\* source are exactly the configured steps in order, with nothing of its own in
\* between, inside sequence_window and without a silence longer than
\* partial_state_timeout (src/knock.rs:69-111).
AcceptedOnlyAfterFullSequence ==
  [][heard' # heard /\ outcome' = "accepted" => (Matched(N) /\ Timely(N))']_historyVars

\* Conversely a complete knock is never wasted: however the source got there
\* (wrong packets, repeated steps, an expired attempt), when its last
\* Len(Sequence) packets are the steps in order and in time, and the first of
\* them was not refused for lack of room, the last one is accepted
\* (the restart in start_or_reject, src/knock.rs:121-127).
FullSequenceAccepted ==
  [][heard' # heard
       => ((Matched(N) /\ Timely(N) /\ heard[1].answer = "progress")'
             => outcome' = "accepted")]_historyVars
===============================================================================
