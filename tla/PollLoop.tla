------------------------------- MODULE PollLoop -------------------------------
(***************************************************************************)
(* The loop of `run`, src/server.rs:148-213.  One iteration receives one   *)
(* datagram from every UDP socket, accepts TCP connections while there is  *)
(* room, makes a pass over the pending connections, receives one ICMP      *)
(* packet, and sleeps.  process_packet is a step here; what it does is the *)
(* subject of Server.                                                      *)
(*                                                                         *)
(* Only the distance of the deadlines to `now` matters, and the loop reads *)
(* the clock once per iteration, so a pending connection stores how much   *)
(* is left to its deadline at that reading, and `elapsed` is the time that *)
(* has passed since.  Both stop at the read timeout: the state space is    *)
(* finite without a bound on the clock.                                    *)
(***************************************************************************)
EXTENDS Integers, SequencesExt

CONSTANTS
  Sequence,    \* the configured steps: records of protocol and port
  Packet,      \* records of source, nth (its place in what the source sends),
               \* protocol and port; a TCP packet is a connection
  MaxPending,  \* max_pending_tcp, which is max_partial_states
  ReadTimeout  \* tcp_read_timeout, which is partial_state_timeout

ASSUME LoopAssumption ==
  /\ Sequence \in Seq([protocol : {"udp", "tcp", "icmp"}, port : Nat])
  /\ \A step \in ToSet(Sequence) : step.protocol = "icmp" => step.port = 0
  /\ MaxPending \in Nat \ {0}
  /\ ReadTimeout \in Nat \ {0}
  /\ \A p \in Packet : [protocol |-> p.protocol, port |-> p.port] \in ToSet(Sequence)

\* A step binds its port unless an earlier one did.
Bind(ports, step, protocol) ==
  IF step.protocol = protocol /\ ~Contains(ports, step.port)
  THEN Append(ports, step.port) ELSE ports

\* The ports that are bound for a protocol, each once, in the order of the steps.
Ports(protocol) ==
  LET bound[n \in 0 .. Len(Sequence)] ==
        IF n = 0 THEN <<>> ELSE Bind(bound[n - 1], Sequence[n], protocol)
  IN  bound[Len(Sequence)]

UdpPorts == Ports("udp")
TcpPorts == Ports("tcp")

Connection == {p \in Packet : p.protocol = "tcp"}
Datagram == Packet \ Connection

\* Every step's socket is bound.  An ICMP step has no port; 0 stands for that.
Socket == ToSet(Sequence)
SocketOf(protocol, port) == [protocol |-> protocol, port |-> port]

VARIABLES
  queues,   \* what the kernel holds for each socket: datagrams, or the backlog
  stream,   \* what a read of each connection would give
  pending,  \* pending_tcp: connections and what is left to their deadlines
  stage,    \* where the loop is, or how it ended
  index,    \* the socket or the pending connection it is at
  elapsed,  \* time since the loop read the clock
  sent,     \* packets that reached the host
  handled,  \* packets passed to process_packet
  calls     \* how often process_packet was called

loopVars == <<queues, stream, pending, stage, index, elapsed, sent, handled, calls>>

Stages == {"udp", "accept", "read", "icmp", "stopped", "failed"}

\* An entry of a queue, with the iterations in which it has to be received.
Entry == [packet : Packet, rounds : Int]

\* The one type invariant of the loop; pending_tcp never holds more than
\* max_partial_states connections (src/server.rs:161-163).
LoopTypeOK ==
  /\ queues \in [Socket -> Seq(Entry)]
  /\ stream \in [Connection -> {"idle", "readable", "reset"}]
  /\ pending \in Seq([packet : Connection, left : 0 .. ReadTimeout])
  /\ Len(pending) <= MaxPending
  /\ stage \in Stages /\ index \in Nat \ {0}
  /\ elapsed \in 0 .. ReadTimeout
  /\ sent \subseteq Packet /\ handled \subseteq sent /\ calls \in Nat

InQueues == UNION {{queues[q][i].packet : i \in DOMAIN queues[q]} : q \in Socket}
InPending == {pending[i].packet : i \in DOMAIN pending}
Waiting == InQueues \cup InPending

-------------------------------------------------------------------------------
(* The clients and the clock *)

Running == stage \notin {"stopped", "failed"}

\* A datagram is queued, a connection is established; every source sends its
\* packets in the order of nth.
Arrive(p) ==
  /\ Running
  /\ p \notin sent
  /\ \A q \in Packet : q.source = p.source /\ q.nth < p.nth => q \in sent
  /\ LET q == SocketOf(p.protocol, p.port)
     IN  queues' = [queues EXCEPT ![q] = Append(@, [packet |-> p, rounds |-> Len(@) + 1])]
  /\ sent' = sent \cup {p}
  /\ UNCHANGED <<stream, pending, stage, index, elapsed, handled, calls>>

\* The client of a connection sends its payload or closes, which both make it
\* readable, or resets it; a reset discards what was not read.
ClientActs(c) ==
  /\ Running
  /\ c \in Waiting
  /\ \/ stream[c] = "idle" /\ stream' = [stream EXCEPT ![c] = "readable"]
     \/ stream[c] # "reset" /\ stream' = [stream EXCEPT ![c] = "reset"]
  /\ UNCHANGED <<queues, pending, stage, index, elapsed, sent, handled, calls>>

Tick ==
  /\ Running
  /\ elapsed < ReadTimeout
  /\ elapsed' = elapsed + 1
  /\ UNCHANGED <<queues, stream, pending, stage, index, sent, handled, calls>>

-------------------------------------------------------------------------------
(* The loop *)

Goto(s, i) == stage' = s /\ index' = i

ProcessPacket(p) == handled' = handled \cup {p} /\ calls' = calls + 1

\* recv_from gives the head of the queue, if there is one.
ReceiveFrom(q) ==
  IF queues[q] = <<>>
  THEN UNCHANGED <<queues, handled, calls>>
  ELSE /\ queues' = [queues EXCEPT ![q] = Tail(@)]
       /\ ProcessPacket(Head(queues[q]).packet)

\* Mutant: the first datagram ends the pass over the sockets.
Mut_ReceiveUdp ==
  /\ stage = "udp" /\ index <= Len(UdpPorts)
  /\ LET q == SocketOf("udp", UdpPorts[index])
     IN  /\ ReceiveFrom(q)
         /\ Goto("udp", IF queues[q] = <<>> THEN index + 1 ELSE Len(UdpPorts) + 1)
  /\ UNCHANGED <<stream, pending, elapsed, sent>>

ReceiveUdp ==
  /\ stage = "udp" /\ index <= Len(UdpPorts)
  /\ ReceiveFrom(SocketOf("udp", UdpPorts[index]))
  /\ Goto("udp", index + 1)
  /\ UNCHANGED <<stream, pending, elapsed, sent>>

\* Mutant: reading the clock starts every deadline anew.
Mut_ReadClock ==
  /\ stage = "udp" /\ index > Len(UdpPorts)
  /\ pending' = [i \in DOMAIN pending |-> [pending[i] EXCEPT !.left = ReadTimeout]]
  /\ elapsed' = 0
  /\ Goto("accept", 1)
  /\ UNCHANGED <<queues, stream, sent, handled, calls>>

\* `let now = Instant::now()`: the deadlines are that much nearer.
ReadClock ==
  /\ stage = "udp" /\ index > Len(UdpPorts)
  /\ pending' = [i \in DOMAIN pending |->
                   [pending[i] EXCEPT !.left = IF @ > elapsed THEN @ - elapsed ELSE 0]]
  /\ elapsed' = 0
  /\ Goto("accept", 1)
  /\ UNCHANGED <<queues, stream, sent, handled, calls>>

\* Mutant: the room for connections is tested off by one.
Mut_Accept ==
  /\ stage = "accept" /\ index <= Len(TcpPorts)
  /\ LET q == SocketOf("tcp", TcpPorts[index])
     IN  IF Len(pending) > MaxPending \/ queues[q] = <<>>
         THEN Goto("accept", index + 1) /\ UNCHANGED <<queues, pending>>
         ELSE /\ queues' = [queues EXCEPT ![q] = Tail(@)]
              /\ pending' = Append(pending, [packet |-> Head(queues[q]).packet, left |-> ReadTimeout])
              /\ UNCHANGED <<stage, index>>
  /\ UNCHANGED <<stream, elapsed, sent, handled, calls>>

\* A listener is drained until it would block or there is no room.
Accept ==
  /\ stage = "accept" /\ index <= Len(TcpPorts)
  /\ LET q == SocketOf("tcp", TcpPorts[index])
     IN  IF Len(pending) >= MaxPending \/ queues[q] = <<>>
         THEN Goto("accept", index + 1) /\ UNCHANGED <<queues, pending>>
         ELSE /\ queues' = [queues EXCEPT ![q] = Tail(@)]
              /\ pending' = Append(pending, [packet |-> Head(queues[q]).packet, left |-> ReadTimeout])
              /\ UNCHANGED <<stage, index>>
  /\ UNCHANGED <<stream, elapsed, sent, handled, calls>>

StartPass ==
  /\ stage = "accept" /\ index > Len(TcpPorts)
  /\ Goto("read", 1)
  /\ UNCHANGED <<queues, stream, pending, elapsed, sent, handled, calls>>

\* Mutant: the last element takes the place of the one at i and keeps its own.
Mut_SwapRemove(s, i) == ReplaceAt(s, i, Last(s))

\* Vec::swap_remove: the last element takes the place of the one at i.
SwapRemove(s, i) ==
  IF i = Len(s) THEN Front(s) ELSE ReplaceAt(Front(s), i, Last(s))

AtPending == stage = "read" /\ index <= Len(pending)
Current == pending[index]

\* A payload, or the end of the stream as a payload of size 0, is a packet.  The
\* index stays: another connection is there now.
ReadKnock ==
  /\ AtPending
  /\ stream[Current.packet] = "readable"
  /\ pending' = SwapRemove(pending, index)
  /\ ProcessPacket(Current.packet)
  /\ UNCHANGED <<queues, stream, stage, index, elapsed, sent>>

\* Mutant: the deadline is looked at before the stream.
Mut_ReadTimesOut ==
  /\ AtPending
  /\ stream[Current.packet] # "reset" /\ Current.left = 0
  /\ pending' = SwapRemove(pending, index)
  /\ UNCHANGED <<queues, stream, stage, index, elapsed, sent, handled, calls>>

\* Mutant: the pass moves on after a removal, past the connection moved here.
Mut_SkippingReadTimesOut ==
  /\ AtPending
  /\ stream[Current.packet] = "idle" /\ Current.left = 0
  /\ pending' = SwapRemove(pending, index)
  /\ index' = index + 1
  /\ UNCHANGED <<queues, stream, stage, elapsed, sent, handled, calls>>

ReadTimesOut ==
  /\ AtPending
  /\ stream[Current.packet] = "idle" /\ Current.left = 0
  /\ pending' = SwapRemove(pending, index)
  /\ UNCHANGED <<queues, stream, stage, index, elapsed, sent, handled, calls>>

ReadNothing ==
  /\ AtPending
  /\ stream[Current.packet] = "idle" /\ Current.left > 0
  /\ index' = index + 1
  /\ UNCHANGED <<queues, stream, pending, stage, elapsed, sent, handled, calls>>

\* Any other error of the read leaves `run` through its `?`.
ReadFails ==
  /\ AtPending
  /\ stream[Current.packet] = "reset"
  /\ stage' = "failed"
  /\ UNCHANGED <<queues, stream, pending, index, elapsed, sent, handled, calls>>

EndPass ==
  /\ stage = "read" /\ index > Len(pending)
  /\ Goto("icmp", 1)
  /\ UNCHANGED <<queues, stream, pending, elapsed, sent, handled, calls>>

\* What an iteration leaves in a queue has one iteration less to be received in.
Aged(q) == [i \in DOMAIN q |-> [q[i] EXCEPT !.rounds = @ - 1]]

\* One ICMP packet, if that protocol is listened to, and the next iteration.
ReceiveIcmp ==
  /\ stage = "icmp"
  /\ LET ready == {q \in Socket : q.protocol = "icmp" /\ queues[q] # <<>>}
         rest(q) == IF q \in ready THEN Tail(queues[q]) ELSE queues[q]
     IN  /\ queues' = [q \in Socket |-> IF q.protocol = "tcp" THEN rest(q) ELSE Aged(rest(q))]
         /\ \/ ready = {} /\ UNCHANGED <<handled, calls>>
            \/ \E q \in ready : ProcessPacket(Head(queues[q]).packet)
  /\ Goto("udp", 1)
  /\ UNCHANGED <<stream, pending, elapsed, sent>>

\* Whatever else ends the process: a kill, a failing allow command, an audit
\* line that cannot be written, another error of a socket.
Stop ==
  /\ Running
  /\ stage' = "stopped"
  /\ UNCHANGED <<queues, stream, pending, index, elapsed, sent, handled, calls>>

LoopInit ==
  /\ queues = [q \in Socket |-> <<>>]
  /\ stream = [c \in Connection |-> "idle"]
  /\ pending = <<>>
  /\ stage = "udp" /\ index = 1
  /\ elapsed = 0
  /\ sent = {} /\ handled = {} /\ calls = 0

LoopStep ==
  \/ ReceiveUdp \/ ReadClock
  \/ Accept \/ StartPass
  \/ ReadKnock \/ ReadTimesOut \/ ReadNothing \/ ReadFails \/ EndPass
  \/ ReceiveIcmp

LoopNext ==
  \/ LoopStep
  \/ Stop
  \/ Tick
  \/ \E p \in Packet : Arrive(p)
  \/ \E c \in Connection : ClientActs(c)

\* The thread runs on until the process ends, and time passes.  The clients owe
\* nothing, and neither does whatever could stop the process.
LoopSpec == LoopInit /\ [][LoopNext]_loopVars /\ WF_loopVars(LoopStep) /\ WF_loopVars(Tick)

-------------------------------------------------------------------------------
(* Properties *)

\* The loop with its queues, its table and its swap_remove is a mailbox: it
\* invents and loses no packet, calls process_packet no second time for one, and
\* gives up only connections (src/server.rs:148-211).
Box == INSTANCE Mailbox WITH
         dropped <- sent \ (handled \cup Waiting),
         running <- Running

IsMailbox == Box!Spec

\* The pass over pending_tcp misses no connection although its elements move
\* while it runs: none that is past its deadline is left when it ends
\* (swap_remove without an increment, src/server.rs:181-195).
NoOverdueSurvives ==
  stage = "icmp" => \A i \in DOMAIN pending : pending[i].left > 0

\* A payload that is there when its connection's deadline is found to have
\* passed still counts: only a silent connection is given up
\* (the order of the two arms, src/server.rs:184-193).
OnlySilentDropped ==
  [][\A c \in Connection :
       c \in Waiting /\ c \notin Waiting' => c \in handled' \/ stream[c] = "idle"]_loopVars

\* A datagram is received at the latest in the first whole iteration for it and
\* for every datagram that was queued at its socket before it: no socket waits
\* for another one to fall silent (src/server.rs:149-157, 196-211).
ServedInTurn ==
  \A q \in Socket : q.protocol # "tcp" =>
    \A i \in DOMAIN queues[q] : queues[q][i].rounds >= 0

\* Every packet that reached the host is handled, or its connection given up,
\* unless the process ends: a full table of silent connections is emptied by
\* their deadlines (src/server.rs:161-163, 190-192).
EveryPacketServed ==
  \A p \in Packet : p \in Waiting ~> p \notin Waiting \/ ~Running

\* Stronger: only something outside the connections may end the process before
\* a packet is served.  An error of one client's stream does too
\* (the `?` after read_tcp_knock, src/server.rs:184).
ServedDespiteOthers ==
  \A p \in Packet : p \in Waiting ~> p \notin Waiting \/ stage = "stopped"
===============================================================================
