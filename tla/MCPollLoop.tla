------------------------------ MODULE MCPollLoop ------------------------------
\* A sequence over all three protocols, and two clients that interfere: three
\* connections are one more than MCPollLoop.cfg has room for, and datagrams queue
\* behind each other at one UDP socket while another one has its own.
EXTENDS PollLoop

P(s, n, pr, po) == [source |-> s, nth |-> n, protocol |-> pr, port |-> po]

MCSequence ==
  <<[protocol |-> "udp", port |-> 1], [protocol |-> "tcp", port |-> 2],
    [protocol |-> "udp", port |-> 3], [protocol |-> "icmp", port |-> 0]>>

MCPacket ==
  {P("a", 1, "udp", 1), P("a", 2, "udp", 1), P("a", 3, "tcp", 2), P("a", 4, "tcp", 2),
   P("a", 5, "icmp", 0), P("a", 6, "tcp", 2),
   P("b", 1, "udp", 3)}

\* For a table of one connection.
MCKnocker ==
  {P("a", 1, "udp", 1), P("a", 2, "tcp", 2), P("a", 3, "icmp", 0),
   P("b", 1, "tcp", 2)}
===============================================================================
