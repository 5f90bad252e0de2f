------------------------- MODULE MCAmbiguousSequence -------------------------
\* A sequence that validate accepts and that repeats a step: two equal ICMP
\* echo requests before a UDP packet.
EXTENDS KnockHistory

Icmp == [protocol |-> "icmp", port |-> 0, size |-> 1]
Udp == [protocol |-> "udp", port |-> 1, size |-> 1]

MCSequence == <<Icmp, Icmp, Udp>>
MCKnock == {Icmp, Udp}
===============================================================================
