---------------------------- MODULE MCKnockHistory ----------------------------
\* A watched source and one other source that competes for a single slot.
EXTENDS KnockHistory

K(p, n) == [protocol |-> "udp", port |-> p, size |-> n]

MCSequence == <<K(1, 1), K(2, 2), K(3, 1)>>
\* The three steps and an oversized payload; a step out of order is the
\* wrong packet.
MCKnock == {K(1, 1), K(2, 2), K(3, 1), K(1, 3)}
===============================================================================
