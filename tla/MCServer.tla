------------------------------- MODULE MCServer -------------------------------
\* Two sources and a sequence of three steps; the first step sent again is the
\* invalid packet, or a right one that finds the table full.
EXTENDS BanHistory, TLC

K(p) == [protocol |-> "udp", port |-> p, size |-> 1]

MCSequence == <<K(1), K(2), K(3)>>
MCKnock == {K(1), K(2), K(3)}

Symmetry == Permutations(Source)
===============================================================================
