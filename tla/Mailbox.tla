------------------------------- MODULE Mailbox --------------------------------
(***************************************************************************)
(* What the packet path may assume of the loop that feeds it: every packet *)
(* that reaches the host is handled at most once, and only after it came;  *)
(* a datagram is never given up, a connection may be; in any order; and    *)
(* nothing happens once the daemon has ended.                              *)
(***************************************************************************)
EXTENDS Naturals

CONSTANTS Datagram, Connection

VARIABLES
  sent, handled, dropped,
  calls,   \* how often a packet was handled
  running

mailboxVars == <<sent, handled, dropped, calls, running>>

Waiting == sent \ (handled \cup dropped)

Init == sent = {} /\ handled = {} /\ dropped = {} /\ calls = 0 /\ running = TRUE

Send(p) ==
  /\ running /\ p \notin sent
  /\ sent' = sent \cup {p}
  /\ UNCHANGED <<handled, dropped, calls, running>>

\* Handling a packet counts, so handling it again is not a stuttering step: it is
\* none that Next allows.
Handle(p) ==
  /\ running /\ p \in Waiting
  /\ handled' = handled \cup {p}
  /\ calls' = calls + 1
  /\ UNCHANGED <<sent, dropped, running>>

GiveUp(c) ==
  /\ running /\ c \in Waiting
  /\ dropped' = dropped \cup {c}
  /\ UNCHANGED <<sent, handled, calls, running>>

End == running /\ running' = FALSE /\ UNCHANGED <<sent, handled, dropped, calls>>

Next ==
  \/ \E p \in Datagram \cup Connection : Send(p) \/ Handle(p)
  \/ \E c \in Connection : GiveUp(c)
  \/ End

Spec == Init /\ [][Next]_mailboxVars
===============================================================================
