------------------------------ MODULE BanHistory ------------------------------
(***************************************************************************)
(* The packet path beside a record of what each source did before a ban:   *)
(* its packets that the tracker refused (rejected or oversized) and the    *)
(* limiter tolerated, a right first step that finds the table full among   *)
(* them: process_packet does not tell it from a wrong one.  The record is  *)
(* an observation: the daemon does not read it.  It is that of one         *)
(* process, as the limiter is.                                             *)
(***************************************************************************)
EXTENDS Server

VARIABLE
  refused  \* the instants of the refused packets of each source that were tolerated

banVars == <<states, now, outcome, limiter, banned, phase, peer, allowSet, banSet,
             audit, refused>>

Nothing == [s \in Source |-> <<>>]

BInit == ServerInit /\ refused = Nothing

BTolerate(s, k) ==
  /\ Tolerate(s, k)
  /\ refused' = [refused EXCEPT ![s] = Append(@, now)]

BOther(s, k) ==
  /\ Exceed(s, k) \/ Proceed(s, k) \/ Admit(s, k)
  /\ UNCHANGED refused

BPacket(s, k) == BTolerate(s, k) \/ BOther(s, k)

BEnd ==
  /\ Stop \/ StopUnlogged \/ AddIpFails
  /\ refused' = Nothing

BQuiet ==
  /\ \/ ServerTick \/ Start \/ BanIp \/ BanIpFails \/ AddIp
     \/ \E s \in Source : Ignore(s)
  /\ UNCHANGED refused

BNext == BQuiet \/ BEnd \/ \E s \in Source, k \in Knock : BPacket(s, k)

BSpec == BInit /\ [][BNext]_banVars

-------------------------------------------------------------------------------
(* Properties *)

\* How many of some packets were within the last minute.
InLastMinute(instants) == Cardinality({i \in DOMAIN instants : now - instants[i] < Minute})

\* A source is banned only after at least an allowance of its own packets of the
\* last minute was refused and tolerated, whatever packets of others come between
\* and however the tracker, the limiter and its pruning interleave
\* (src/server.rs:312-317 with src/rate_limit.rs:58-81).  Refused is not invalid:
\* others that fill the table can get a right first step of the source refused
\* (src/knock.rs:130-131), but no packet of theirs counts as one of its own.
BannedOnlyAfterRefusals ==
  [][phase = "poll" /\ phase' = "ban" =>
       InLastMinute(refused[peer']) >= Least(BurstLimit, RefillLimit)]_banVars
===============================================================================
