-------------------------------- MODULE Server --------------------------------
(***************************************************************************)
(* The daemon's packet path, src/server.rs: the memory of banned sources,  *)
(* the sequence tracker, the limiter of invalid packets, and the two       *)
(* kernel ipsets it fills.                                                 *)
(*                                                                         *)
(* process_packet reads the clock once and then may run an `ipset add`,    *)
(* which takes time and can fail, so the call is split there: `phase` says *)
(* which command the daemon is blocked on, and for which `peer`.  Nothing  *)
(* else of the daemon runs meanwhile; the clock and the kernel do.         *)
(*                                                                         *)
(* Packets of any source arrive at any time.  This includes sources in the *)
(* kernel ban set: what reached a socket queue before the ban is read      *)
(* after it, and preflight does not check that the drop rule is there.     *)
(***************************************************************************)
EXTENDS KnockTracker, TokenBucket

CONSTANTS
  BurstLimit,   \* invalid_burst_limit
  RefillLimit,  \* invalid_refill_per_minute
  Minute,       \* the 60 seconds of the limiter
  IpTimeout,    \* ip_timeout, how long an allow entry lives
  BanTimeout,   \* ban_timeout, how long a ban lives
  NoPeer        \* no command is being run

ASSUME ServerAssumption ==
  /\ BurstLimit \in 1 .. U32Max /\ RefillLimit \in 1 .. U32Max
  /\ Minute \in Nat \ {0}
  /\ IpTimeout \in Nat \ {0} /\ BanTimeout \in Nat \ {0}
  /\ NoPeer \notin Source

VARIABLES
  limiter,   \* source_limiter
  banned,    \* banned_sources, from sources to the instant the ban ends
  phase,     \* "poll", "add", "ban": what the loop is at; "down": no process
  peer,      \* the source of the command being run
  allowSet,  \* the kernel allow ipset, from entries to the instant they end
  banSet,    \* the kernel ban ipset, likewise
  audit      \* the last audit event about each source

kernelVars == <<allowSet, banSet>>
serverVars == <<states, now, outcome, limiter, banned, phase, peer, allowSet, banSet, audit>>

Events == {"none", "ssh_allow", "rate_limit_ban", "firewall_ban_failed", "firewall_allow_failed"}

\* A map from sources to instants.
Deadlines(m) == DOMAIN m \subseteq Source /\ \A s \in DOMAIN m : m[s] \in Nat

FreshLimiter == NewLimiter(BurstLimit, RefillLimit, Minute)

ServerTypeOK ==
  /\ TypeOK
  /\ limiter = [FreshLimiter EXCEPT !.buckets = limiter.buckets]
  /\ DOMAIN limiter.buckets \subseteq Source
  /\ Deadlines(banned) /\ Deadlines(allowSet) /\ Deadlines(banSet)
  /\ phase \in {"poll", "add", "ban", "down"}
  /\ peer \in Source \cup {NoPeer}
  /\ audit \in [Source -> Events]

-------------------------------------------------------------------------------
(* The memory of bans *)

\* Entries of a map of deadlines that have not ended at t.
Unexpired(m, t) == Restrict(m, {s \in DOMAIN m : m[s] > t})

\* Every packet starts with expire_banned_sources(now).
Bans == Unexpired(banned, now)

\* Mutant: a full table still takes one more ban.
Mut_Remember(s) ==
  IF Size(Bans) > MaxPartialStates /\ s \notin DOMAIN Bans
  THEN Bans
  ELSE Insert(Bans, s, now + BanTimeout)

\* Mutant: the memory outlives the kernel entry.
Mut_LongRemember(s) ==
  IF Size(Bans) >= MaxPartialStates /\ s \notin DOMAIN Bans
  THEN Bans
  ELSE Insert(Bans, s, now + BanTimeout + IpTimeout)

\* A full table of bans takes no new source; a known one is refreshed.
Remember(s) ==
  IF Size(Bans) >= MaxPartialStates /\ s \notin DOMAIN Bans
  THEN Bans
  ELSE Insert(Bans, s, now + BanTimeout)

-------------------------------------------------------------------------------
(* process_packet *)

\* The short circuit: a packet of a banned source changes nothing else.
Ignore(s) ==
  /\ phase = "poll"
  /\ s \in DOMAIN Bans
  /\ banned' = Bans
  /\ UNCHANGED <<states, now, outcome, limiter, phase, peer, allowSet, banSet, audit>>

\* Mutant: no short circuit, the kernel is trusted to drop the source.
Mut_Handle(s, k) ==
  /\ phase = "poll"
  /\ Process(s, k)
  /\ UNCHANGED <<now, allowSet, banSet, audit>>

\* The tracker judges the packet of a source that is not banned.
Handle(s, k) ==
  /\ phase = "poll"
  /\ s \notin DOMAIN Bans
  /\ Process(s, k)
  /\ UNCHANGED <<now, allowSet, banSet, audit>>

Invalid == {"rejected", "oversized"}

\* An invalid packet within the allowance of its source.
Tolerate(s, k) ==
  /\ Handle(s, k) /\ outcome' \in Invalid
  /\ Allows(limiter, s, now)
  /\ limiter' = AfterAllow(limiter, s, now)
  /\ banned' = Bans
  /\ UNCHANGED <<phase, peer>>

\* Mutant: every invalid packet bans.
Mut_Exceed(s, k) ==
  /\ Handle(s, k) /\ outcome' \in Invalid
  /\ limiter' = AfterAllow(limiter, s, now)
  /\ banned' = Remember(s)
  /\ phase' = "ban" /\ peer' = s

\* One too many: the ban is remembered first, then ipset is run.
Exceed(s, k) ==
  /\ Handle(s, k) /\ outcome' \in Invalid
  /\ ~Allows(limiter, s, now)
  /\ limiter' = AfterAllow(limiter, s, now)
  /\ banned' = Remember(s)
  /\ phase' = "ban" /\ peer' = s

Proceed(s, k) ==
  /\ Handle(s, k) /\ outcome' = "progress"
  /\ banned' = Bans
  /\ UNCHANGED <<limiter, phase, peer>>

Admit(s, k) ==
  /\ Handle(s, k) /\ outcome' = "accepted"
  /\ banned' = Bans
  /\ phase' = "add" /\ peer' = s
  /\ UNCHANGED limiter

\* The command is over and the loop goes on.
Done == phase' = "poll" /\ peer' = NoPeer

\* firewall.ban_ip: the entry lives from when the kernel takes it.
BanIp ==
  /\ phase = "ban"
  /\ banSet' = Insert(banSet, peer, now + BanTimeout)
  /\ audit' = [audit EXCEPT ![peer] = "rate_limit_ban"]
  /\ Done
  /\ UNCHANGED <<states, now, outcome, limiter, banned, allowSet>>

\* A full or failing ban set is logged and survived.
BanIpFails ==
  /\ phase = "ban"
  /\ audit' = [audit EXCEPT ![peer] = "firewall_ban_failed"]
  /\ Done
  /\ UNCHANGED <<states, now, outcome, limiter, banned, allowSet, banSet>>

AddIp ==
  /\ phase = "add"
  /\ allowSet' = Insert(allowSet, peer, now + IpTimeout)
  /\ audit' = [audit EXCEPT ![peer] = "ssh_allow"]
  /\ Done
  /\ UNCHANGED <<states, now, outcome, limiter, banned, banSet>>

-------------------------------------------------------------------------------
(* The end of the process, and the next one *)

\* The memory of the process goes with it; the kernel keeps its sets.
Die ==
  /\ states' = EmptyMap /\ outcome' = "none"
  /\ limiter' = FreshLimiter /\ banned' = EmptyMap
  /\ phase' = "down" /\ peer' = NoPeer
  /\ UNCHANGED now

\* A failing allow set is logged, and an error that process_packet returns.
AddIpFails ==
  /\ phase = "add"
  /\ audit' = [audit EXCEPT ![peer] = "firewall_allow_failed"]
  /\ Die
  /\ UNCHANGED kernelVars

\* A kill, a socket error, or an audit line that could not be written: every
\* `logger.log(..)?` returns.
Stop == phase # "down" /\ Die /\ UNCHANGED <<allowSet, banSet, audit>>

\* The same between a command that took effect and the audit line about it.
StopUnlogged ==
  /\ phase \in {"ban", "add"}
  /\ banSet' = IF phase = "ban" THEN Insert(banSet, peer, now + BanTimeout) ELSE banSet
  /\ allowSet' = IF phase = "add" THEN Insert(allowSet, peer, now + IpTimeout) ELSE allowSet
  /\ Die
  /\ UNCHANGED audit

\* systemd starts the daemon again with an empty memory; a preflight or a bind
\* that fails leaves it down.
Start ==
  /\ phase = "down"
  /\ phase' = "poll"
  /\ UNCHANGED <<states, now, outcome, limiter, banned, peer, allowSet, banSet, audit>>

\* Time passes in every phase; the kernel drops the entries that end.
ServerTick ==
  /\ Tick
  /\ allowSet' = Unexpired(allowSet, now')
  /\ banSet' = Unexpired(banSet, now')
  /\ UNCHANGED <<limiter, banned, phase, peer, audit>>

-------------------------------------------------------------------------------
ServerInit ==
  /\ Init
  /\ limiter = FreshLimiter /\ banned = EmptyMap
  /\ phase = "down" /\ peer = NoPeer
  /\ allowSet = EmptyMap /\ banSet = EmptyMap
  /\ audit = [s \in Source |-> "none"]

PacketOf(s, k) ==
  \/ Tolerate(s, k)
  \/ Exceed(s, k)
  \/ Proceed(s, k)
  \/ Admit(s, k)

ServerNext ==
  \/ ServerTick \/ Start \/ Stop \/ StopUnlogged
  \/ BanIp \/ BanIpFails \/ AddIp \/ AddIpFails
  \/ \E s \in Source : Ignore(s)
  \/ \E s \in Source, k \in Knock : PacketOf(s, k)

ServerSpec == ServerInit /\ [][ServerNext]_serverVars

-------------------------------------------------------------------------------
(* Properties *)

\* A source that is remembered as banned holds no partial state: its progress
\* is lost with the ban, and no packet of it reaches the tracker until the ban
\* has ended (the short circuit, src/server.rs:300, before tracker.process).
NoPartialStateWhileBanned == DOMAIN banned \cap DOMAIN states = {}

\* Whatever number of sources misbehaves, the memory of bans stays within
\* max_partial_states (remember_banned_source, src/server.rs:239-251).
BansBounded == Size(banned) <= MaxPartialStates

\* A ban that was reported as done is never shorter in the kernel than in the
\* daemon, however long the command took: the daemon does not ignore a source
\* that the firewall already lets through (src/server.rs:299, 317-318).
KernelBanCovers ==
  \A s \in DOMAIN banned :
    audit[s] = "rate_limit_ban" /\ ~(phase = "ban" /\ peer = s) /\ banned[s] > now
      => s \in DOMAIN banSet /\ banSet[s] >= banned[s]

\* No source gets an allow entry, nor a longer one, while it is remembered as
\* banned, even if it completes the sequence (src/server.rs:300-302, 341-342).
NoAllowWhileBanned ==
  [][\A s \in DOMAIN banned :
       banned[s] > now /\ s \in DOMAIN allowSet'
         => s \in DOMAIN allowSet /\ allowSet'[s] = allowSet[s]]_serverVars

\* "the daemon still short-circuits this source even if the kernel ban set
\* cannot accept the entry" (src/server.rs:315-316): when ban_ip fails, the
\* source is in the memory of bans.
FailedBanRemembered ==
  [][\A s \in Source :
       phase = "ban" /\ peer = s /\ phase' = "poll" /\ audit'[s] = "firewall_ban_failed"
         => s \in DOMAIN banned]_serverVars
===============================================================================
