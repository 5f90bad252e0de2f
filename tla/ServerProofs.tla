------------------------------ MODULE ServerProofs ------------------------------
(***************************************************************************)
(* The packet path for every set of sources, every sequence and every      *)
(* configured limit: the memory of bans beside the tracker, the limiter    *)
(* and the kernel's sets, while packets, commands that take time or fail,  *)
(* restarts and the clock interleave.                                      *)
(***************************************************************************)
EXTENDS BanHistory, KnockTrackerProofs, TokenBucketProofs

-------------------------------------------------------------------------------
(* The record observes; the daemon's steps are those of Server             *)

LEMMA RecordObserves == BInit => ServerInit
BY DEF BInit

LEMMA RecordedStep == [BNext]_banVars => [ServerNext]_serverVars
<1> SUFFICES ASSUME [BNext]_banVars PROVE [ServerNext]_serverVars
  OBVIOUS
<1>1. CASE BQuiet
  BY <1>1 DEF BQuiet, ServerNext
<1>2. CASE BEnd
  BY <1>2 DEF BEnd, ServerNext
<1>3. ASSUME NEW s \in Source, NEW k \in Knock, BPacket(s, k) PROVE ServerNext
  <2>1. PacketOf(s, k)
    BY <1>3 DEF BPacket, BTolerate, BOther, PacketOf
  <2> QED BY <2>1 DEF ServerNext
<1>4. CASE UNCHANGED banVars
  BY <1>4 DEF banVars, serverVars
<1> QED BY <1>1, <1>2, <1>3, <1>4 DEF BNext

-------------------------------------------------------------------------------
(* What the steps do *)

LEMMA UnexpiredFacts ==
  ASSUME NEW m, NEW t
  PROVE  /\ DOMAIN Unexpired(m, t) = {s \in DOMAIN m : m[s] > t}
         /\ \A s \in DOMAIN Unexpired(m, t) : Unexpired(m, t)[s] = m[s]
BY DEF Unexpired, Restrict

\* A packet that is handled is one of a source without a ban.  It may call the
\* limiter, it may be what a source is banned or admitted for, and it never
\* touches the kernel.
LEMMA PacketFacts ==
  ASSUME NEW s \in Source, NEW k \in Knock, PacketOf(s, k)
  PROVE  /\ phase = "poll" /\ s \notin DOMAIN Bans /\ Process(s, k)
         /\ UNCHANGED <<now, allowSet, banSet, audit>>
         /\ limiter' = limiter \/ limiter' = AfterAllow(limiter, s, now)
         /\ \/ banned' = Bans /\ UNCHANGED <<phase, peer>>
            \/ banned' = Bans /\ phase' = "add" /\ peer' = s
            \/ banned' = Remember(s) /\ phase' = "ban" /\ peer' = s /\ outcome' \in Invalid
BY DEF PacketOf, Tolerate, Exceed, Proceed, Admit, Handle

\* An invalid packet leaves no partial state of its source.
LEMMA InvalidHoldsNothing ==
  ASSUME NEW s \in Source, NEW k \in Knock, Process(s, k), outcome' \in Invalid,
         Table(Live)
  PROVE  s \notin DOMAIN states'
<1> DEFINE w == Without(Live, s)
<1>1. s \notin DOMAIN w
  BY WithoutFacts
<1> HIDE DEF w
<1>2. outcome' = "rejected" \/ outcome' = "oversized"
  BY DEF Invalid
<1>3. ASSUME NEW st, StartPartialState(st, s), s \notin DOMAIN st PROVE s \notin DOMAIN states'
  BY <1>2, <1>3 DEF StartPartialState
<1>4. CASE Oversized(s, k)
  BY <1>1, <1>4 DEF Oversized, w
<1>5. CASE Restart(s, k)
  <2>1. StartPartialState(w, s) \/ states' = w
    BY <1>5 DEF Restart, StartOrReject, w
  <2> QED BY <1>1, <1>3, <2>1
<1>6. CASE Begin(s, k)
  <2>1. StartPartialState(Live, s) /\ Expected(s) = 0
    BY <1>6 DEF Begin
  <2>2. s \notin DOMAIN Live
    <3> SUFFICES ASSUME s \in DOMAIN Live PROVE FALSE
      OBVIOUS
    <3>1. Live[s].next_step \in 1 .. Len(Sequence) - 1 /\ Live[s].next_step = 0
      BY <2>1 DEF Table, SourceState, Expected
    <3> QED BY <3>1, TrackerAssumption
  <2> QED BY <1>3, <2>1, <2>2
<1>7. CASE Advance(s, k)
  BY <1>2, <1>7 DEF Advance
<1>8. CASE Accept(s, k)
  BY <1>2, <1>8 DEF Accept
<1> QED BY <1>4, <1>5, <1>6, <1>7, <1>8 DEF Process

\* Every way the process ends.
LEMMA EndFacts ==
  ASSUME Stop \/ StopUnlogged \/ AddIpFails
  PROVE  Die
BY DEF Stop, StopUnlogged, AddIpFails

-------------------------------------------------------------------------------
(* The memory of bans *)

\* A memory of bans is bounded, and no ban in it is longer than a new one.
Memory(m, t) ==
  /\ Deadlines(m)
  /\ IsFiniteSet(DOMAIN m) /\ Size(m) <= MaxPartialStates
  /\ \A s \in DOMAIN m : m[s] <= t + BanTimeout

LEMMA MemoryLater ==
  ASSUME NEW m, NEW t \in Nat, NEW u \in Nat, t <= u, Memory(m, t)
  PROVE  Memory(m, u)
BY ServerAssumption DEF Memory, Deadlines

LEMMA EmptyMemory ==
  ASSUME NEW t PROVE Memory(EmptyMap, t)
<1>1. DOMAIN EmptyMap = {}
  BY DEF EmptyMap
<1>2. IsFiniteSet(DOMAIN EmptyMap) /\ Size(EmptyMap) = 0
  BY <1>1, FS_EmptySet DEF Size
<1> QED BY <1>1, <1>2, TrackerAssumption DEF Memory, Deadlines

LEMMA BansMemory ==
  ASSUME now \in Nat, Memory(banned, now)
  PROVE  /\ Memory(Bans, now)
         /\ DOMAIN Bans \subseteq DOMAIN banned
         /\ \A s \in DOMAIN Bans : Bans[s] = banned[s]
<1>1. /\ DOMAIN Bans \subseteq DOMAIN banned
      /\ \A s \in DOMAIN Bans : Bans[s] = banned[s]
  BY UnexpiredFacts DEF Bans
<1>2. IsFiniteSet(DOMAIN Bans) /\ Size(Bans) <= Size(banned)
  BY <1>1, FS_Subset DEF Memory, Size
<1>3. Size(Bans) \in Nat /\ Size(banned) \in Nat
  BY <1>2, FS_CardinalityType DEF Memory, Size
<1>4. Size(Bans) <= MaxPartialStates
  BY <1>2, <1>3, TrackerAssumption DEF Memory
<1>5. Deadlines(Bans) /\ \A s \in DOMAIN Bans : Bans[s] <= now + BanTimeout
  BY <1>1 DEF Memory, Deadlines
<1> QED BY <1>1, <1>2, <1>4, <1>5 DEF Memory

\* Remembering a source adds it, or overwrites it, or leaves a full memory alone.
LEMMA RememberMemory ==
  ASSUME now \in Nat, Memory(banned, now), NEW s \in Source
  PROVE  /\ Memory(Remember(s), now)
         /\ DOMAIN Remember(s) \subseteq DOMAIN Bans \cup {s}
         /\ \A x \in DOMAIN Remember(s) \ {s} : Remember(s)[x] = Bans[x]
<1> DEFINE B == Bans
           r == Remember(s)
<1>0. Memory(B, now)
  BY BansMemory
<1>1. CASE Size(B) >= MaxPartialStates /\ s \notin DOMAIN B
  <2>1. r = B
    BY <1>1 DEF Remember
  <2> QED BY <1>0, <2>1
<1>2. CASE ~(Size(B) >= MaxPartialStates /\ s \notin DOMAIN B)
  <2>1. r = Insert(B, s, now + BanTimeout)
    BY <1>2 DEF Remember
  <2> HIDE DEF B, r
  <2>2. /\ DOMAIN r = DOMAIN B \cup {s} /\ r[s] = now + BanTimeout
        /\ \A x \in DOMAIN B \ {s} : r[x] = B[x]
    BY <2>1 DEF Insert
  <2>3. IsFiniteSet(DOMAIN r) /\ Size(r) <= MaxPartialStates
    <3>1. CASE s \in DOMAIN B
      <4>1. DOMAIN r = DOMAIN B
        BY <2>2, <3>1
      <4> QED BY <1>0, <4>1 DEF Memory, Size
    <3>2. CASE s \notin DOMAIN B
      <4>1. IsFiniteSet(DOMAIN r) /\ Size(r) = Size(B) + 1
        BY <1>0, <2>2, <3>2, FS_AddElement DEF Memory, Size
      <4>2. Size(B) \in Nat
        BY <1>0, FS_CardinalityType DEF Memory, Size
      <4> QED BY <1>2, <3>2, <4>1, <4>2, TrackerAssumption
    <3> QED BY <3>1, <3>2
  <2>4. now + BanTimeout \in Nat
    BY ServerAssumption
  <2>5. Deadlines(r)
    BY <1>0, <2>2, <2>4 DEF Memory, Deadlines
  <2>6. \A x \in DOMAIN r : r[x] <= now + BanTimeout
    BY <1>0, <2>2, <2>4 DEF Memory
  <2> QED BY <2>2, <2>3, <2>5, <2>6 DEF Memory, B, r
<1> QED BY <1>1, <1>2

-------------------------------------------------------------------------------
(* The invariant, in parts *)

\* Where the loop is.  A source that is being admitted is not banned.
Loop ==
  /\ phase \in {"poll", "add", "ban", "down"}
  /\ peer \in Source \cup {NoPeer}
  /\ phase \in {"add", "ban"} => peer \in Source
  /\ phase = "add" => peer \notin DOMAIN banned

Kernel ==
  /\ Deadlines(allowSet) /\ Deadlines(banSet)
  /\ audit \in [Source -> Events]

\* The tracker keeps its own invariant beside the rest, the limiter is one of its
\* parameters, and no ban is longer than one of now: KernelBanCovers needs that
\* for a kernel entry that is added late.
ServerInv ==
  /\ IInv
  /\ Limiter(limiter, BurstLimit, RefillLimit, Minute, Source, now)
  /\ Memory(banned, now)
  /\ Loop /\ Kernel
  /\ NoPartialStateWhileBanned
  /\ KernelBanCovers

LEMMA GivenLimits == Parameters(BurstLimit, RefillLimit, Minute)
BY ServerAssumption DEF Parameters

LEMMA ServerInvInit == ServerInit => ServerInv
<1> SUFFICES ASSUME ServerInit PROVE ServerInv
  OBVIOUS
<1>1. IInv
  BY InitIInv DEF ServerInit
<1>2. Limiter(limiter, BurstLimit, RefillLimit, Minute, Source, now)
  BY FreshIsLimiter DEF ServerInit, FreshLimiter
<1>3. Memory(banned, now)
  BY EmptyMemory DEF ServerInit
<1>4. DOMAIN EmptyMap = {}
  BY DEF EmptyMap
<1>5. Loop
  BY DEF ServerInit, Loop
<1>6. Kernel
  BY <1>4 DEF ServerInit, Kernel, Deadlines, Events
<1>7. NoPartialStateWhileBanned /\ KernelBanCovers
  BY <1>4 DEF ServerInit, NoPartialStateWhileBanned, KernelBanCovers
<1> QED BY <1>1, <1>2, <1>3, <1>5, <1>6, <1>7 DEF ServerInv

\* The clock moves forward; a ban is enough for the memory, the limiter and the
\* tracker to stay what they are.
LEMMA TickKeeps == ServerInv /\ ServerTick => ServerInv'
<1> SUFFICES ASSUME ServerInv, ServerTick PROVE ServerInv'
  OBVIOUS
<1>1. /\ now \in Nat /\ now' \in Nat /\ now <= now'
      /\ UNCHANGED <<states, outcome, limiter, banned, phase, peer, audit>>
      /\ allowSet' = Unexpired(allowSet, now') /\ banSet' = Unexpired(banSet, now')
  BY DEF ServerTick, Tick, ServerInv, IInv, TypeOK
<1>2. IInv'
  BY <1>1 DEF ServerInv, IInv, TypeOK, PartialStatesBounded
<1>3. Limiter(limiter, BurstLimit, RefillLimit, Minute, Source, now')
  BY <1>1, LimiterLater DEF ServerInv
<1>4. Memory(banned, now')
  BY <1>1, MemoryLater DEF ServerInv
<1>5. Loop' /\ NoPartialStateWhileBanned'
  BY <1>1 DEF ServerInv, Loop, NoPartialStateWhileBanned
<1>6. Kernel'
  <2>1. Deadlines(allowSet) /\ Deadlines(banSet) /\ audit \in [Source -> Events]
    BY DEF ServerInv, Kernel
  <2>2. ASSUME NEW m, Deadlines(m), NEW t PROVE Deadlines(Unexpired(m, t))
    BY <2>2 DEF Deadlines, Unexpired, Restrict
  <2> QED BY <1>1, <2>1, <2>2 DEF Kernel
<1>7. KernelBanCovers'
  <2> SUFFICES ASSUME NEW s \in DOMAIN banned, audit[s] = "rate_limit_ban",
                      ~(phase = "ban" /\ peer = s), banned[s] > now'
               PROVE  s \in DOMAIN banSet' /\ banSet'[s] >= banned[s]
    BY <1>1 DEF KernelBanCovers
  <2>1. banned[s] \in Nat
    BY DEF ServerInv, Memory, Deadlines
  <2>2. s \in DOMAIN banSet /\ banSet[s] >= banned[s]
    BY <1>1, <2>1 DEF ServerInv, KernelBanCovers
  <2>3. banSet[s] \in Nat
    BY <2>2 DEF ServerInv, Kernel, Deadlines
  <2>4. banSet[s] > now'
    BY <1>1, <2>1, <2>2, <2>3
  <2> QED BY <1>1, <2>2, <2>4, UnexpiredFacts
<1> QED BY <1>1, <1>2, <1>3, <1>4, <1>5, <1>6, <1>7 DEF ServerInv

\* The process ends in the middle of anything: what it remembered is gone, and
\* what the kernel holds is still well formed.
LEMMA EndKeeps == ServerInv /\ (Stop \/ StopUnlogged \/ AddIpFails) => ServerInv'
<1> SUFFICES ASSUME ServerInv, Stop \/ StopUnlogged \/ AddIpFails PROVE ServerInv'
  OBVIOUS
<1>0. DOMAIN EmptyMap = {}
  BY DEF EmptyMap
<1>1. /\ states' = EmptyMap /\ outcome' = "none" /\ limiter' = FreshLimiter
      /\ banned' = EmptyMap /\ phase' = "down" /\ peer' = NoPeer /\ now' = now
  BY EndFacts DEF Die
<1>2. IInv'
  <2>1. now \in Nat
    BY DEF ServerInv, IInv, TypeOK
  <2>2. IsFiniteSet(DOMAIN EmptyMap) /\ Size(EmptyMap) = 0
    BY <1>0, FS_EmptySet DEF Size
  <2> QED BY <1>0, <1>1, <2>1, <2>2, TrackerAssumption
          DEF IInv, TypeOK, Outcomes, PartialStatesBounded
<1>3. Limiter(limiter', BurstLimit, RefillLimit, Minute, Source, now')
  BY <1>1, FreshIsLimiter DEF FreshLimiter
<1>4. Memory(banned', now')
  BY <1>1, EmptyMemory
<1>5. Loop' /\ NoPartialStateWhileBanned' /\ KernelBanCovers'
  BY <1>0, <1>1 DEF Loop, NoPartialStateWhileBanned, KernelBanCovers
<1>6. Kernel'
  <2>1. now + BanTimeout \in Nat /\ now + IpTimeout \in Nat
    BY ServerAssumption DEF ServerInv, IInv, TypeOK
  <2>2. CASE Stop
    BY <2>2 DEF Stop, ServerInv, Kernel
  <2>3. CASE AddIpFails
    BY <2>3 DEF AddIpFails, kernelVars, ServerInv, Kernel, Events
  <2>4. CASE StopUnlogged
    <3>1. peer \in Source
      BY <2>4 DEF StopUnlogged, ServerInv, Loop
    <3>2. ASSUME NEW m, Deadlines(m), NEW v \in Nat PROVE Deadlines(Insert(m, peer, v))
      BY <3>1, <3>2 DEF Deadlines, Insert
    <3>3. /\ banSet' = banSet \/ banSet' = Insert(banSet, peer, now + BanTimeout)
          /\ allowSet' = allowSet \/ allowSet' = Insert(allowSet, peer, now + IpTimeout)
          /\ audit' = audit
      BY <2>4 DEF StopUnlogged
    <3>4. Deadlines(allowSet) /\ Deadlines(banSet) /\ audit \in [Source -> Events]
      BY DEF ServerInv, Kernel
    <3> QED BY <2>1, <3>2, <3>3, <3>4 DEF Kernel
  <2> QED BY <2>2, <2>3, <2>4
<1> QED BY <1>2, <1>3, <1>4, <1>5, <1>6 DEF ServerInv

\* A command that takes effect, or a ban that fails: the loop goes on.
LEMMA CommandKeeps == ServerInv /\ (BanIp \/ BanIpFails \/ AddIp) => ServerInv'
<1> SUFFICES ASSUME ServerInv, BanIp \/ BanIpFails \/ AddIp PROVE ServerInv'
  OBVIOUS
<1>1. /\ UNCHANGED <<states, now, outcome, limiter, banned>>
      /\ phase' = "poll" /\ peer' = NoPeer /\ peer \in Source
  BY DEF BanIp, BanIpFails, AddIp, Done, ServerInv, Loop
<1>t. now \in Nat /\ now + BanTimeout \in Nat /\ now + IpTimeout \in Nat
  BY ServerAssumption DEF ServerInv, IInv, TypeOK
<1>2. IInv'
  BY <1>1 DEF ServerInv, IInv, TypeOK, PartialStatesBounded
<1>3. /\ Limiter(limiter', BurstLimit, RefillLimit, Minute, Source, now')
      /\ Memory(banned', now')
  BY <1>1 DEF ServerInv
<1>4. Loop' /\ NoPartialStateWhileBanned'
  BY <1>1 DEF ServerInv, Loop, NoPartialStateWhileBanned
<1>k. Deadlines(allowSet) /\ Deadlines(banSet) /\ audit \in [Source -> Events]
  BY DEF ServerInv, Kernel
<1>b. ASSUME NEW s \in DOMAIN banned
      PROVE  /\ s \in Source /\ banned[s] \in Nat /\ banned[s] <= now + BanTimeout
             /\ audit[s] = "rate_limit_ban" /\ ~(phase = "ban" /\ peer = s) /\ banned[s] > now
                  => s \in DOMAIN banSet /\ banSet[s] >= banned[s]
  BY DEF ServerInv, Memory, Deadlines, KernelBanCovers
<1>5. ASSUME BanIp PROVE Kernel' /\ KernelBanCovers'
  <2>1. /\ phase = "ban" /\ banSet' = Insert(banSet, peer, now + BanTimeout)
        /\ audit' = [audit EXCEPT ![peer] = "rate_limit_ban"] /\ allowSet' = allowSet
    BY <1>5 DEF BanIp
  <2>2. /\ DOMAIN banSet' = DOMAIN banSet \cup {peer} /\ banSet'[peer] = now + BanTimeout
        /\ \A x \in DOMAIN banSet \ {peer} : banSet'[x] = banSet[x]
    BY <2>1 DEF Insert
  <2>3. Kernel'
    BY <1>1, <1>t, <1>k, <2>1, <2>2 DEF Kernel, Deadlines, Events
  <2>4. KernelBanCovers'
    <3> SUFFICES ASSUME NEW s \in DOMAIN banned, audit'[s] = "rate_limit_ban", banned[s] > now
                 PROVE  s \in DOMAIN banSet' /\ banSet'[s] >= banned[s]
      BY <1>1 DEF KernelBanCovers
    <3>1. CASE s = peer
      BY <1>t, <1>b, <2>2, <3>1
    <3>2. CASE s # peer
      <4>1. audit[s] = "rate_limit_ban"
        BY <1>b, <1>k, <2>1, <3>2
      <4> QED BY <1>b, <2>2, <3>2, <4>1
    <3> QED BY <3>1, <3>2
  <2> QED BY <2>3, <2>4
<1>6. ASSUME NEW e \in Events \ {"rate_limit_ban"}, audit' = [audit EXCEPT ![peer] = e],
             banSet' = banSet
      PROVE  audit' \in [Source -> Events] /\ KernelBanCovers'
  <2>1. audit' \in [Source -> Events]
    BY <1>1, <1>6, <1>k
  <2> SUFFICES ASSUME NEW s \in DOMAIN banned, audit'[s] = "rate_limit_ban", banned[s] > now
               PROVE  s \in DOMAIN banSet /\ banSet[s] >= banned[s]
    BY <1>1, <1>6, <2>1 DEF KernelBanCovers
  <2>2. s # peer /\ audit[s] = "rate_limit_ban"
    BY <1>1, <1>6, <1>b, <1>k
  <2> QED BY <1>b, <2>2
<1>7. ASSUME BanIpFails PROVE Kernel' /\ KernelBanCovers'
  <2>1. /\ audit' = [audit EXCEPT ![peer] = "firewall_ban_failed"]
        /\ UNCHANGED <<allowSet, banSet>>
    BY <1>7 DEF BanIpFails
  <2>2. "firewall_ban_failed" \in Events \ {"rate_limit_ban"}
    BY DEF Events
  <2>3. audit' \in [Source -> Events] /\ KernelBanCovers'
    BY <1>6, <2>1, <2>2
  <2> QED BY <1>k, <2>1, <2>3 DEF Kernel
<1>8. ASSUME AddIp PROVE Kernel' /\ KernelBanCovers'
  <2>1. /\ audit' = [audit EXCEPT ![peer] = "ssh_allow"] /\ banSet' = banSet
        /\ allowSet' = Insert(allowSet, peer, now + IpTimeout)
    BY <1>8 DEF AddIp
  <2>2. "ssh_allow" \in Events \ {"rate_limit_ban"}
    BY DEF Events
  <2>3. audit' \in [Source -> Events] /\ KernelBanCovers'
    BY <1>6, <2>1, <2>2
  <2>4. Deadlines(allowSet')
    BY <1>1, <1>t, <1>k, <2>1 DEF Deadlines, Insert
  <2> QED BY <1>k, <2>1, <2>3, <2>4 DEF Kernel
<1> QED BY <1>2, <1>3, <1>4, <1>5, <1>7, <1>8 DEF ServerInv

\* A packet of a banned source, and a start, change nothing but what is remembered.
LEMMA QuietKeeps == ServerInv /\ (Start \/ \E s \in Source : Ignore(s)) => ServerInv'
<1> SUFFICES ASSUME ServerInv, Start \/ \E s \in Source : Ignore(s) PROVE ServerInv'
  OBVIOUS
<1>1. /\ UNCHANGED <<states, now, outcome, limiter, peer, allowSet, banSet, audit>>
      /\ banned' = banned \/ banned' = Bans
      /\ phase' = "poll" /\ phase # "ban"
  BY DEF Start, Ignore
<1>2. IInv' /\ Kernel'
  BY <1>1 DEF ServerInv, IInv, TypeOK, PartialStatesBounded, Kernel
<1>3. now \in Nat /\ Memory(banned, now)
  BY DEF ServerInv, IInv, TypeOK
<1>4. /\ Memory(banned', now') /\ DOMAIN banned' \subseteq DOMAIN banned
      /\ \A s \in DOMAIN banned' : banned'[s] = banned[s]
  BY <1>1, <1>3, BansMemory
<1>5. Limiter(limiter', BurstLimit, RefillLimit, Minute, Source, now')
  BY <1>1 DEF ServerInv
<1>6. Loop'
  BY <1>1 DEF ServerInv, Loop
<1>7. NoPartialStateWhileBanned'
  BY <1>1, <1>4 DEF ServerInv, NoPartialStateWhileBanned
<1>8. KernelBanCovers'
  BY <1>1, <1>4 DEF ServerInv, KernelBanCovers
<1> QED BY <1>2, <1>4, <1>5, <1>6, <1>7, <1>8 DEF ServerInv

\* A packet that is handled keeps the tracker and the memory of bans apart.
LEMMA PacketKeeps ==
  ASSUME ServerInv, NEW s \in Source, NEW k \in Knock, PacketOf(s, k)
  PROVE  ServerInv'
<1>1. /\ phase = "poll" /\ s \notin DOMAIN Bans /\ Process(s, k)
      /\ UNCHANGED <<now, allowSet, banSet, audit>>
      /\ limiter' = limiter \/ limiter' = AfterAllow(limiter, s, now)
      /\ \/ banned' = Bans /\ UNCHANGED <<phase, peer>>
         \/ banned' = Bans /\ phase' = "add" /\ peer' = s
         \/ banned' = Remember(s) /\ phase' = "ban" /\ peer' = s /\ outcome' \in Invalid
  BY PacketFacts
<1>t. /\ Table(states) /\ Bounded(states) /\ now \in Nat /\ outcome \in Outcomes
      /\ Memory(banned, now) /\ Table(Live)
      /\ Limiter(limiter, BurstLimit, RefillLimit, Minute, Source, now)
  BY IInvTable, TypeOKTable DEF ServerInv, IInv
<1>2. IInv'
  <2>1. Table(states') /\ Bounded(states') /\ outcome' \in Outcomes
    BY <1>1, <1>t, ProcessTable
  <2> QED BY <1>1, <1>t, <2>1 DEF IInv, TypeOK, Table, Bounded, PartialStatesBounded
<1>3. Limiter(limiter', BurstLimit, RefillLimit, Minute, Source, now')
  <2> DEFINE m == AfterAllow(limiter, s, now)
  <2>1. PICK had \in 0 .. BurstLimit, since \in Nat :
          Call(limiter, m, s, now, had, since, BurstLimit, RefillLimit, Minute)
    BY <1>t, GivenLimits, CallFacts
  <2>2. limiter' = limiter \/ limiter' = m
    BY <1>1
  <2> HIDE DEF m
  <2>3. Limiter(m, BurstLimit, RefillLimit, Minute, Source, now)
    BY <1>t, <2>1, GivenLimits, CallLimiter
  <2> QED BY <1>1, <1>t, <2>2, <2>3
<1>4. /\ Memory(Bans, now) /\ Memory(Remember(s), now)
      /\ DOMAIN Bans \subseteq DOMAIN banned
      /\ \A x \in DOMAIN Bans : Bans[x] = banned[x]
      /\ DOMAIN Remember(s) \subseteq DOMAIN Bans \cup {s}
      /\ \A x \in DOMAIN Remember(s) \ {s} : Remember(s)[x] = Bans[x]
  BY <1>t, BansMemory, RememberMemory
<1>5. Memory(banned', now')
  BY <1>1, <1>4
<1>6. Loop'
  BY <1>1 DEF ServerInv, Loop
<1>7. Kernel'
  BY <1>1 DEF ServerInv, Kernel
<1>8. NoPartialStateWhileBanned'
  <2> SUFFICES ASSUME NEW q \in DOMAIN banned' PROVE q \notin DOMAIN states'
    BY DEF NoPartialStateWhileBanned
  <2>1. CASE q = s
    <3>1. outcome' \in Invalid
      BY <1>1, <2>1
    <3> QED BY <1>1, <1>t, <2>1, <3>1, InvalidHoldsNothing
  <2>2. CASE q # s
    <3>1. q \in DOMAIN banned /\ q \in Source
      BY <1>1, <1>4, <1>t, <2>2 DEF Memory, Deadlines
    <3>2. q \notin DOMAIN Live
      BY <3>1, LiveFacts DEF ServerInv, NoPartialStateWhileBanned
    <3>3. q \in DOMAIN states' <=> q \in DOMAIN Live
      BY <1>1, <2>2, <3>1, ProcessTouchesOwnSource
    <3> QED BY <3>2, <3>3
  <2> QED BY <2>1, <2>2
<1>9. KernelBanCovers'
  <2> SUFFICES ASSUME NEW q \in DOMAIN banned', audit[q] = "rate_limit_ban",
                      ~(phase' = "ban" /\ peer' = q), banned'[q] > now
               PROVE  q \in DOMAIN banSet /\ banSet[q] >= banned'[q]
    BY <1>1 DEF KernelBanCovers
  <2>1. q \in DOMAIN banned /\ banned'[q] = banned[q]
    BY <1>1, <1>4
  <2> QED BY <1>1, <2>1 DEF ServerInv, KernelBanCovers
<1> QED BY <1>2, <1>3, <1>5, <1>6, <1>7, <1>8, <1>9 DEF ServerInv

LEMMA ServerInvStep == ServerInv /\ [ServerNext]_serverVars => ServerInv'
<1> SUFFICES ASSUME ServerInv, [ServerNext]_serverVars PROVE ServerInv'
  OBVIOUS
<1>1. CASE UNCHANGED serverVars
  BY <1>1 DEF serverVars, ServerInv, IInv, TypeOK, PartialStatesBounded, Loop, Kernel,
              NoPartialStateWhileBanned, KernelBanCovers
<1> QED BY <1>1, TickKeeps, EndKeeps, CommandKeeps, QuietKeeps, PacketKeeps DEF ServerNext

LEMMA ServerInvAlways == BSpec => []ServerInv
<1>1. BInit => ServerInv
  BY RecordObserves, ServerInvInit
<1>2. ServerInv /\ [BNext]_banVars => ServerInv'
  BY RecordedStep, ServerInvStep
<1> QED BY <1>1, <1>2, PTL DEF BSpec

-------------------------------------------------------------------------------
(* The theorems *)

\* Every reachable state of the packet path is well typed.
THEOREM ServerTypeCorrect == BSpec => []ServerTypeOK
<1>1. ServerInv => ServerTypeOK
  <2> SUFFICES ASSUME ServerInv PROVE ServerTypeOK
    OBVIOUS
  <2>1. TypeOK /\ Deadlines(banned)
    BY DEF ServerInv, IInv, Memory
  <2>2. /\ limiter = [FreshLimiter EXCEPT !.buckets = limiter.buckets]
        /\ DOMAIN limiter.buckets \subseteq Source
    BY Zenon DEF ServerInv, Limiter, FreshLimiter
  <2>3. /\ Deadlines(allowSet) /\ Deadlines(banSet) /\ audit \in [Source -> Events]
        /\ phase \in {"poll", "add", "ban", "down"} /\ peer \in Source \cup {NoPeer}
    BY DEF ServerInv, Kernel, Loop
  <2> QED BY <2>1, <2>2, <2>3, Zenon DEF ServerTypeOK
<1> QED BY <1>1, ServerInvAlways, PTL

\* However packets, bans, expiries and restarts interleave, a source remembered
\* as banned has no partial state (the short circuit and the order of tracker,
\* limiter and ban in process_packet, src/server.rs:299-317).
THEOREM BannedHoldNothing == BSpec => []NoPartialStateWhileBanned
<1>1. ServerInv => NoPartialStateWhileBanned
  BY DEF ServerInv
<1> QED BY <1>1, ServerInvAlways, PTL

\* However many sources misbehave, the memory of bans never holds more than
\* max_partial_states of them (remember_banned_source, src/server.rs:239-251).
THEOREM BansStayBounded == BSpec => []BansBounded
<1>1. ServerInv => BansBounded
  BY DEF ServerInv, Memory, BansBounded
<1> QED BY <1>1, ServerInvAlways, PTL

\* However late the kernel takes the entry of a ban, it outlasts the daemon's
\* memory of it (remember_banned_source before ban_ip, src/server.rs:317-318).
THEOREM KernelOutlastsMemory == BSpec => []KernelBanCovers
<1>1. ServerInv => KernelBanCovers
  BY DEF ServerInv
<1> QED BY <1>1, ServerInvAlways, PTL

\* No interleaving gives a banned source an allow entry, also not a command that
\* was started before the ban (process_packet, src/server.rs:299-342).
THEOREM BannedNotAdmitted == BSpec => NoAllowWhileBanned
<1> DEFINE Kept == \A s \in DOMAIN banned :
                     banned[s] > now /\ s \in DOMAIN allowSet'
                       => s \in DOMAIN allowSet /\ allowSet'[s] = allowSet[s]
<1>1. ServerInv /\ [ServerNext]_serverVars => [Kept]_serverVars
  <2> SUFFICES ASSUME ServerInv, ServerNext PROVE Kept
    OBVIOUS
  <2> SUFFICES ASSUME NEW s \in DOMAIN banned, s \in DOMAIN allowSet'
               PROVE  s \in DOMAIN allowSet /\ allowSet'[s] = allowSet[s]
    OBVIOUS
  <2>1. CASE allowSet' = allowSet
    BY <2>1
  <2>2. CASE allowSet' = Unexpired(allowSet, now')
    BY <2>2 DEF Unexpired, Restrict
  <2>3. CASE phase = "add" /\ allowSet' = Insert(allowSet, peer, now + IpTimeout)
    <3>1. s # peer
      BY <2>3 DEF ServerInv, Loop
    <3> QED BY <2>3, <3>1 DEF Insert
  <2> QED BY <2>1, <2>2, <2>3, PacketFacts
          DEF ServerNext, ServerTick, Start, Stop, StopUnlogged, BanIp, BanIpFails,
              AddIp, AddIpFails, kernelVars, Ignore
<1>2. NoAllowWhileBanned <=> [][Kept]_serverVars
  BY DEF NoAllowWhileBanned
<1>3. BSpec => [][ServerNext]_serverVars
  BY RecordedStep, PTL DEF BSpec
<1> HIDE DEF Kept
<1> QED BY <1>1, <1>2, <1>3, ServerInvAlways, PTL

-------------------------------------------------------------------------------
(* What a ban is for *)

\* What is left of the allowance of a source and its packets tolerated since
\* make up an allowance.
RefusalInv ==
  /\ ServerInv
  /\ refused \in [Source -> Seq(Nat)]
  /\ Allowance(limiter, refused, BurstLimit, RefillLimit)

\* A limiter without buckets owes nobody anything.
LEMMA FreshAllowance ==
  ASSUME NEW g PROVE Allowance(FreshLimiter, g, BurstLimit, RefillLimit)
<1>1. DOMAIN FreshLimiter.buckets = {}
  BY DEF FreshLimiter, NewLimiter, EmptyMap
<1> QED BY <1>1 DEF Allowance

LEMMA RefusalInvInit == BInit => RefusalInv
<1> SUFFICES ASSUME BInit PROVE RefusalInv
  OBVIOUS
<1>1. ServerInv
  BY RecordObserves, ServerInvInit
<1>2. refused \in [Source -> Seq(Nat)]
  BY DEF BInit, Nothing
<1>3. Allowance(limiter, refused, BurstLimit, RefillLimit)
  BY FreshAllowance DEF BInit, ServerInit
<1> QED BY <1>1, <1>2, <1>3 DEF RefusalInv

\* CallAllowance for the limiter of the daemon.
LEMMA AllowanceOfPacket ==
  ASSUME RefusalInv, NEW s \in Source
  PROVE  LET m == AfterAllow(limiter, s, now) IN
         /\ Allows(limiter, s, now) =>
              Allowance(m, [refused EXCEPT ![s] = Append(@, now)], BurstLimit, RefillLimit)
         /\ ~Allows(limiter, s, now) =>
              /\ Allowance(m, refused, BurstLimit, RefillLimit)
              /\ Cardinality(Recent(refused[s], now, Minute)) >= Least(BurstLimit, RefillLimit)
<1>1. /\ now \in Nat /\ refused \in [Source -> Seq(Nat)]
      /\ Limiter(limiter, BurstLimit, RefillLimit, Minute, Source, now)
      /\ Allowance(limiter, refused, BurstLimit, RefillLimit)
  BY DEF RefusalInv, ServerInv, IInv, TypeOK
<1> QED BY <1>1, GivenLimits, CallAllowance

LEMMA RefusalInvStep == RefusalInv /\ [BNext]_banVars => RefusalInv'
<1> SUFFICES ASSUME RefusalInv, [BNext]_banVars PROVE RefusalInv'
  OBVIOUS
<1>0. ServerInv'
  BY RecordedStep, ServerInvStep DEF RefusalInv
<1>t. now \in Nat /\ refused \in [Source -> Seq(Nat)]
      /\ Allowance(limiter, refused, BurstLimit, RefillLimit)
  BY DEF RefusalInv, ServerInv, IInv, TypeOK
<1>1. ASSUME UNCHANGED <<limiter, refused>> PROVE RefusalInv'
  BY <1>0, <1>1, <1>t DEF RefusalInv, Allowance
<1>2. CASE BQuiet
  <2>1. UNCHANGED <<limiter, refused>>
    BY <1>2 DEF BQuiet, ServerTick, Start, BanIp, BanIpFails, AddIp, Ignore
  <2> QED BY <1>1, <2>1
<1>3. CASE BEnd
  <2>1. limiter' = FreshLimiter /\ refused' = Nothing
    BY <1>3, EndFacts DEF BEnd, Die
  <2>2. Allowance(limiter', refused', BurstLimit, RefillLimit)
    BY <2>1, FreshAllowance
  <2>3. refused' \in [Source -> Seq(Nat)]
    BY <2>1 DEF Nothing
  <2> QED BY <1>0, <2>2, <2>3 DEF RefusalInv, Allowance
<1>4. ASSUME NEW s \in Source, NEW k \in Knock, BTolerate(s, k) PROVE RefusalInv'
  <2>1. /\ Allows(limiter, s, now) /\ limiter' = AfterAllow(limiter, s, now)
        /\ refused' = [refused EXCEPT ![s] = Append(@, now)]
    BY <1>4 DEF BTolerate, Tolerate
  <2>2. Allowance(limiter', refused', BurstLimit, RefillLimit)
    BY <2>1, AllowanceOfPacket
  <2>3. refused' \in [Source -> Seq(Nat)]
    BY <1>t, <2>1
  <2> QED BY <1>0, <2>2, <2>3 DEF RefusalInv, Allowance
<1>5. ASSUME NEW s \in Source, NEW k \in Knock, BOther(s, k) PROVE RefusalInv'
  <2>1. CASE Exceed(s, k)
    <3>1. /\ ~Allows(limiter, s, now) /\ limiter' = AfterAllow(limiter, s, now)
          /\ refused' = refused
      BY <1>5, <2>1 DEF BOther, Exceed
    <3>2. Allowance(limiter', refused', BurstLimit, RefillLimit)
      BY <3>1, AllowanceOfPacket
    <3> QED BY <1>0, <1>t, <3>1, <3>2 DEF RefusalInv, Allowance
  <2>2. CASE Proceed(s, k) \/ Admit(s, k)
    <3>1. UNCHANGED <<limiter, refused>>
      BY <1>5, <2>2 DEF BOther, Proceed, Admit
    <3> QED BY <1>1, <3>1
  <2> QED BY <1>5, <2>1, <2>2 DEF BOther
<1>6. CASE UNCHANGED banVars
  <2>1. UNCHANGED <<limiter, refused>>
    BY <1>6 DEF banVars
  <2> QED BY <1>1, <2>1
<1> QED BY <1>2, <1>3, <1>4, <1>5, <1>6 DEF BNext, BPacket

\* No packet of another source counts: when process_packet bans a source, an
\* allowance of its own packets was refused and tolerated within the last minute
\* (src/server.rs:312-317 with src/rate_limit.rs:58-81).
THEOREM BanDeserved == BSpec => BannedOnlyAfterRefusals
<1> DEFINE Deserved ==
      phase = "poll" /\ phase' = "ban"
        => InLastMinute(refused[peer']) >= Least(BurstLimit, RefillLimit)
<1>1. RefusalInv /\ [BNext]_banVars => [Deserved]_banVars
  <2> SUFFICES ASSUME RefusalInv, BNext, phase = "poll", phase' = "ban"
               PROVE  Cardinality(Recent(refused[peer'], now, Minute))
                        >= Least(BurstLimit, RefillLimit)
    BY DEF Recent, InLastMinute
  <2>1. PICK s \in Source, k \in Knock : Exceed(s, k)
    BY EndFacts DEF BNext, BQuiet, BEnd, Die, BPacket, BTolerate, BOther, ServerTick, Start,
           BanIp, BanIpFails, AddIp, Done, Ignore, Tolerate, Proceed, Admit
  <2>2. ~Allows(limiter, s, now) /\ peer' = s
    BY <2>1 DEF Exceed
  <2> QED BY <2>2, AllowanceOfPacket
<1>2. BannedOnlyAfterRefusals <=> [][Deserved]_banVars
  BY DEF BannedOnlyAfterRefusals
<1> HIDE DEF Deserved
<1> QED BY <1>1, <1>2, RefusalInvInit, RefusalInvStep, PTL DEF BSpec
=================================================================================
