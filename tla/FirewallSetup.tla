---------------------------- MODULE FirewallSetup -----------------------------
(***************************************************************************)
(* `sshknockd setup-firewall` and the start of the daemon, src/firewall.rs *)
(* and src/bin/sshknockd.rs, on the configuration file and the kernel      *)
(* state they work on: which ipsets exist and the rules of the INPUT       *)
(* chains in order.  Setup is five commands or check-and-apply pairs run   *)
(* one after the other; any of them can fail, or be the last one before    *)
(* the process is killed, and setup is then run again.  Between runs an    *)
(* operator edits the file, loses a rule or destroys an ipset, and the     *)
(* host reboots.                                                           *)
(*                                                                         *)
(* iptables and ip6tables have an INPUT chain each; one sequence holds the *)
(* rules of both, since a packet meets those of its own tool only.  There  *)
(* are no other rules in them and their policy is ACCEPT.  A packet is the *)
(* tool that sees it, the port it is for and the ipsets its source is in.  *)
(***************************************************************************)
EXTENDS Integers, SequencesExt, HashMap, ConfigFile

CONSTANTS
  Configs,   \* what the configuration file may hold, valid or not
  NoConfig   \* the daemon does not run

ASSUME SetupAssumption == Configs \subseteq Config /\ NoConfig \notin Configs

VARIABLES
  sets,      \* the ipsets that exist, from names to timeouts and families
  rules,     \* the INPUT chains, first rule first
  config,    \* what the configuration file holds
  step,      \* the setup step to run next, 0 when no setup is running
  complete,  \* setup has ended well and nothing was changed since
  daemon     \* the configuration the running daemon has loaded

setupVars == <<sets, rules, config, step, complete, daemon>>

\* Mutant: one command for both tools.
Mut_Allow(c) ==
  [kind |-> "allow", tool |-> "iptables", port |-> c.ssh_port, set |-> c.ipset_name]

Allow(c) ==
  [kind |-> "allow", tool |-> c.firewall_backend, port |-> c.ssh_port, set |-> c.ipset_name]
Drop(c) == [kind |-> "drop", tool |-> c.firewall_backend, port |-> c.ssh_port]
BanDrop(c) == [kind |-> "ban_drop", tool |-> c.firewall_backend, set |-> c.ban_ipset_name]

Rule == UNION {{Allow(c), Drop(c), BanDrop(c)} : c \in Configs}

SetupTypeOK ==
  /\ DOMAIN sets \subseteq UNION {{c.ipset_name, c.ban_ipset_name} : c \in Configs}
  /\ \A name \in DOMAIN sets :
       sets[name] \in [timeout : Nat \ {0}, family : {"ipv4", "ipv6"}]
  /\ rules \in Seq(Rule)
  /\ config \in Configs
  /\ step \in 0 .. 5
  /\ complete \in BOOLEAN
  /\ daemon \in Configs \cup {NoConfig}

-------------------------------------------------------------------------------
(* What the kernel does with a packet *)

\* A packet for the port that a file protects, on the chain that it protects.
Packet(c, lists) == [tool |-> c.firewall_backend, port |-> c.ssh_port, lists |-> lists]

Matches(r, packet) ==
  /\ r.tool = packet.tool
  /\ r.kind \in {"allow", "drop"} => r.port = packet.port
  /\ r.kind \in {"allow", "ban_drop"} => r.set \in packet.lists

\* The first rule that matches decides.
Accepts(chain, packet) ==
  \A i \in DOMAIN chain :
    Matches(chain[i], packet) /\ (\A j \in 1 .. i - 1 : ~Matches(chain[j], packet))
      => chain[i].kind = "allow"

\* An ipset has addresses of its own family only: the ones a source of this
\* tool's packets can be in.
FamilyOf(tool) == IF tool = "iptables" THEN "ipv4" ELSE "ipv6"
Reachable(tool) == {name \in DOMAIN sets : sets[name].family = FamilyOf(tool)}

-------------------------------------------------------------------------------
(* setup, one action per step of it *)

\* The file is read and validated, and the firewall built, before any command.
Begin ==
  /\ step = 0
  /\ Validate(config) /\ FirewallNew(config)
  /\ step' = 1
  /\ UNCHANGED <<sets, rules, config, complete, daemon>>

\* `ipset create name hash:ip timeout t [family inet6] -exist` fails on a set of
\* that name only if it was created with other parameters.
Creatable(name, params) == name \in DOMAIN sets => sets[name] = params

Params(timeout) == [timeout |-> timeout, family |-> config.address_family]

CreateSet(i, name, timeout) ==
  /\ step = i
  /\ Creatable(name, Params(timeout))
  /\ sets' = Insert(sets, name, Params(timeout))
  /\ step' = i + 1
  /\ UNCHANGED <<rules, config, complete, daemon>>

\* Mutant: the rule is applied without asking whether it is there.
Mut_Ensure(r, chain) == rules' = chain

\* iptables -C, and the apply command when it answers 1.
Ensure(r, chain) == rules' = IF Contains(rules, r) THEN rules ELSE chain

\* Mutant: the allow rule is appended, below the rule that drops.
Mut_EnsureAllow ==
  /\ step = 3
  /\ Ensure(Allow(config), Append(rules, Allow(config)))
  /\ step' = 4
  /\ UNCHANGED <<sets, config, complete, daemon>>

EnsureAllow ==
  /\ step = 3
  /\ Ensure(Allow(config), Cons(Allow(config), rules))
  /\ step' = 4
  /\ UNCHANGED <<sets, config, complete, daemon>>

\* Mutant: the drop rule is inserted first, above the allow rule.
Mut_EnsureDrop ==
  /\ step = 4
  /\ Ensure(Drop(config), Cons(Drop(config), rules))
  /\ step' = 5
  /\ UNCHANGED <<sets, config, complete, daemon>>

EnsureDrop ==
  /\ step = 4
  /\ Ensure(Drop(config), Append(rules, Drop(config)))
  /\ step' = 5
  /\ UNCHANGED <<sets, config, complete, daemon>>

\* Mutant: the last step does not end the run.
Mut_EnsureBanDrop ==
  /\ step = 5
  /\ Ensure(BanDrop(config), Cons(BanDrop(config), rules))
  /\ step' = step + 1 /\ complete' = TRUE
  /\ UNCHANGED <<sets, config, daemon>>

EnsureBanDrop ==
  /\ step = 5
  /\ Ensure(BanDrop(config), Cons(BanDrop(config), rules))
  /\ step' = 0 /\ complete' = TRUE
  /\ UNCHANGED <<sets, config, daemon>>

\* A command fails or the process is killed: setup ends where it is.
Fail == step > 0 /\ step' = 0 /\ UNCHANGED <<sets, rules, config, complete, daemon>>

\* The daemon loads the file; its preflight lists both sets, and reads the chain
\* without looking for its rules.
StartDaemon ==
  /\ daemon = NoConfig
  /\ Validate(config) /\ FirewallNew(config)
  /\ {config.ipset_name, config.ban_ipset_name} \subseteq DOMAIN sets
  /\ daemon' = config
  /\ UNCHANGED <<sets, rules, config, step, complete>>

DaemonEnds ==
  /\ daemon # NoConfig
  /\ daemon' = NoConfig
  /\ UNCHANGED <<sets, rules, config, step, complete>>

-------------------------------------------------------------------------------
(* The operator and the host *)

EditConfig ==
  /\ step = 0
  /\ \E c \in Configs \ {config} : config' = c
  /\ complete' = FALSE
  /\ UNCHANGED <<sets, rules, step, daemon>>

LoseRule ==
  /\ step = 0
  /\ \E i \in DOMAIN rules : rules' = RemoveAt(rules, i)
  /\ complete' = FALSE
  /\ UNCHANGED <<sets, config, step, daemon>>

\* The kernel refuses to destroy an ipset that a rule names.
DestroySet ==
  /\ step = 0
  /\ \E name \in DOMAIN sets :
       /\ \A i \in DOMAIN rules : rules[i].kind # "drop" => rules[i].set # name
       /\ sets' = Without(sets, name)
  /\ complete' = FALSE
  /\ UNCHANGED <<rules, config, step, daemon>>

Reboot ==
  /\ sets' = EmptyMap /\ rules' = <<>>
  /\ step' = 0 /\ complete' = FALSE /\ daemon' = NoConfig
  /\ UNCHANGED config

-------------------------------------------------------------------------------
SetupInit ==
  /\ sets = EmptyMap /\ rules = <<>>
  /\ config \in Configs
  /\ step = 0 /\ complete = FALSE /\ daemon = NoConfig

SetupStep ==
  \/ Begin
  \/ CreateSet(1, config.ipset_name, config.ip_timeout)
  \/ CreateSet(2, config.ban_ipset_name, config.ban_timeout)
  \/ EnsureAllow
  \/ EnsureDrop
  \/ EnsureBanDrop

SetupNext ==
  \/ SetupStep \/ Fail
  \/ StartDaemon \/ DaemonEnds
  \/ EditConfig \/ LoseRule \/ DestroySet \/ Reboot

SetupSpec == SetupInit /\ [][SetupNext]_setupVars

-------------------------------------------------------------------------------
(* Properties *)

\* Whatever runs failed or were interrupted before, setup never leaves a rule in
\* the chain twice ("recovery must converge without duplicates",
\* tests/firewall_tests.rs:174; ensure_iptables_rule, src/firewall.rs:262-276).
NoDuplicateRules ==
  \A i, j \in DOMAIN rules : rules[i] = rules[j] => i = j

\* The sets that some file names for the port and the chain of c, and all the
\* names that some file gives to a ban set: validate asks neither that the two
\* sets of a file differ nor that a name keeps its role from file to file.
AllowSets(c) ==
  {d.ipset_name : d \in {e \in Configs : e.ssh_port = c.ssh_port
                                     /\ e.firewall_backend = c.firewall_backend}}
BanSets == {d.ban_ipset_name : d \in Configs}

\* Once setup has ended well, in whatever state earlier runs with other ports,
\* names and tools left the chain, the port is closed to every source, banned or
\* not, that is in no set which a file names as the port's allow set, and open to
\* the sources in the allow set that are in no ban set.  For a source in the allow
\* set of an earlier file, and one both allowed and banned, see
\* OnlyAllowedAccepted (src/firewall.rs:283-302).
SetupProtects ==
  complete =>
    \A lists \in SUBSET Reachable(config.firewall_backend) :
      /\ lists \cap AllowSets(config) = {} => ~Accepts(rules, Packet(config, lists))
      /\ config.ipset_name \in lists /\ lists \cap BanSets = {} =>
           Accepts(rules, Packet(config, lists))

\* Setup, wherever it stops, never closes a port before the allowed sources have
\* their rule above the drop: the operator is not locked out (setup,
\* src/firewall.rs:286-295).
NeverLockedOut ==
  [][config.ipset_name \notin BanSets
     /\ ~Contains(rules, Drop(config)) /\ Contains(rules', Drop(config)) =>
       Accepts(rules', Packet(config, {config.ipset_name}))]_setupVars

\* What a running daemon lets in gets in: as long as the allow rule of the file it
\* loaded is there, the set it adds to exists and nothing above the rule drops its
\* sources, whatever was edited, set up, lost or destroyed since it started
\* (preflight, src/firewall.rs:357-371; a failing add ends the daemon,
\* src/server.rs:347).
DaemonAdmits ==
  daemon # NoConfig /\ Contains(rules, Allow(daemon)) /\ daemon.ipset_name \notin BanSets =>
    /\ daemon.ipset_name \in DOMAIN sets
    /\ Accepts(rules, Packet(daemon, {daemon.ipset_name}))

\* A configuration that validate lets through is not refused later by
\* Firewall::new, and the daemon can serve it: every TCP and UDP step has a
\* socket of its own, none of them on the protected port, and a packet of every
\* step fits the buffer (src/config.rs:157-213 for src/server.rs:100-144).
ValidatedIsServable ==
  Validate(config) => FirewallNew(config) /\ SequenceServable(config)

\* "accepts matching allowlisted sources on the protected SSH port, drops other
\* traffic to the protected SSH port, and drops traffic from rate-limited banned
\* sources" (README.md:123): once setup has ended well, the sources in the allow
\* set of its file get in, those in its ban set do not, and nobody else does.
OnlyAllowedAccepted ==
  complete =>
    \A lists \in SUBSET Reachable(config.firewall_backend) :
      Accepts(rules, Packet(config, lists)) <=>
        config.ipset_name \in lists /\ config.ban_ipset_name \notin lists

\* "Run the setup command once after editing /etc/sshknockd.toml" (README.md:117):
\* what a valid file asks for, setup can put into effect; no set of an earlier
\* run stands in its way.
EditedFileCanBeSetUp ==
  /\ step = 1 => Creatable(config.ipset_name, Params(config.ip_timeout))
  /\ step = 2 => Creatable(config.ban_ipset_name, Params(config.ban_timeout))
===============================================================================
