------------------------------ MODULE ConfigFile ------------------------------
(***************************************************************************)
(* The configuration file as src/config.rs sees it once TOML is parsed: a  *)
(* record of the fields that the parts of the program use, and validate,   *)
(* which every command that reads the file runs first.  The listen address *)
(* and the log settings are not checked by the code and are left out.      *)
(*                                                                         *)
(* The name of an ipset is an identity, its length, and whether all its    *)
(* bytes are letters, digits, or one of "_.:-".                            *)
(***************************************************************************)
EXTENDS Naturals, Sequences

Port == 0 .. 65535

\* The port of a step without one: no u16 has this value.
NoPort == 65536

KnockStep == [protocol : {"tcp", "udp", "icmp"}, port : Port \cup {NoPort}, size : Nat]

Name == [id : STRING, length : Nat, safe : BOOLEAN]

Config == [
  ssh_port : Port,
  ipset_name : Name,
  firewall_backend : {"iptables", "ip6tables"},
  address_family : {"ipv4", "ipv6"},
  ban_ipset_name : Name,
  sequence_window : Nat,
  partial_state_timeout : Nat,
  max_partial_states : Nat,
  ip_timeout : Nat,
  max_payload_size : Nat,
  invalid_burst_limit : Nat,
  invalid_refill_per_minute : Nat,
  ban_timeout : Nat,
  sequence : Seq(KnockStep)]

-------------------------------------------------------------------------------
(* validate *)

SafeName(name) == name.length \in 1 .. 31 /\ name.safe

HasPort(step) == step.protocol \in {"tcp", "udp"}

\* `ports` of the loop, when it comes to step i.
PortsBefore(sequence, i) == {sequence[j].port : j \in {n \in 1 .. i - 1 : HasPort(sequence[n])}}

\* Mutant: a port is compared with that of the step before it only.
Mut_StepPasses(c, i) ==
  LET step == c.sequence[i]
  IN  /\ step.size \in 1 .. c.max_payload_size
      /\ IF HasPort(step)
         THEN /\ step.port \notin {NoPort, 0, c.ssh_port}
              /\ i > 1 => step.port # c.sequence[i - 1].port
         ELSE step.port = NoPort

StepPasses(c, i) ==
  LET step == c.sequence[i]
  IN  /\ step.size \in 1 .. c.max_payload_size
      /\ IF HasPort(step)
         THEN step.port \notin {NoPort, 0, c.ssh_port} \cup PortsBefore(c.sequence, i)
         ELSE step.port = NoPort

Validate(c) ==
  /\ Len(c.sequence) >= 3
  /\ c.sequence_window \in 1 .. 60
  /\ c.partial_state_timeout > 0
  /\ c.max_partial_states > 0
  /\ c.ip_timeout > 0
  /\ c.max_payload_size > 0
  /\ SafeName(c.ipset_name) /\ SafeName(c.ban_ipset_name)
  /\ c.invalid_burst_limit > 0 /\ c.invalid_refill_per_minute > 0
  /\ c.ban_timeout > 0
  /\ \A i \in DOMAIN c.sequence : StepPasses(c, i)

-------------------------------------------------------------------------------
(* What the parts rely on once validate has let a configuration through *)

\* Server::new and `setup-firewall` build the firewall, which checks again.
FirewallNew(c) ==
  /\ SafeName(c.ipset_name) /\ SafeName(c.ban_ipset_name)
  /\ c.ip_timeout # 0 /\ c.ban_timeout # 0

\* run opens the socket of a step, and takes it that the port is there.
Listener(step) == IF HasPort(step) THEN <<step.protocol, step.port>> ELSE <<"icmp">>

\* The tracker can tell its steps apart by the socket a packet came to, ICMP
\* steps aside; every step fits the buffer; no socket takes the protected port.
SequenceServable(c) ==
  \A i, j \in DOMAIN c.sequence :
    /\ c.sequence[i].size <= c.max_payload_size
    /\ HasPort(c.sequence[i]) =>
         /\ c.sequence[i].port \notin {NoPort, 0}
         /\ c.sequence[i].port # c.ssh_port
         /\ i # j => Listener(c.sequence[i]) # Listener(c.sequence[j])
===============================================================================
