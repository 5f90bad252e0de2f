--------------------------- MODULE MCFirewallSetup ----------------------------
\* Configuration files: some that pass, and one or more for every check that
\* fails.
EXTENDS FirewallSetup

Named(id) == [id |-> id, length |-> 9, safe |-> TRUE]

Udp(p) == [protocol |-> "udp", port |-> p, size |-> 1]
Tcp(p) == [protocol |-> "tcp", port |-> p, size |-> 1]
Icmp == [protocol |-> "icmp", port |-> NoPort, size |-> 1]

Usual == [
  ssh_port |-> 22,
  ipset_name |-> Named("ssh_allow"),
  firewall_backend |-> "iptables",
  address_family |-> "ipv4",
  ban_ipset_name |-> Named("ssh_ban"),
  sequence_window |-> 5,
  partial_state_timeout |-> 10,
  max_partial_states |-> 4096,
  ip_timeout |-> 10,
  max_payload_size |-> 512,
  invalid_burst_limit |-> 20,
  invalid_refill_per_minute |-> 10,
  ban_timeout |-> 86400,
  sequence |-> <<Udp(7001), Tcp(7002), Icmp>>]

OtherPort == [Usual EXCEPT !.ssh_port = 2222]
OtherTimeout == [Usual EXCEPT !.ip_timeout = 60]

V6 == [Usual EXCEPT !.firewall_backend = "ip6tables", !.address_family = "ipv6"]
\* The former ban set is the allow set.
Reused == [Usual EXCEPT !.ipset_name = Named("ssh_ban"), !.ban_ipset_name = Named("bans")]

\* A step too few, a step that cannot be served, and ports that overlap.
BadSequences ==
  { <<Udp(7001), Tcp(7002)>>,
    <<Udp(7001), Tcp(7002), [Icmp EXCEPT !.size = 0]>>,
    <<Udp(7001), Tcp(7002), [Icmp EXCEPT !.size = 513]>>,
    <<Udp(7001), Tcp(7002), [Icmp EXCEPT !.port = 7003]>>,
    <<Udp(7001), Tcp(NoPort), Icmp>>,
    <<Udp(0), Tcp(7002), Icmp>>,
    <<Icmp, Tcp(22), Udp(7001)>>,
    <<Udp(7001), Tcp(7001), Icmp>>,
    <<Udp(7001), Icmp, Udp(7001)>> }

Refused ==
  {[Usual EXCEPT !.sequence = s] : s \in BadSequences} \cup
  {[Usual EXCEPT !.ipset_name.length = n] : n \in {0, 32}} \cup
  {[Usual EXCEPT !.sequence_window = n] : n \in {0, 61}} \cup
  { [Usual EXCEPT !.ban_ipset_name.safe = FALSE],
    [Usual EXCEPT !.partial_state_timeout = 0],
    [Usual EXCEPT !.max_partial_states = 0],
    [Usual EXCEPT !.ip_timeout = 0],
    [Usual EXCEPT !.max_payload_size = 0],
    [Usual EXCEPT !.invalid_burst_limit = 0],
    [Usual EXCEPT !.invalid_refill_per_minute = 0],
    [Usual EXCEPT !.ban_timeout = 0] }

MCConfigs == {Usual, OtherPort, Reused, V6} \cup Refused

TwoPorts == {Usual, OtherPort}
TwoTimeouts == {Usual, OtherTimeout}
===============================================================================
