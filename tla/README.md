# A TLA+ model of sshknockd

sshknockd is a port knocking daemon: a source address that sends a configured
sequence of UDP, TCP and ICMP packets, in order and in time, is put into a
kernel ipset that opens the SSH port for a while; a source that has too many
packets refused is put into another ipset that drops its traffic. This
directory models the daemon (`src/src/`), checks the models with TLC and proves
the main results with TLAPS.

## The system

| Component | State | Operations | Source |
|---|---|---|---|
| knock tracker | map from sources to (next step, first seen, last seen) | `process`, `expire` | `knock.rs` |
| token bucket limiter | map from keys to (tokens, last refill, last seen) | `allow` | `rate_limit.rs` |
| packet path | memory of bans, one tracker, a limiter of invalid packets, a limiter of debug telemetry | `process_packet` | `server.rs` |
| poll loop | sockets, pending TCP connections with deadlines | `run` | `server.rs` |
| firewall | none of its own; changes the kernel's ipsets and INPUT chain | `setup`, `preflight`, `add_ip`, `ban_ip` | `firewall.rs` |
| configuration | fixed after `validate` | `from_path`, `validate` | `config.rs` |
| audit log | an append-only file | `log` | `logger.rs` |
| self-update | a staging directory, the installed package | `update` and its steps | `bin/sshknockd.rs` |

The daemon is one thread. The loop polls the sockets and calls `process_packet`
for each packet; that asks the memory of bans, then the tracker, then, for a
packet that the tracker refused, the limiter, and runs `ipset add` as a child process and waits
for it. Every audit line that cannot be written, and a failing allow command,
is an error that ends the process; systemd starts it again. `setup-firewall`
and `update` are separate processes that share the kernel and the package
database with the daemon.

What is hard here:

- The order of packets of many sources against expiry, restarts of a sequence,
  and the capacity limit (tracker).
- Rounding, saturation and pruning in the refill (limiter).
- Time that passes while a command runs, commands that fail, and a process that
  ends between a kernel change and its log line (packet path).
- The loop's own order of sockets and connections, which is not the order of
  arrival (poll loop).
- Setup that fails half way and is run again on a chain that is no longer the
  one it knows (firewall).
- Updates that run at the same time, fail or are killed at any step, and an
  installation that succeeds before a restart that fails (self-update).

What makes each part correct:

- tracker: acceptance exactly for complete knocks, one source never affects
  another, bounded memory.
- limiter: a bound on what is granted in any span of time, and no refusal that
  the key did not cause itself.
- packet path: memory, tracker and kernel agree about who is banned; bans follow
  a source's own refused packets, are bounded, and not shortened by slow commands.
- poll loop: each ready packet is eventually processed, and once; each connection read or
  given up at its deadline.
- firewall: a completed setup protects the port; no run locks the operator out;
  what the daemon lets in gets in.
- configuration: what `validate` lets through, every part can work with.
- self-update: nothing unverified is installed, and an installed version is
  activated.

## Modules

`HashMap` holds the operations of `std::collections::HashMap` on a function
whose domain is the set of keys present.

**`KnockTracker`** is `knock.rs`. `states` is the field of the same name, `now`
the clock, `outcome` the result of the last `process`. `Process` is the
disjunction of five actions, one for each way through `process`: `Oversized`,
`Restart` (a packet out of step, including the restart at the first step),
`Begin`, `Advance`, `Accept`. Every one works on `Live`, what `expire` leaves,
as the code does. A packet is a source and a record of protocol, port and size.
The second window test in `process` (lines 79-85) is kept in `InStep`; it never
decides anything, since `expire` has just made the same test.

**`KnockHistory`** adds a shift register of the last packets of one source and
the answers they got, to state what acceptance means without the tracker's own
bookkeeping. The source is arbitrary, so the results are about every source.

**`TokenBucket`** is `rate_limit.rs` as operators on a limiter value;
**`RateLimiter`** is one limiter and its callers, with the record of what each
key was granted.

**`Server`** is `process_packet` with the parts it uses, by extending
`KnockTracker` and `TokenBucket`. `process_packet` reads the clock once, then
may run a command; the model splits it there: `phase` is "poll" between packets,
"ban" or "add" while a command runs for `peer`, "down" without a process. The
actions up to the command are `Ignore` (the short circuit of a banned source),
`Tolerate`, `Exceed`, `Proceed` and `Admit`; the command ends in `BanIp`,
`BanIpFails`, `AddIp` or `AddIpFails`. `Stop` ends the process at any point (a
kill, a socket error, an audit line that cannot be written); `StopUnlogged` ends
it between the command's effect and its audit line. `Start` is the next process,
with empty memory. `allowSet` and `banSet` are the kernel's sets, whose entries
time out by themselves; `audit` is the last event logged about each source.
Packets arrive from every source at any time, banned ones included: a packet may
have been queued before the ban, and the daemon does not check that the drop
rule exists.

**`BanHistory`** adds the record of the refused packets of each source that were
tolerated (`refused`). A right first step that finds the table full is one of
them: the tracker answers `Rejected` to it, and `process_packet` does not tell it
from a wrong packet. The daemon does not read the record.

**`PollLoop`** is the loop of `run`. `stage` and `index` say where it is;
`queues` are the kernel's queues of datagrams and of established connections,
`stream` what a read of each connection would give, `pending` the field
`pending_tcp`. One action is one receive, one accept or one read, and clients
act in between. The loop reads the clock once per iteration (`ReadClock`) and
compares deadlines with that reading, so a pending connection stores what is
left to its deadline then, and `elapsed` is the time since: the stale clock of
the code, without a bound on time. A closed stream counts as a packet of size 0
and a reset one ends the loop, as in `read_tcp_knock`. The kernel's queues do
not overflow here: `Arrive` is about what got into one. `process_packet` is part
of the receiving step, its errors are a `Stop`, and `calls` counts it.

**`Mailbox`** is what `Server` assumes of the loop when it lets packets come in
any order: none is invented, lost or repeated, and only connections are given
up. `calls` counts the packets handled, so that handling one again would be a
step, and one that the mailbox does not have. `PollLoop` implements it (`IsMailbox`).

**`ConfigFile`** is `config.rs` after TOML: the fields the parts use as a record
(`Config`), and `Validate`, whose conjuncts are the checks of `validate` in
order. A name is an identity, a length and whether its bytes are safe; a step
without a port has the port `NoPort`. `FirewallNew` is the second check that
`Firewall::new` makes, `SequenceServable` what `run` and the tracker need of the
steps.

**`FirewallSetup`** is `setup`, `ensure_iptables_rule` and `preflight`, one
action per step, on the existing ipsets with their timeouts and families and the
INPUT chains of iptables and ip6tables as one sequence of rules, each with its
tool. `config` is what the file holds. `Begin` and
`StartDaemon` read it, as `Config::from_path` does, and go on only if it
validates; the daemon keeps what it read in `daemon`. `Accepts` is the kernel's
first-match evaluation of a packet, which is its tool, its port and the ipsets
its source is in (`Reachable`: those of the family that the tool sees). `ipset
create -exist` succeeds on a set that exists with the same timeout and family and
fails on any other (`Creatable`). A step can fail, setup can be repeated, and
between runs the operator edits the file, loses a rule or destroys a set that no
rule names, or the host reboots. Edits that do not validate are edits too.

**`Release`** is what the update reads of a release, as operators: the choice of
the package (`SelectReleaseAsset`, the first asset with the extension and one of
the architecture names) and `ExpectedDigest`, which goes through the lines of the
manifest with `ReadLine` (`Reading`, a recursive function). `Lists` says without a
loop what such a manifest is.

**`Updater`** is `sshknockd update`. `job` holds for each process id the step it
is at, with its own copy of what it read (the version it was built as, the
release it fetched); `staging` holds the directories under `/tmp` with three
files each. `latest`, `installed` and `active` are what GitHub, the package
database and systemd say. `Download` leaves anything in its file: a package of any
release or none, any manifest, a signature for any signed manifest or none. `Verify`
reads the files that are there: the signature must be for that manifest, and the
manifest must give the package's digest for the name of the asset. One key signs
all manifests, so the files of another release can pass. `verified` records what
a process verified, for the properties. `StagedStepFails` and `InstallFails` go to `Clean`,
which removes the directory before the error returns; `StageFails`, as in the
code, does not. `Kill` ends a process anywhere and leaves its directory; `Launch`
may use the process id again.

**`MC...`** modules give the constants that are not plain values.
The eight modules **`...Proofs`** hold the theorems: `KnockTrackerProofs`,
`KnockHistoryProofs`, `TokenBucketProofs` (lemmas about one call of the limiter,
for the next two), `RateLimiterProofs`, `ServerProofs`, `PollLoopProofs`,
`FirewallSetupProofs` and `UpdaterProofs`.
Operators named `Mut_...` are faulty variants of the definition that follows
them; each property is violated when one of them takes that definition's place.

## What is checked

| Run | Shows | Bounds |
|---|---|---|
| `history` | a partial state is backed by packets really sent; acceptance is sound and complete; the table is bounded; a packet touches its own source only | a watched source and a competitor for 1 slot, 3 steps, times 0..5 |
| `limiter` | the grants of any span are bounded; refusals are deserved | 2 keys, burst 3, refill 2, interval 2, counts saturate at 5, times 0..5 |
| `server` | bans in memory, tracker and kernel agree, through slow and failing commands, crashes and restarts; a ban follows a refused packet of the source itself in the last minute | 2 sources, 1 slot, burst 1, times 0..3 |
| `poll_loop` | the loop implements `Mailbox`; the pass misses no overdue connection and gives up only silent ones; a datagram is received in the iteration of its place in its queue, whatever other sockets hold; every packet is served | 2 clients, all three protocols, 3 connections for 2 places, 4 datagrams for 2 UDP sockets and ICMP with up to 2 in a queue, timeout 1 |
| `firewall_setup` | setup converges without duplicates, protects the port, never locks out; what the daemon lets in gets in; a validated file can be served | 4 valid files (2 ports, 2 tools, 2 allow sets, a name that changes its role) and 21 that are refused; any number of runs, failures, edits, losses, destroyed sets, reboots |
| `update` | only what the process verified is installed, beside a signed manifest that lists it exactly once; directories are removed | 2 processes, 2 releases, 6 manifests of which 4 are signed, 3 packages, 5 signatures |

The bounds reach the cases that matter. A window of 3 and a silence of 2 with
times up to 5 let a sequence expire in both ways and be retried. A table of
one slot and two sources reaches capacity. An interval of 2
with times up to 5 reaches refills of one and two intervals, the pruning of an
idle bucket (idle for 4) and the loss of a fraction; the counts saturate above a
full bucket, so the sum of the refill saturates. In `server` a ban of 2 expires
within the run, in memory and in the kernel, and the clock can move while a
command runs. The clock is bounded by `MaxTime`, and nothing else is: the chain
of `firewall_setup` is finite because setup adds no rule twice.

With the burst of 1 in `server`, "an allowance" of refusals is one refusal; larger
buckets are the subject of `limiter`, which checks the refusals of the limiter
for a burst of 3. `GrantsBounded` has the hypothesis that the burst is at most
two refills, as with the default values 20 and 10. Without it the bound is
false: two quiet minutes restore the whole burst, because an idle bucket is
pruned, and not two times "the allowance restored per source every minute" of
the README of sshknockd.

The refused files of `firewall_setup` have one fault each, with at least one for
every check of `validate`. `SetupProtects` says that a finished setup leaves the
port closed to every source that is in no set which some file names as the allow
set of the port, whether or not it is in a ban set or in a set of another port.
It says nothing of the allow set of an earlier file: its rule stays, and the
sources in it get in until their entries time out. `validate` does not ask that the two ipsets of a file have
different names, nor that a name keeps its role from file to file; with one name
for both, the rule that drops the banned drops the allowed. So what is said of
allowed sources is about an allow set that no file names as its ban set
(`BanSets`), and `firewall_setup` has a file whose allow set is the former ban
set. `DaemonAdmits` has the hypothesis that the daemon's allow rule is in the
chain, since `preflight` does not look.

Two processes in `update` are enough for one to interfere with the directory of
another, and each process id can be used again, so a third update may start
while two run. Two releases are enough for the files of one to be downloaded for
the other, in any mix of package, manifest and signature, and for a slow process
to carry a release that is no longer the latest. The run compares states on a
view without the running daemon and the reports, which no action but a failing
restart reads; they are the subject of `update_not_activated`. The host is a
Debian one there, because `dpkg` refuses less than `rpm`; in
`update_not_activated` it takes rpm packages, because the maintainer scripts of
the Debian package may restart the service themselves within the installation.

In `poll_loop` two places are enough for `swap_remove` to move a connection, and
the third connection finds the table full and depends on the deadlines of the
others. One client sends two datagrams to one UDP socket, so one waits behind the
other there for a second iteration, while the other client's datagram at the other
UDP socket has to be received in the first.

Fairness is assumed in `LoopSpec` only: the thread takes its next step
(`LoopStep`), which the code justifies because every socket is non-blocking and
`process_packet` returns when its command does, and time passes (`Tick`).
Clients owe nothing, and a `Stop` may come at any time or never. All other
properties are safety properties.

### Disagreements between code and documentation

Each of these runs is expected to find its property violated.

| Run | What happens |
|---|---|
| `ambiguous_sequence` | `validate` allows a repeated ICMP step. With ICMP, ICMP, UDP, one extra ICMP packet makes a complete knock fail: on a mismatch the tracker restarts at the first step and forgets that the last packets already were a longer prefix. |
| `forgotten_ban` | With the memory of bans full and `ban_ip` failing, the source is in neither, although the comment says that memory short-circuits it. |
| `ban_shadowed` | After a change of `ssh_port`, setup inserts the new allow rule above the existing ban drop: a source in both sets gets through. A change of `ipset_name` or the loss of the allow rule does the same. |
| `connection_error` | A read error on one client's connection ends the loop, with the packets of all others. |
| `edited_timeout` | After `ip_timeout` or `ban_timeout` was edited, setup stops at the ipset that an earlier run created with the old timeout, and cannot get to the rules until someone destroys the set. |
| `update_not_activated` | An update that was killed after its installation, or whose restart failed, is not made up for: the next update compares only versions and answers "already up to date" while the old daemon runs. The run has a host that takes rpm packages; with deb packages it is the same for an update interrupted between the unpacking and the configuration of the package. |

Others were met and have no run of their own:

- After a change of `ipset_name` the allow rule of the earlier name stays above the
  drop rule, so sources that are not in the allow set of the file get in, although
  the README of sshknockd (line 123) says that setup drops other traffic to the
  port. `OnlyAllowedAccepted`, the property of `ban_shadowed`, is false of that
  too.
- `preflight` does not look at the rules, so after a setup that stopped early the
  daemon runs with the port open, although a test (`tests/firewall_tests.rs:122`)
  says that the daemon must fail closed before listening.
- A right first step that finds the table full is `Rejected` like a wrong one and
  costs a token (`knock.rs:130-131`, `server.rs:312`), so a source can be banned
  that sent no invalid packet, which is what line 98 of that README counts.
  `BannedOnlyAfterRefusals` counts such a step, as the code does.
- `validate` does not compare `firewall_backend` and `address_family`: with
  `ip6tables` and `ipv4` setup ends well, with rules for IPv6 packets that match
  sets of IPv4 addresses, and line 113 pairs them otherwise.
- The workflow that builds a release writes the paths of the packages
  (`dist/amd64/debian/...`) into `SHA256SUMS` (`.github/workflows/packages.yml`,
  lines 160-176), and the update compares the names in it with the bare name of the
  asset (`bin/sshknockd.rs:363-364`): it stops at the verification. The manifests
  of `update` have bare names.

## What is proved

For every set of sources, every sequence, and every value of the limits, from
`TrackerAssumption` (sizes and limits are natural numbers, the sequence is not
empty) and `HistoryAssumption` (the watched source is a source):

- `TypeCorrect` and `StatesBounded`. `PartialStatesBounded` is not inductive by
  itself: `Cardinality` says nothing of an infinite table. `IInv` adds that the
  table is finite and well typed. `ProcessTable` shows one step per way through
  `process`; `StartTable` holds the only place where the table grows.
- `OtherSourcesKept`, from the same case analysis: each way leaves the table as
  `Live`, with the source removed or inserted.
- `PrefixCorrect` and `AcceptanceSound`. The invariant is `PrefixInv`: a stored
  `next_step` of m means that the last m packets of the source are the first m
  steps, in time, and that its two instants are theirs. `ShiftMatched` extends a
  matched suffix by one packet, `LivePrefix` says what expiry guarantees.
- `AcceptanceComplete`, for a sequence whose steps differ
  (`UnambiguousSequence`) and fit the payload limit. Its invariant adds the
  converse of `PrefixInv`: a matched, timely suffix that was begun with room in
  the table is tracked, or its next step is already too late. The hypothesis is
  needed: run `ambiguous_sequence` is the counterexample without it.
  `validate` guarantees it for UDP and TCP steps.

For every set of files an operator may write, valid or not, from
`SetupAssumption` (they have the fields of the right types):

- `SetupTypeCorrect`, `RulesNeverTwice`. The invariant `SInv`
  adds that the file a running setup works on validates: without it a set could
  be created with the timeout 0. Adding at either end after the check keeps a
  chain without repetition (`ConsDistinct`, `AppendDistinct`), and so does losing
  a rule (`RemoveAtDistinct`).
- `ValidatedServable`, for sequences of any length: of two steps with ports the
  later one was compared with the earlier one (`PortsBefore`).
- `SetupAlwaysProtects` and `AlwaysAWayIn`. The invariant `PInv` is that every
  allow rule is above every drop rule, which setup gets by
  inserting the ones first and appending the others, and that the rules of the
  steps passed are in the chain. The drop rule of a port is in the chain once, so
  it is the first rule that a stranger meets; the first rule that a source of the
  allow set meets is an allow rule, if no ban set holds it.
- `AdmittedGetIn`. Its invariant `QInv` adds that the sets which the rules name
  exist: the kernel does not let go of a set in use, and setup creates the sets
  before the rules.

For every set of keys, every capacity and refill of 32 bits and every interval,
from `LimiterAssumption`:

- `LimiterTypeCorrect`, `RefusalDeserved` and `GrantsWithinBudget`. The argument
  is about one call (`TokenBucketProofs`): what a bucket holds and what its key
  was granted since the last refill make up an allowance (`CallAllowance`), and
  that refill is less than an interval old when the call is answered (`CallFacts`).
  `GrantsBounded` speaks of spans in the past, so its invariant (`Spans`,
  `Paid`) says of every earlier grant that what came since and what the bucket
  holds now are within the bound; a call extends it (`CallSpans`, `CallBudget`).
  The hypothesis that a burst is at most two refills is used where an idle
  bucket is pruned, and only there.

For every set of sources, every sequence and every value of the limits and
timeouts, from the assumptions of the tracker and of `Server`:

- `ServerTypeCorrect`, `BannedHoldNothing`, `BansStayBounded`,
  `KernelOutlastsMemory` and `BannedNotAdmitted`, from one invariant
  (`ServerInv`). `KernelBanCovers` is not inductive by itself: it needs that no
  ban is longer than one of now (`Memory`), because the kernel takes its entry
  later than the daemon does. `NoAllowWhileBanned` needs that a source that is
  being admitted is not banned (`Loop`), and this in turn that banned sources
  never reach the tracker. The tracker's own invariant and `ProcessTable` are
  reused as they stand.
- `BanDeserved`, from `RefusalInv`: what is left in the bucket of a source and what
  it had refused and tolerated since make up an allowance. A new process has no
  buckets, and says so of nobody (`FreshAllowance`). The theorems are stated for `BSpec`, the packet path
  with the record of refusals, which restricts nothing (`RecordedStep`).

For every knock sequence, every set of packets, every size of the table and
every timeout, from `LoopAssumption` (the steps are well formed, an ICMP step
has no port, every packet is for a bound socket):

- `LoopIsMailbox`: the refinement of `Mailbox`. The invariant `Placed` says that
  each packet that waits is in one place, that of its socket or the table, and was
  not handled; `BoxHandle`, `BoxGiveUp`, `BoxSend`, `BoxEnd` and `BoxStutter` say
  which step of the mailbox a change of the places is, and one lemma per action
  says which change it makes. `SwapRemoveFacts` is where `swap_remove` loses and
  repeats nothing: what is handled leaves the places, and so is not handled again.
- `LoopTypeCorrect` and `SilentDropped`, from the same case analysis.
- `PassMissesNone`. The invariant adds that a pass under way has left nothing
  overdue behind its index (`PassInv`): a removal puts an element at the index,
  never before it.
- `DatagramsInTurn`. The invariant `InTurn` says that the datagram at place i of a
  queue has i iterations left, or one less while the socket's turn in this
  iteration is still to come (`Done`). At `ReadClock` every UDP socket must have
  had its turn, which needs that `Ports` leaves none out (`PortsFacts`).

For every set of processes and of releases, from `UpdaterAssumption` (versions
are positive, a manifest is a sequence of lines, an error is not a digest):

- `UpdaterTypeCorrect`, `NothingLeftBehind` and `InstalledIsVerified`. The
  invariant `UpdaterInv` says of each process that at its installation the files
  in its directory verify and hold the package it verified, whatever the downloads
  brought, and that a directory nobody uses was left by a kill. `StepOf` says that
  a step of one process leaves the directories of the others alone, which is
  what the process id in the directory's name is for.
- `InstalledIsListed`, for manifests of any length: `DigestListed` says what the
  loop over the lines returns.

Two of these are about loops (`Reading`, `Ports`). The induction theorems of the
library cannot be instantiated by the provers at hand, so the two modules derive
what they need from a least counterexample (`LeastElement`, `LoopInduction`), and
that the recursive function exists at all from an explicit construction
(`LoopDefined`). The lemmas are the same in both modules, which share no other.

Every safety property of a passing run is proved. Only model-checked are liveness
(`EveryPacketServed`), which is out of the prover's reach, the properties that the
code does not have (above), and what the constants of the runs stand for: that
`MCSequence`, `MCReleases` and the files of `MCFirewallSetup` satisfy the
assumptions, which TLC evaluates.

## What is not modelled

- TOML and the defaults of fields left out, argument parsing, the detection of
  the distribution, log formatting, argument vectors, curl, ed25519 and
  sha2: text or libraries.
- The debug telemetry and its limiter: they only write log lines; a line that
  cannot be written is a `Stop`.
- How long a command runs: the code sets no limit, and neither does the model.
- The end of the range of `Instant`: `now + ban_timeout` can panic for a
  duration near 2^64 seconds.
- Two `setup-firewall` runs at the same time (nothing keeps them from inserting
  a rule twice), edits of the file during a run, and the operator's own rules.
- Packets of the tool that the file does not name: setup leaves that chain alone.
- The kernel's own limit for the timeout of an ipset, which `validate` does not
  know.
- The maintainer scripts of the packages, which may restart the service within an
  installation.
- Which release a signed manifest is of: nothing in it says so, and the update
  compares no version after the download.
- Removing a staging directory that fails: the code ignores it.
- The overflow of a socket's queue, and the packets an ended process leaves in it.

## Plan

1. `KnockTracker`, `KnockHistory` and their proofs. Done.
2. `TokenBucket`, `RateLimiter` and their proofs. Done.
3. `Server`, `BanHistory` and their proofs. Done.
4. `ConfigFile`, `FirewallSetup` and their proofs. Done.
5. `PollLoop`, `Mailbox`, and the proof that the one implements the other. Done.
6. `Release`, `Updater` and their proofs. Done.
7. An abstract recogniser of knocks that `KnockHistory` implements, as a
   refinement beside `AcceptanceSound` and `AcceptanceComplete`.
