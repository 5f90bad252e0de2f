-------------------------- MODULE FirewallSetupProofs --------------------------
(***************************************************************************)
(* What holds of setup and of the start of the daemon for every set of     *)
(* configuration files: the types, no rule twice, and that a file which    *)
(* validates can be served.  Then what setup promises of the INPUT chain:  *)
(* the port is closed to strangers and open to the allowed sources once    *)
(* setup has ended well, nobody is locked out on the way, and what a       *)
(* running daemon lets in gets in.                                         *)
(***************************************************************************)
EXTENDS FirewallSetup, WellFoundedInduction, TLAPS

-------------------------------------------------------------------------------
(* Sequences without repetition *)

Distinct(s) == \A i, j \in DOMAIN s : s[i] = s[j] => i = j

\* A new element at the front.
LEMMA ConsDistinct ==
  ASSUME NEW S, NEW s \in Seq(S), NEW r \in S
  PROVE  /\ Cons(r, s) \in Seq(S)
         /\ Len(Cons(r, s)) = Len(s) + 1
         /\ Cons(r, s)[1] = r
         /\ \A i \in 1 .. Len(s) : Cons(r, s)[i + 1] = s[i]
         /\ Distinct(s) /\ ~Contains(s, r) => Distinct(Cons(r, s))
<1>1. /\ Cons(r, s) \in Seq(S)
      /\ Len(Cons(r, s)) = Len(s) + 1
      /\ Cons(r, s)[1] = r
      /\ \A i \in 1 .. Len(s) : Cons(r, s)[i + 1] = s[i]
  BY DEF Cons
<1>2. \A i \in DOMAIN Cons(r, s) : i = 1 \/ (i - 1 \in 1 .. Len(s) /\ Cons(r, s)[i] = s[i - 1])
  BY <1>1
<1>3. ASSUME Distinct(s), ~Contains(s, r) PROVE Distinct(Cons(r, s))
  <2>1. \A i \in 1 .. Len(s) : s[i] # r
    BY <1>3 DEF Contains
  <2>2. \A i, j \in 1 .. Len(s) : s[i] = s[j] => i = j
    BY <1>3 DEF Distinct
  <2> SUFFICES ASSUME NEW i \in DOMAIN Cons(r, s), NEW j \in DOMAIN Cons(r, s),
                      Cons(r, s)[i] = Cons(r, s)[j]
               PROVE  i = j
    BY DEF Distinct
  <2>3. i \in Int /\ j \in Int
    BY <1>1
  <2>4. CASE i = 1
    BY <1>1, <1>2, <2>1, <2>4
  <2>5. CASE j = 1
    BY <1>1, <1>2, <2>1, <2>5
  <2>6. CASE i # 1 /\ j # 1
    <3>1. i - 1 \in 1 .. Len(s) /\ j - 1 \in 1 .. Len(s) /\ s[i - 1] = s[j - 1]
      BY <1>2, <2>6
    <3>2. i - 1 = j - 1
      BY <2>2, <3>1
    <3> QED BY <2>3, <3>2
  <2> QED BY <2>4, <2>5, <2>6
<1> QED BY <1>1, <1>3

\* A new element at the end.
LEMMA AppendDistinct ==
  ASSUME NEW S, NEW s \in Seq(S), NEW r \in S
  PROVE  /\ Append(s, r) \in Seq(S)
         /\ Distinct(s) /\ ~Contains(s, r) => Distinct(Append(s, r))
<1>1. Append(s, r) \in Seq(S)
  OBVIOUS
<1>2. ASSUME Distinct(s), ~Contains(s, r) PROVE Distinct(Append(s, r))
  <2>1. \A i \in 1 .. Len(s) : s[i] # r
    BY <1>2 DEF Contains
  <2>2. \A i, j \in 1 .. Len(s) : s[i] = s[j] => i = j
    BY <1>2 DEF Distinct
  <2> QED BY <2>1, <2>2 DEF Distinct
<1> QED BY <1>1, <1>2

\* An element less.
LEMMA RemoveAtDistinct ==
  ASSUME NEW S, NEW s \in Seq(S), NEW i \in DOMAIN s
  PROVE  /\ RemoveAt(s, i) \in Seq(S) /\ Len(RemoveAt(s, i)) = Len(s) - 1
         /\ \A j \in 1 .. Len(s) - 1 : j < i => RemoveAt(s, i)[j] = s[j]
         /\ \A j \in 1 .. Len(s) - 1 : j >= i => RemoveAt(s, i)[j] = s[j + 1]
         /\ Distinct(s) => Distinct(RemoveAt(s, i))
<1> DEFINE t == RemoveAt(s, i)
<1>1. i \in 1 .. Len(s) /\ Len(s) \in Nat
  OBVIOUS
<1>2. /\ SubSeq(s, 1, i - 1) \in Seq(S) /\ Len(SubSeq(s, 1, i - 1)) = i - 1
      /\ \A j \in 1 .. i - 1 : SubSeq(s, 1, i - 1)[j] = s[j]
  BY <1>1
<1>3. /\ SubSeq(s, i + 1, Len(s)) \in Seq(S) /\ Len(SubSeq(s, i + 1, Len(s))) = Len(s) - i
      /\ \A j \in 1 .. Len(s) - i : SubSeq(s, i + 1, Len(s))[j] = s[j + i]
  BY <1>1
<1> DEFINE a == SubSeq(s, 1, i - 1)
           b == SubSeq(s, i + 1, Len(s))
<1>a. t = a \o b
  BY DEF RemoveAt
<1> HIDE DEF t, a, b
<1>b. /\ t \in Seq(S) /\ Len(t) = Len(a) + Len(b)
      /\ \A j \in 1 .. Len(a) + Len(b) : t[j] = IF j <= Len(a) THEN a[j] ELSE b[j - Len(a)]
  BY <1>a, <1>2, <1>3 DEF a, b
<1>c. Len(a) = i - 1
  BY <1>2 DEF a
<1>d. Len(b) = Len(s) - i
  BY <1>3 DEF b
<1>4. t \in Seq(S) /\ Len(t) = Len(s) - 1
  BY <1>1, <1>b, <1>c, <1>d
<1>5. \A j \in 1 .. Len(s) - 1 : j < i => t[j] = s[j]
  <2> SUFFICES ASSUME NEW j \in 1 .. Len(s) - 1, j < i PROVE t[j] = s[j]
    OBVIOUS
  <2>1. j \in 1 .. i - 1 /\ Len(a) = i - 1 /\ j \in 1 .. Len(a) + Len(b)
    BY <1>1, <1>c, <1>d
  <2>2. t[j] = a[j]
    BY <1>b, <2>1
  <2> QED BY <1>2, <2>1, <2>2 DEF a
<1>6. \A j \in 1 .. Len(s) - 1 : j >= i => t[j] = s[j + 1]
  <2> SUFFICES ASSUME NEW j \in 1 .. Len(s) - 1, j >= i PROVE t[j] = s[j + 1]
    OBVIOUS
  <2>1. j - (i - 1) \in 1 .. Len(s) - i /\ Len(a) = i - 1 /\ j \in 1 .. Len(a) + Len(b)
    BY <1>1, <1>c, <1>d
  <2>2. t[j] = b[j - (i - 1)]
    BY <1>1, <1>b, <2>1
  <2>3. b[j - (i - 1)] = s[(j - (i - 1)) + i]
    BY <1>3, <2>1 DEF b
  <2>4. (j - (i - 1)) + i = j + 1
    BY <1>1
  <2> QED BY <2>2, <2>3, <2>4
<1>7. ASSUME Distinct(s) PROVE Distinct(t)
  <2> SUFFICES ASSUME NEW j \in DOMAIN t, NEW k \in DOMAIN t, t[j] = t[k]
               PROVE  j = k
    BY DEF Distinct
  <2>1. j \in 1 .. Len(s) - 1 /\ k \in 1 .. Len(s) - 1
    BY <1>4
  <2>2. \A m, n \in 1 .. Len(s) : s[m] = s[n] => m = n
    BY <1>7 DEF Distinct
  <2>3. CASE j < i /\ k < i
    BY <1>1, <1>5, <2>1, <2>2, <2>3
  <2>4. CASE j < i /\ k >= i
    BY <1>1, <1>5, <1>6, <2>1, <2>2, <2>4
  <2>5. CASE j >= i /\ k < i
    BY <1>1, <1>5, <1>6, <2>1, <2>2, <2>5
  <2>6. CASE j >= i /\ k >= i
    BY <1>1, <1>6, <2>1, <2>2, <2>6
  <2> QED BY <1>1, <2>1, <2>3, <2>4, <2>5, <2>6
<1> QED BY <1>4, <1>5, <1>6, <1>7 DEF t

\* Any set of numbers has a least one.
LEMMA LeastElement ==
  ASSUME NEW T \in SUBSET Nat, T # {}
  PROVE  \E m \in T : \A k \in T : m <= k
<1> DEFINE R == OpToRel(<, Nat)
<1>1. ASSUME NEW m \in Nat, NEW k \in Nat, k < m PROVE <<k, m>> \in R
  BY <1>1 DEF OpToRel
<1>2. IsWellFoundedOn(R, Nat)
  BY NatLessThanWellFounded
<1> HIDE DEF R
<1>3. PICK m \in T : \A k \in T : ~(<<k, m>> \in R)
  BY <1>2, WFMin
<1>4. ASSUME NEW k \in T PROVE m <= k
  <2>1. m \in Nat /\ k \in Nat
    OBVIOUS
  <2>2. ~(k < m)
    BY <1>1, <1>3, <2>1
  <2> QED BY <2>1, <2>2
<1> QED BY <1>4

-------------------------------------------------------------------------------
(* The invariant *)

\* While setup runs, the file it read is one that validates.
SInv == /\ SetupTypeOK
        /\ step > 0 => Validate(config)
        /\ NoDuplicateRules

\* The fields of a file the proofs need the types of.
LEMMA FieldTypes ==
  ASSUME NEW c \in Config
  PROVE  /\ c.ip_timeout \in Nat /\ c.ban_timeout \in Nat
         /\ c.address_family \in {"ipv4", "ipv6"}
         /\ c.max_payload_size \in Nat /\ c.sequence \in Seq(KnockStep)
<1> DEFINE Steps == Seq(KnockStep)
<1>1. c \in [ssh_port : Port, ipset_name : Name,
             firewall_backend : {"iptables", "ip6tables"},
             address_family : {"ipv4", "ipv6"}, ban_ipset_name : Name,
             sequence_window : Nat, partial_state_timeout : Nat,
             max_partial_states : Nat, ip_timeout : Nat, max_payload_size : Nat,
             invalid_burst_limit : Nat, invalid_refill_per_minute : Nat,
             ban_timeout : Nat, sequence : Steps]
  BY Zenon DEF Config
<1> HIDE DEF Steps
<1>2. /\ c.ip_timeout \in Nat /\ c.ban_timeout \in Nat
      /\ c.address_family \in {"ipv4", "ipv6"}
      /\ c.max_payload_size \in Nat /\ c.sequence \in Steps
  BY <1>1
<1> QED BY <1>2 DEF Steps

\* The rules of a file are rules, and the names and timeouts are of their types.
LEMMA FileFacts ==
  ASSUME NEW c \in Configs
  PROVE  /\ Allow(c) \in Rule /\ Drop(c) \in Rule /\ BanDrop(c) \in Rule
         /\ c.ip_timeout \in Nat /\ c.ban_timeout \in Nat
         /\ c.address_family \in {"ipv4", "ipv6"}
         /\ c.ipset_name \in UNION {{d.ipset_name, d.ban_ipset_name} : d \in Configs}
         /\ c.ban_ipset_name \in UNION {{d.ipset_name, d.ban_ipset_name} : d \in Configs}
<1>1. c \in Config
  BY SetupAssumption
<1>2. c.ip_timeout \in Nat /\ c.ban_timeout \in Nat /\ c.address_family \in {"ipv4", "ipv6"}
  BY <1>1, FieldTypes
<1>3. Allow(c) \in Rule /\ Drop(c) \in Rule /\ BanDrop(c) \in Rule
  <2>1. {Allow(c), Drop(c), BanDrop(c)} \in {{Allow(d), Drop(d), BanDrop(d)} : d \in Configs}
    OBVIOUS
  <2> QED BY <2>1 DEF Rule
<1>4. {c.ipset_name, c.ban_ipset_name} \in {{d.ipset_name, d.ban_ipset_name} : d \in Configs}
  OBVIOUS
<1>5. /\ c.ipset_name \in UNION {{d.ipset_name, d.ban_ipset_name} : d \in Configs}
      /\ c.ban_ipset_name \in UNION {{d.ipset_name, d.ban_ipset_name} : d \in Configs}
  BY <1>4
<1> QED BY <1>2, <1>3, <1>5

\* Whatever the check answers, the chain stays one of rules without repetition.
LEMMA EnsureKeeps ==
  ASSUME rules \in Seq(Rule), NoDuplicateRules, NEW r \in Rule, NEW chain,
         chain = Cons(r, rules) \/ chain = Append(rules, r),
         Ensure(r, chain)
  PROVE  rules' \in Seq(Rule) /\ NoDuplicateRules'
<1>1. Distinct(rules)
  BY DEF NoDuplicateRules, Distinct
<1>2. CASE Contains(rules, r)
  BY <1>2 DEF Ensure, NoDuplicateRules
<1>3. CASE ~Contains(rules, r)
  <2>a. Cons(r, rules) \in Seq(Rule) /\ Distinct(Cons(r, rules))
    BY <1>1, <1>3, ConsDistinct, Zenon
  <2>b. Append(rules, r) \in Seq(Rule) /\ Distinct(Append(rules, r))
    BY <1>1, <1>3, AppendDistinct, Zenon
  <2>1. chain \in Seq(Rule) /\ Distinct(chain)
    BY <2>a, <2>b, Zenon
  <2>2. rules' = chain
    BY <1>3 DEF Ensure
  <2> QED BY <2>1, <2>2 DEF NoDuplicateRules, Distinct
<1> QED BY <1>2, <1>3

LEMMA SetupInitInv == SetupInit => SInv
<1> SUFFICES ASSUME SetupInit PROVE SInv
  OBVIOUS
<1>1. DOMAIN sets = {} /\ rules = <<>> /\ config \in Configs /\ step = 0
      /\ complete = FALSE /\ daemon = NoConfig
  BY DEF SetupInit, EmptyMap
<1>a. rules \in Seq(Rule)
  BY <1>1
<1>b. step \in 0 .. 5
  BY <1>1
<1>c. complete \in BOOLEAN /\ daemon \in Configs \cup {NoConfig}
  BY <1>1, Zenon
<1>d. /\ DOMAIN sets \subseteq UNION {{c.ipset_name, c.ban_ipset_name} : c \in Configs}
      /\ \A name \in DOMAIN sets :
           sets[name] \in [timeout : Nat \ {0}, family : {"ipv4", "ipv6"}]
  BY <1>1, Zenon
<1>2. SetupTypeOK
  BY <1>1, <1>a, <1>b, <1>c, <1>d, Zenon DEF SetupTypeOK
<1>3. NoDuplicateRules
  BY <1>1 DEF NoDuplicateRules
<1> QED BY <1>1, <1>2, <1>3 DEF SInv

LEMMA CreateKeeps ==
  ASSUME SInv, NEW i \in {1, 2}, NEW name, NEW timeout,
         name \in UNION {{c.ipset_name, c.ban_ipset_name} : c \in Configs},
         timeout \in Nat \ {0},
         CreateSet(i, name, timeout)
  PROVE  SInv'
<1> DEFINE params == Params(timeout)
<1>1. /\ step = i /\ step' = i + 1 /\ sets' = Insert(sets, name, params)
      /\ rules' = rules /\ config' = config /\ complete' = complete /\ daemon' = daemon
  BY DEF CreateSet
<1>a. params \in [timeout : Nat \ {0}, family : {"ipv4", "ipv6"}]
  <2>1. config.address_family \in {"ipv4", "ipv6"}
    BY FileFacts DEF SInv, SetupTypeOK
  <2> QED BY <2>1 DEF Params
<1> HIDE DEF params
<1>2. /\ DOMAIN sets' = DOMAIN sets \cup {name}
      /\ sets'[name] = params
      /\ \A x \in DOMAIN sets \ {name} : sets'[x] = sets[x]
  <2>1. /\ DOMAIN Insert(sets, name, params) = DOMAIN sets \cup {name}
        /\ Insert(sets, name, params)[name] = params
        /\ \A x \in DOMAIN sets \ {name} : Insert(sets, name, params)[x] = sets[x]
    BY DEF Insert
  <2> QED BY <1>1, <2>1
<1>3. \A x \in DOMAIN sets' : sets'[x] \in [timeout : Nat \ {0}, family : {"ipv4", "ipv6"}]
  BY <1>a, <1>2, Zenon DEF SInv, SetupTypeOK
<1>4. DOMAIN sets' \subseteq UNION {{c.ipset_name, c.ban_ipset_name} : c \in Configs}
  BY <1>2 DEF SInv, SetupTypeOK
<1>5. step' \in 0 .. 5
  BY <1>1
<1>6. SetupTypeOK'
  BY <1>1, <1>3, <1>4, <1>5 DEF SInv, SetupTypeOK
<1>7. NoDuplicateRules'
  BY <1>1 DEF SInv, NoDuplicateRules
<1>8. Validate(config')
  BY <1>1 DEF SInv
<1> QED BY <1>6, <1>7, <1>8 DEF SInv

\* A step that ensures a rule of the file.
LEMMA EnsureStepKeeps ==
  ASSUME SInv, NEW r \in Rule, NEW chain,
         chain = Cons(r, rules) \/ chain = Append(rules, r),
         Ensure(r, chain), step > 0, step' \in 0 .. 5, complete' \in BOOLEAN,
         sets' = sets, config' = config, daemon' = daemon
  PROVE  SInv'
<1>1. rules' \in Seq(Rule) /\ NoDuplicateRules'
  BY EnsureKeeps DEF SInv, SetupTypeOK
<1>2. SetupTypeOK'
  BY <1>1 DEF SInv, SetupTypeOK
<1>3. Validate(config')
  BY DEF SInv
<1> QED BY <1>1, <1>2, <1>3 DEF SInv

LEMMA SetupNextInv == SInv /\ [SetupNext]_setupVars => SInv'
<1> SUFFICES ASSUME SInv, [SetupNext]_setupVars PROVE SInv'
  OBVIOUS
<1>0. config \in Configs /\ step \in 0 .. 5 /\ daemon \in Configs \cup {NoConfig}
      /\ rules \in Seq(Rule)
  BY DEF SInv, SetupTypeOK
<1>1. CASE Begin
  <2>1. step' = 1 /\ UNCHANGED <<sets, rules, config, complete, daemon>> /\ Validate(config)
    BY <1>1 DEF Begin
  <2> QED BY <2>1 DEF SInv, SetupTypeOK, NoDuplicateRules
<1>2. CASE CreateSet(1, config.ipset_name, config.ip_timeout)
  <2>1. step = 1
    BY <1>2 DEF CreateSet
  <2>2. config.ip_timeout > 0
    BY <2>1 DEF SInv, Validate
  <2> QED BY <1>0, <1>2, <2>2, FileFacts, CreateKeeps
<1>3. CASE CreateSet(2, config.ban_ipset_name, config.ban_timeout)
  <2>1. step = 2
    BY <1>3 DEF CreateSet
  <2>2. config.ban_timeout > 0
    BY <2>1 DEF SInv, Validate
  <2> QED BY <1>0, <1>3, <2>2, FileFacts, CreateKeeps
<1>4. CASE EnsureAllow
  <2>1. /\ Ensure(Allow(config), Cons(Allow(config), rules)) /\ step = 3 /\ step' = 4
        /\ UNCHANGED <<sets, config, complete, daemon>> /\ complete' \in BOOLEAN
    BY <1>4 DEF EnsureAllow, SInv, SetupTypeOK
  <2>2. Allow(config) \in Rule
    BY <1>0, FileFacts, Zenon
  <2>3. step > 0 /\ step' \in 0 .. 5
    BY <2>1
  <2> QED BY <2>1, <2>2, <2>3, EnsureStepKeeps, Zenon
<1>5. CASE EnsureDrop
  <2>1. /\ Ensure(Drop(config), Append(rules, Drop(config))) /\ step = 4 /\ step' = 5
        /\ UNCHANGED <<sets, config, complete, daemon>> /\ complete' \in BOOLEAN
    BY <1>5 DEF EnsureDrop, SInv, SetupTypeOK
  <2>2. Drop(config) \in Rule
    BY <1>0, FileFacts, Zenon
  <2>3. step > 0 /\ step' \in 0 .. 5
    BY <2>1
  <2> QED BY <2>1, <2>2, <2>3, EnsureStepKeeps, Zenon
<1>6. CASE EnsureBanDrop
  <2>1. /\ Ensure(BanDrop(config), Cons(BanDrop(config), rules)) /\ step = 5 /\ step' = 0
        /\ UNCHANGED <<sets, config, daemon>> /\ complete' \in BOOLEAN
    BY <1>6 DEF EnsureBanDrop
  <2>2. BanDrop(config) \in Rule
    BY <1>0, FileFacts, Zenon
  <2>3. step > 0 /\ step' \in 0 .. 5
    BY <2>1
  <2> QED BY <2>1, <2>2, <2>3, EnsureStepKeeps, Zenon
<1>7. CASE Fail
  BY <1>7 DEF Fail, SInv, SetupTypeOK, NoDuplicateRules
<1>8. CASE StartDaemon
  BY <1>0, <1>8 DEF StartDaemon, SInv, SetupTypeOK, NoDuplicateRules
<1>9. CASE DaemonEnds
  BY <1>9 DEF DaemonEnds, SInv, SetupTypeOK, NoDuplicateRules
<1>10. CASE EditConfig
  <2>1. config' \in Configs /\ step' = 0 /\ complete' = FALSE
        /\ UNCHANGED <<sets, rules, daemon>>
    BY <1>10 DEF EditConfig
  <2>2. SetupTypeOK'
    <3>1. step' \in 0 .. 5
      BY <2>1
    <3>2. complete' \in BOOLEAN
      BY <2>1, Zenon
    <3> QED BY <2>1, <3>1, <3>2, Zenon DEF SInv, SetupTypeOK
  <2>3. NoDuplicateRules'
    BY <2>1 DEF SInv, NoDuplicateRules
  <2> QED BY <2>1, <2>2, <2>3 DEF SInv
<1>11. CASE LoseRule
  <2>1. PICK i \in DOMAIN rules : rules' = RemoveAt(rules, i)
    BY <1>11 DEF LoseRule
  <2>2. Distinct(rules)
    BY DEF SInv, NoDuplicateRules, Distinct
  <2>3. rules' \in Seq(Rule) /\ Distinct(rules')
    BY <1>0, <2>1, <2>2, RemoveAtDistinct, Zenon
  <2>4. NoDuplicateRules'
    BY <2>3 DEF NoDuplicateRules, Distinct
  <2>5. step = 0 /\ complete' = FALSE /\ UNCHANGED <<sets, config, step, daemon>>
    BY <1>11 DEF LoseRule
  <2> QED BY <2>3, <2>4, <2>5 DEF SInv, SetupTypeOK
<1>12. CASE Reboot
  <2>1. DOMAIN sets' = {} /\ rules' = <<>> /\ step' = 0 /\ complete' = FALSE
        /\ daemon' = NoConfig /\ config' = config
    BY <1>12 DEF Reboot, EmptyMap
  <2>2. rules' \in Seq(Rule)
    BY <2>1
  <2>3. SetupTypeOK'
    <3>1. step' \in 0 .. 5
      BY <2>1
    <3>2. complete' \in BOOLEAN /\ daemon' \in Configs \cup {NoConfig}
      BY <2>1, Zenon
    <3>3. /\ DOMAIN sets' \subseteq UNION {{c.ipset_name, c.ban_ipset_name} : c \in Configs}
          /\ \A name \in DOMAIN sets' :
               sets'[name] \in [timeout : Nat \ {0}, family : {"ipv4", "ipv6"}]
      BY <2>1, Zenon
    <3> QED BY <1>0, <2>1, <2>2, <3>1, <3>2, <3>3, Zenon DEF SetupTypeOK
  <2>4. NoDuplicateRules'
    BY <2>1 DEF NoDuplicateRules
  <2> QED BY <2>1, <2>3, <2>4 DEF SInv
<1>13. CASE UNCHANGED setupVars
  BY <1>13 DEF setupVars, SInv, SetupTypeOK, NoDuplicateRules
<1>14. CASE DestroySet
  <2>1. PICK name \in DOMAIN sets : sets' = Without(sets, name)
    BY <1>14 DEF DestroySet
  <2>2. step = 0 /\ complete' = FALSE /\ UNCHANGED <<rules, config, step, daemon>>
    BY <1>14 DEF DestroySet
  <2>3. DOMAIN sets' \subseteq DOMAIN sets /\ \A x \in DOMAIN sets' : sets'[x] = sets[x]
    BY <2>1 DEF Without, Restrict
  <2>4. /\ DOMAIN sets' \subseteq UNION {{c.ipset_name, c.ban_ipset_name} : c \in Configs}
        /\ \A x \in DOMAIN sets' : sets'[x] \in [timeout : Nat \ {0}, family : {"ipv4", "ipv6"}]
    BY <2>3, Zenon DEF SInv, SetupTypeOK
  <2>5. complete' \in BOOLEAN
    BY <2>2, Zenon
  <2>6. SetupTypeOK'
    BY <2>2, <2>4, <2>5, Zenon DEF SInv, SetupTypeOK
  <2>7. NoDuplicateRules'
    BY <2>2 DEF SInv, NoDuplicateRules
  <2> QED BY <2>2, <2>6, <2>7 DEF SInv
<1> QED
  BY <1>1, <1>2, <1>3, <1>4, <1>5, <1>6, <1>7, <1>8, <1>9, <1>10, <1>11, <1>12, <1>13,
     <1>14
  DEF SetupNext, SetupStep

-------------------------------------------------------------------------------
(* The theorems *)

LEMMA SetupInvariant == SetupSpec => []SInv
BY SetupInitInv, SetupNextInv, PTL DEF SetupSpec

\* Whatever the file holds, edited at any moment, a file that validate lets through
\* builds the firewall and is served step by step: one socket for every step with a
\* port, none on the protected port (validate, src/config.rs:157-213).
THEOREM ValidatedServable == SetupSpec => []ValidatedIsServable
<1>1. ASSUME NEW c, c \in Config, Validate(c) PROVE FirewallNew(c) /\ SequenceServable(c)
  <2>1. FirewallNew(c)
    BY <1>1 DEF Validate, FirewallNew, SafeName
  <2>2. SequenceServable(c)
    <3> DEFINE s == c.sequence
    <3>1. \A i \in DOMAIN s : StepPasses(c, i)
      BY <1>1, Zenon DEF Validate
    <3>2. c.max_payload_size \in Nat /\ DOMAIN s = 1 .. Len(s) /\ Len(s) \in Nat
      BY <1>1, FieldTypes
    <3>3. \A i \in DOMAIN s : s[i].size <= c.max_payload_size
      BY <3>1, <3>2 DEF StepPasses
    <3>4. \A i \in DOMAIN s : HasPort(s[i]) => /\ s[i].port \notin {NoPort, 0}
                                             /\ s[i].port # c.ssh_port
                                             /\ s[i].port \notin PortsBefore(s, i)
      BY <3>1, Zenon DEF StepPasses
    <3>5. ASSUME NEW i \in DOMAIN s, NEW j \in DOMAIN s, HasPort(s[i]), HasPort(s[j]), i < j
          PROVE  s[i].port # s[j].port
      <4>1. i \in {n \in 1 .. j - 1 : HasPort(s[n])}
        BY <3>2, <3>5
      <4>2. s[i].port \in PortsBefore(s, j)
        BY <4>1, Zenon DEF PortsBefore
      <4> QED BY <3>4, <3>5, <4>2, Zenon
    <3>6. ASSUME NEW i \in DOMAIN s, NEW j \in DOMAIN s, HasPort(s[i]), i # j
          PROVE  Listener(s[i]) # Listener(s[j])
      <4>1. CASE HasPort(s[j])
        <5>1. i < j \/ j < i
          BY <3>2, <3>6
        <5>2. s[i].port # s[j].port
          BY <3>5, <3>6, <4>1, <5>1, Zenon
        <5> QED BY <3>6, <4>1, <5>2 DEF Listener
      <4>2. CASE ~HasPort(s[j])
        BY <3>6, <4>2 DEF Listener
      <4> QED BY <4>1, <4>2
    <3> QED BY <3>3, <3>4, <3>6, Zenon DEF SequenceServable
  <2> QED BY <2>1, <2>2
<1>2. SInv => ValidatedIsServable
  BY <1>1, SetupAssumption DEF SInv, SetupTypeOK, ValidatedIsServable
<1> QED BY <1>2, SetupInvariant, PTL

\* setup and the start of the daemon keep to their types, with every ipset
\* created for a positive timeout (setup, src/firewall.rs:283-302).
THEOREM SetupTypeCorrect == SetupSpec => []SetupTypeOK
<1>1. SInv => SetupTypeOK
  BY DEF SInv
<1> QED BY <1>1, SetupInvariant, PTL

\* For any files, failures, repetitions, losses and reboots, no rule is in the
\* chain twice (ensure_iptables_rule, src/firewall.rs:262-276).
THEOREM RulesNeverTwice == SetupSpec => []NoDuplicateRules
<1>1. SInv => NoDuplicateRules
  BY DEF SInv
<1> QED BY <1>1, SetupInvariant, PTL

-------------------------------------------------------------------------------
(* The INPUT chain.  Allow rules enter it at the front and drop rules at the   *)
(* end, so every allow rule is above every drop rule, whatever runs failed in  *)
(* between; what is left to know is which rules of the file are there.  Setup  *)
(* has created a set before it names it in a rule.                             *)

AllowsFirst(chain) ==
  \A i, j \in DOMAIN chain : chain[i].kind = "allow" /\ chain[j].kind = "drop" => i < j

PInv == /\ AllowsFirst(rules)
        /\ step > 3 \/ complete => Contains(rules, Allow(config))
        /\ step > 4 \/ complete => Contains(rules, Drop(config))

\* A rule of the chain that names a set names one that exists.
Behind(r) == r.kind # "drop" => r.set \in DOMAIN sets

QInv == /\ \A i \in DOMAIN rules : Behind(rules[i])
        /\ step > 1 => config.ipset_name \in DOMAIN sets
        /\ step > 2 => config.ban_ipset_name \in DOMAIN sets

-------------------------------------------------------------------------------
(* Chains *)

LEMMA ConsChain ==
  ASSUME NEW s \in Seq(Rule), NEW r \in Rule
  PROVE  /\ Contains(Cons(r, s), r)
         /\ \A x : Contains(s, x) => Contains(Cons(r, s), x)
         /\ \A x : Contains(Cons(r, s), x) => Contains(s, x) \/ x = r
         /\ AllowsFirst(s) /\ r.kind # "drop" => AllowsFirst(Cons(r, s))
<1> DEFINE t == Cons(r, s)
<1>1. /\ t \in Seq(Rule) /\ Len(t) = Len(s) + 1 /\ t[1] = r
      /\ \A i \in 1 .. Len(s) : t[i + 1] = s[i]
  BY DEF Cons
<1> HIDE DEF t
<1>2. \A i \in DOMAIN t : i = 1 \/ (i - 1 \in 1 .. Len(s) /\ t[i] = s[i - 1])
  BY <1>1
<1>3. Contains(t, r)
  BY <1>1 DEF Contains
<1>4. ASSUME NEW x, Contains(s, x) PROVE Contains(t, x)
  <2>1. PICK i \in 1 .. Len(s) : s[i] = x
    BY <1>4 DEF Contains
  <2>2. i + 1 \in 1 .. Len(t) /\ t[i + 1] = x
    BY <1>1, <2>1
  <2> QED BY <2>2 DEF Contains
<1>5. ASSUME NEW x, Contains(t, x) PROVE Contains(s, x) \/ x = r
  <2>1. PICK i \in 1 .. Len(t) : t[i] = x
    BY <1>5 DEF Contains
  <2> QED BY <1>1, <1>2, <2>1 DEF Contains
<1>6. ASSUME AllowsFirst(s), r.kind # "drop" PROVE AllowsFirst(t)
  <2> SUFFICES ASSUME NEW i \in DOMAIN t, NEW j \in DOMAIN t,
                      t[i].kind = "allow", t[j].kind = "drop"
               PROVE  i < j
    BY DEF AllowsFirst
  <2>1. j # 1 /\ i \in 1 .. Len(t) /\ j \in 1 .. Len(t) /\ Len(t) \in Nat
    BY <1>1, <1>6
  <2>2. CASE i = 1
    BY <2>1, <2>2
  <2>3. CASE i # 1
    <3>1. /\ i - 1 \in DOMAIN s /\ t[i] = s[i - 1]
          /\ j - 1 \in DOMAIN s /\ t[j] = s[j - 1]
      BY <1>2, <2>1, <2>3
    <3>2. i - 1 < j - 1
      BY <1>6, <3>1, Zenon DEF AllowsFirst
    <3> QED BY <2>1, <3>2
  <2> QED BY <2>2, <2>3
<1> QED BY <1>3, <1>4, <1>5, <1>6, Zenon DEF t

LEMMA AppendChain ==
  ASSUME NEW s \in Seq(Rule), NEW r \in Rule
  PROVE  /\ Contains(Append(s, r), r)
         /\ \A x : Contains(s, x) => Contains(Append(s, r), x)
         /\ \A x : Contains(Append(s, r), x) => Contains(s, x) \/ x = r
         /\ AllowsFirst(s) /\ r.kind # "allow" => AllowsFirst(Append(s, r))
<1> DEFINE t == Append(s, r)
<1>1. /\ Len(s) \in Nat /\ Len(t) = Len(s) + 1 /\ t[Len(s) + 1] = r /\ DOMAIN t = 1 .. Len(s) + 1
      /\ \A i \in 1 .. Len(s) : t[i] = s[i]
  OBVIOUS
<1> HIDE DEF t
<1>3. Contains(t, r)
  BY <1>1 DEF Contains
<1>4. ASSUME NEW x, Contains(s, x) PROVE Contains(t, x)
  BY <1>1, <1>4 DEF Contains
<1>5. ASSUME NEW x, Contains(t, x) PROVE Contains(s, x) \/ x = r
  BY <1>1, <1>5 DEF Contains
<1>6. ASSUME AllowsFirst(s), r.kind # "allow" PROVE AllowsFirst(t)
  <2> SUFFICES ASSUME NEW i \in DOMAIN t, NEW j \in DOMAIN t,
                      t[i].kind = "allow", t[j].kind = "drop"
               PROVE  i < j
    BY DEF AllowsFirst
  <2>1. i \in DOMAIN s /\ t[i] = s[i] /\ i \in 1 .. Len(s)
    BY <1>1, <1>6
  <2>2. CASE j = Len(s) + 1
    BY <1>1, <2>1, <2>2
  <2>3. CASE j # Len(s) + 1
    <3>1. j \in DOMAIN s /\ t[j] = s[j]
      BY <1>1, <2>3
    <3> QED BY <1>6, <2>1, <3>1, Zenon DEF AllowsFirst
  <2> QED BY <2>2, <2>3
<1> QED BY <1>3, <1>4, <1>5, <1>6, Zenon DEF t

LEMMA RemoveChain ==
  ASSUME NEW s \in Seq(Rule), NEW k \in DOMAIN s
  PROVE  /\ \A x : Contains(RemoveAt(s, k), x) => Contains(s, x)
         /\ AllowsFirst(s) => AllowsFirst(RemoveAt(s, k))
<1> DEFINE t == RemoveAt(s, k)
<1>1. /\ t \in Seq(Rule) /\ Len(t) = Len(s) - 1
      /\ \A j \in 1 .. Len(s) - 1 : j < k => t[j] = s[j]
      /\ \A j \in 1 .. Len(s) - 1 : j >= k => t[j] = s[j + 1]
  BY RemoveAtDistinct, Zenon
<1>2. k \in 1 .. Len(s) /\ Len(s) \in Nat
  OBVIOUS
<1> HIDE DEF t
<1>3. DOMAIN t = 1 .. Len(s) - 1
  BY <1>1, <1>2
<1> DEFINE from(j) == IF j < k THEN j ELSE j + 1
<1>4. \A j \in DOMAIN t : from(j) \in DOMAIN s /\ t[j] = s[from(j)]
  BY <1>1, <1>2, <1>3
<1>5. \A i, j \in DOMAIN t : from(i) < from(j) => i < j
  BY <1>2, <1>3
<1> HIDE DEF from
<1>6. ASSUME NEW x, Contains(t, x) PROVE Contains(s, x)
  <2>1. PICK j \in DOMAIN t : t[j] = x
    BY <1>1, <1>3, <1>6 DEF Contains
  <2>2. from(j) \in 1 .. Len(s) /\ s[from(j)] = x
    BY <1>4, <2>1
  <2> QED BY <2>2, Zenon DEF Contains
<1>7. ASSUME AllowsFirst(s) PROVE AllowsFirst(t)
  BY <1>4, <1>5, <1>7, Zenon DEF AllowsFirst
<1> QED BY <1>6, <1>7, Zenon DEF t

\* What every rule of the chain looks like.
LEMMA RuleShape ==
  ASSUME NEW r \in Rule
  PROVE  \E c \in Configs : r = Allow(c) \/ r = Drop(c) \/ r = BanDrop(c)
BY DEF Rule

LEMMA Kinds ==
  ASSUME NEW c
  PROVE  /\ Allow(c).kind = "allow" /\ Allow(c).set = c.ipset_name
         /\ Allow(c).port = c.ssh_port /\ Allow(c).tool = c.firewall_backend
         /\ Drop(c).kind = "drop"
         /\ Drop(c).port = c.ssh_port /\ Drop(c).tool = c.firewall_backend
         /\ BanDrop(c).kind = "ban_drop" /\ BanDrop(c).set = c.ban_ipset_name
         /\ BanDrop(c).tool = c.firewall_backend
BY DEF Allow, Drop, BanDrop

-------------------------------------------------------------------------------
(* What such a chain does with a packet *)

\* Allow above drop, and no ban set in the way: the allowed sources come through.
LEMMA AllowedComeThrough ==
  ASSUME NEW s \in Seq(Rule), NEW c \in Configs, NEW lists,
         c.ipset_name \in lists, lists \cap BanSets = {},
         AllowsFirst(s), Contains(s, Allow(c))
  PROVE  Accepts(s, Packet(c, lists))
<1> DEFINE packet == Packet(c, lists)
<1>0. packet.tool = c.firewall_backend /\ packet.port = c.ssh_port /\ packet.lists = lists
  BY DEF Packet
<1> HIDE DEF packet
<1> SUFFICES ASSUME NEW i \in DOMAIN s, Matches(s[i], packet),
                    \A j \in 1 .. i - 1 : ~Matches(s[j], packet)
             PROVE  s[i].kind = "allow"
  BY DEF Accepts, packet
<1>1. PICK k \in DOMAIN s : s[k] = Allow(c)
  BY DEF Contains
<1>2. Matches(s[k], packet)
  BY <1>0, <1>1, Kinds DEF Matches
<1>3. PICK d \in Configs : s[i] = Allow(d) \/ s[i] = Drop(d) \/ s[i] = BanDrop(d)
  BY RuleShape
<1>4. CASE s[i] = Allow(d)
  BY <1>4, Kinds
<1>5. CASE s[i] = Drop(d)
  <2>1. k < i
    BY <1>1, <1>5, Kinds, Zenon DEF AllowsFirst
  <2>2. k \in 1 .. i - 1
    BY <2>1
  <2> QED BY <1>2, <2>2
<1>6. CASE s[i] = BanDrop(d)
  <2>1. d.ban_ipset_name \in lists
    BY <1>0, <1>6, Kinds DEF Matches
  <2>2. d.ban_ipset_name \in BanSets
    BY DEF BanSets
  <2> QED BY <2>1, <2>2
<1> QED BY <1>3, <1>4, <1>5, <1>6

\* Of the rules that match a source in no allow set of the port, the first drops it.
LEMMA StrangersDropped ==
  ASSUME NEW s \in Seq(Rule), NEW c \in Configs, NEW lists,
         lists \cap AllowSets(c) = {}, Contains(s, Drop(c))
  PROVE  ~Accepts(s, Packet(c, lists))
<1> DEFINE packet == Packet(c, lists)
           M == {j \in DOMAIN s : Matches(s[j], packet)}
<1>0. packet.tool = c.firewall_backend /\ packet.port = c.ssh_port /\ packet.lists = lists
  BY DEF Packet
<1> HIDE DEF packet
<1>1. PICK k \in DOMAIN s : s[k] = Drop(c)
  BY DEF Contains
<1>2. k \in M
  BY <1>0, <1>1, Kinds DEF Matches
<1>3. ASSUME NEW j \in M PROVE s[j].kind # "allow"
  <2>1. PICK d \in Configs : s[j] = Allow(d) \/ s[j] = Drop(d) \/ s[j] = BanDrop(d)
    BY RuleShape
  <2>2. CASE s[j] = Allow(d)
    <3>1. /\ d.firewall_backend = c.firewall_backend /\ d.ssh_port = c.ssh_port
          /\ d.ipset_name \in lists
      BY <1>0, <2>2, Kinds DEF Matches
    <3>2. d.ipset_name \in AllowSets(c)
      BY <3>1 DEF AllowSets
    <3> QED BY <3>1, <3>2
  <2> QED BY <2>1, <2>2, Kinds
<1>4. M \in SUBSET Nat /\ M \subseteq DOMAIN s
  OBVIOUS
<1>5. \A j \in DOMAIN s \ M : ~Matches(s[j], packet)
  OBVIOUS
<1>6. \A j \in M : Matches(s[j], packet)
  OBVIOUS
<1> HIDE DEF M
<1>7. PICK m \in M : \A j \in M : m <= j
  BY <1>2, <1>4, LeastElement
<1>8. ASSUME NEW j \in 1 .. m - 1 PROVE ~Matches(s[j], packet)
  <2>1. m \in 1 .. Len(s) /\ j \in 1 .. Len(s) /\ j < m
    BY <1>4
  <2>2. j \notin M
    BY <1>7, <2>1
  <2> QED BY <1>5, <2>1, <2>2
<1>9. m \in DOMAIN s /\ Matches(s[m], packet) /\ s[m].kind # "allow"
  BY <1>3, <1>4, <1>6
<1> QED BY <1>8, <1>9, Zenon DEF Accepts, packet

-------------------------------------------------------------------------------
(* The invariant *)

\* Ensuring a rule of either kind, in words of the chain before and after.
LEMMA EnsureFront ==
  ASSUME rules \in Seq(Rule), AllowsFirst(rules), NEW r \in Rule, r.kind # "drop",
         Ensure(r, Cons(r, rules))
  PROVE  /\ AllowsFirst(rules') /\ Contains(rules', r)
         /\ \A x : Contains(rules, x) => Contains(rules', x)
         /\ \A x : Contains(rules', x) => Contains(rules, x) \/ x = r
<1>1. rules' = rules \/ rules' = Cons(r, rules)
  BY DEF Ensure
<1>2. rules' = rules => Contains(rules, r)
  <2>1. CASE Contains(rules, r)
    BY <2>1
  <2>2. CASE ~Contains(rules, r)
    <3>1. rules' = Cons(r, rules)
      BY <2>2 DEF Ensure
    <3> QED BY <3>1, ConsChain
  <2> QED BY <2>1, <2>2
<1> QED BY <1>1, <1>2, ConsChain

LEMMA EnsureBack ==
  ASSUME rules \in Seq(Rule), AllowsFirst(rules), NEW r \in Rule, r.kind # "allow",
         Ensure(r, Append(rules, r))
  PROVE  /\ AllowsFirst(rules') /\ Contains(rules', r)
         /\ \A x : Contains(rules, x) => Contains(rules', x)
         /\ \A x : Contains(rules', x) => Contains(rules, x) \/ x = r
<1>1. CASE Contains(rules, r)
  BY <1>1 DEF Ensure
<1>2. CASE ~Contains(rules, r)
  <2>1. rules' = Append(rules, r)
    BY <1>2 DEF Ensure
  <2> QED BY <2>1, AppendChain
<1> QED BY <1>1, <1>2

LEMMA ProtectInit == SetupInit => PInv
<1> SUFFICES ASSUME SetupInit PROVE PInv
  OBVIOUS
<1>1. rules = <<>> /\ step = 0 /\ complete = FALSE
  BY DEF SetupInit
<1>2. AllowsFirst(rules)
  BY <1>1 DEF AllowsFirst
<1>3. ~(step > 3 \/ complete) /\ ~(step > 4 \/ complete)
  BY <1>1
<1> QED BY <1>2, <1>3, Zenon DEF PInv

LEMMA ProtectNext == SInv /\ PInv /\ [SetupNext]_setupVars => PInv'
<1> SUFFICES ASSUME SInv, PInv, [SetupNext]_setupVars PROVE PInv'
  OBVIOUS
<1>0. config \in Configs /\ step \in 0 .. 5 /\ rules \in Seq(Rule)
  BY DEF SInv, SetupTypeOK
<1>a. Allow(config) \in Rule /\ Drop(config) \in Rule /\ BanDrop(config) \in Rule
  BY <1>0, FileFacts, Zenon
\* The steps that leave the chain and the outcome alone.
<1>b. ASSUME rules' = rules, config' = config, complete' = complete,
             step' \in 0 .. 3 \/ step' = step
      PROVE  PInv'
  <2>1. /\ step' > 3 => step > 3
        /\ step' > 4 => step > 4
    BY <1>b
  <2> QED BY <1>b, <2>1, Zenon DEF PInv
<1>1. CASE Begin
  BY <1>b, <1>1 DEF Begin
<1>2. CASE CreateSet(1, config.ipset_name, config.ip_timeout)
  BY <1>b, <1>2 DEF CreateSet
<1>3. CASE CreateSet(2, config.ban_ipset_name, config.ban_timeout)
  BY <1>b, <1>3 DEF CreateSet
<1>4. CASE EnsureAllow
  <2>1. /\ Ensure(Allow(config), Cons(Allow(config), rules)) /\ step' = 4
        /\ config' = config /\ complete' = complete
    BY <1>4 DEF EnsureAllow
  <2>2. /\ AllowsFirst(rules') /\ Contains(rules', Allow(config))
        /\ \A x : Contains(rules, x) => Contains(rules', x)
    BY <1>0, <1>a, <2>1, Kinds, EnsureFront DEF PInv
  <2>3. ~(step' > 4)
    BY <2>1
  <2> QED BY <2>1, <2>2, <2>3, Zenon DEF PInv
<1>5. CASE EnsureDrop
  <2>1. /\ Ensure(Drop(config), Append(rules, Drop(config))) /\ step = 4
        /\ config' = config /\ complete' = complete
    BY <1>5 DEF EnsureDrop
  <2>2. /\ AllowsFirst(rules') /\ Contains(rules', Drop(config))
        /\ \A x : Contains(rules, x) => Contains(rules', x)
    BY <1>0, <1>a, <2>1, Kinds, EnsureBack DEF PInv
  <2>3. step > 3
    BY <2>1
  <2> QED BY <2>1, <2>2, <2>3, Zenon DEF PInv
<1>6. CASE EnsureBanDrop
  <2>1. /\ Ensure(BanDrop(config), Cons(BanDrop(config), rules)) /\ step = 5
        /\ config' = config
    BY <1>6 DEF EnsureBanDrop
  <2>2. /\ AllowsFirst(rules')
        /\ \A x : Contains(rules, x) => Contains(rules', x)
    BY <1>0, <1>a, <2>1, Kinds, EnsureFront DEF PInv
  <2>3. step > 3 /\ step > 4
    BY <2>1
  <2> QED BY <2>1, <2>2, <2>3, Zenon DEF PInv
<1>7. CASE Fail
  BY <1>b, <1>7 DEF Fail
<1>8. CASE StartDaemon
  BY <1>b, <1>8 DEF StartDaemon
<1>9. CASE DaemonEnds
  BY <1>b, <1>9 DEF DaemonEnds
<1>10. CASE EditConfig
  <2>1. rules' = rules /\ step' = 0 /\ complete' = FALSE
    BY <1>10 DEF EditConfig
  <2>2. ~(step' > 3) /\ ~(step' > 4) /\ ~complete'
    BY <2>1
  <2> QED BY <2>1, <2>2, Zenon DEF PInv
<1>11. CASE LoseRule
  <2>1. PICK i \in DOMAIN rules : rules' = RemoveAt(rules, i)
    BY <1>11 DEF LoseRule
  <2>2. step' = 0 /\ complete' = FALSE
    BY <1>11 DEF LoseRule
  <2>3. ~(step' > 3) /\ ~(step' > 4) /\ ~complete'
    BY <2>2
  <2>4. AllowsFirst(rules')
    BY <1>0, <2>1, RemoveChain DEF PInv
  <2> QED BY <2>3, <2>4, Zenon DEF PInv
<1>12. CASE Reboot
  <2>1. rules' = <<>> /\ step' = 0 /\ complete' = FALSE
    BY <1>12 DEF Reboot
  <2>2. ~(step' > 3) /\ ~(step' > 4) /\ ~complete'
    BY <2>1
  <2>3. AllowsFirst(rules')
    BY <2>1 DEF AllowsFirst
  <2> QED BY <2>2, <2>3, Zenon DEF PInv
<1>13. CASE UNCHANGED setupVars
  BY <1>b, <1>13 DEF setupVars
<1>14. CASE DestroySet
  <2>1. rules' = rules /\ step' = step /\ step = 0 /\ complete' = FALSE
    BY <1>14 DEF DestroySet
  <2>2. ~(step' > 3) /\ ~(step' > 4) /\ ~complete'
    BY <2>1
  <2> QED BY <2>1, <2>2, Zenon DEF PInv
<1> QED
  BY <1>1, <1>2, <1>3, <1>4, <1>5, <1>6, <1>7, <1>8, <1>9, <1>10, <1>11, <1>12, <1>13,
     <1>14
  DEF SetupNext, SetupStep

LEMMA BehindInit == SetupInit => QInv
<1> SUFFICES ASSUME SetupInit PROVE QInv
  OBVIOUS
<1>1. rules = <<>> /\ step = 0
  BY DEF SetupInit
<1>2. ~(step > 1) /\ ~(step > 2) /\ DOMAIN rules = {}
  BY <1>1
<1> QED BY <1>2, Zenon DEF QInv

LEMMA BehindNext == SInv /\ QInv /\ [SetupNext]_setupVars => QInv'
<1> SUFFICES ASSUME SInv, QInv, [SetupNext]_setupVars PROVE QInv'
  OBVIOUS
<1>0. config \in Configs /\ step \in 0 .. 5 /\ rules \in Seq(Rule)
  BY DEF SInv, SetupTypeOK
\* The steps that keep the chain and take no set away.
<1>a. ASSUME DOMAIN sets \subseteq DOMAIN sets', rules' = rules,
             step' > 1 => config'.ipset_name \in DOMAIN sets',
             step' > 2 => config'.ban_ipset_name \in DOMAIN sets'
      PROVE  QInv'
  <2>1. ASSUME NEW i \in DOMAIN rules PROVE Behind(rules[i])'
    <3>1. Behind(rules[i])
      BY DEF QInv
    <3> QED BY <1>a, <3>1 DEF Behind
  <2> QED BY <1>a, <2>1, Zenon DEF QInv
\* The steps that ensure a rule whose set is there.
<1>b. ASSUME NEW r \in Rule, NEW chain, chain \in {Cons(r, rules), Append(rules, r)},
             Ensure(r, chain), Behind(r), sets' = sets, config' = config, step > 2
      PROVE  QInv'
  <2>a. /\ Cons(r, rules) \in Seq(Rule)
        /\ \A x : Contains(Cons(r, rules), x) => Contains(rules, x) \/ x = r
    BY <1>0, <1>b, ConsDistinct, ConsChain, Zenon
  <2>b. /\ Append(rules, r) \in Seq(Rule)
        /\ \A x : Contains(Append(rules, r), x) => Contains(rules, x) \/ x = r
    BY <1>0, <1>b, AppendDistinct, AppendChain, Zenon
  <2>1. \A x : Contains(chain, x) => Contains(rules, x) \/ x = r
    BY <1>b, <2>a, <2>b, Zenon
  <2>2. rules' = rules \/ rules' = chain
    BY <1>b DEF Ensure
  <2>3. chain \in Seq(Rule)
    BY <1>b, <2>a, <2>b, Zenon
  <2>4. ASSUME NEW i \in DOMAIN rules' PROVE Behind(rules'[i])
    <3>1. rules' \in Seq(Rule)
      BY <1>0, <2>2, <2>3
    <3>2. Contains(rules', rules'[i])
      BY <3>1 DEF Contains
    <3>3. Contains(rules, rules'[i]) \/ rules'[i] = r
      BY <2>1, <2>2, <3>2
    <3> QED BY <1>0, <1>b, <3>3 DEF QInv, Contains
  <2>5. config.ipset_name \in DOMAIN sets /\ config.ban_ipset_name \in DOMAIN sets
    BY <1>0, <1>b DEF QInv
  <2> QED BY <1>b, <2>4, <2>5 DEF QInv, Behind
<1>1. CASE Begin
  <2>1. step' = 1 /\ UNCHANGED <<sets, rules, config>>
    BY <1>1 DEF Begin
  <2> QED BY <1>a, <2>1
<1>2. ASSUME NEW i \in {1, 2}, NEW name, NEW timeout, CreateSet(i, name, timeout),
             i = 1 => name = config.ipset_name, i = 2 => name = config.ban_ipset_name
      PROVE  QInv'
  <2>1. /\ step = i /\ step' = i + 1 /\ UNCHANGED <<rules, config>>
        /\ DOMAIN sets' = DOMAIN sets \cup {name}
    BY <1>2 DEF CreateSet, Insert
  <2>2. step' > 2 => config.ipset_name \in DOMAIN sets
    BY <2>1 DEF QInv
  <2> QED BY <1>2, <1>a, <2>1, <2>2
<1>3. CASE CreateSet(1, config.ipset_name, config.ip_timeout)
  BY <1>2, <1>3
<1>4. CASE CreateSet(2, config.ban_ipset_name, config.ban_timeout)
  BY <1>2, <1>4
<1>5. CASE EnsureAllow
  <2>1. /\ Ensure(Allow(config), Cons(Allow(config), rules)) /\ step = 3
        /\ UNCHANGED <<sets, config>>
    BY <1>5 DEF EnsureAllow
  <2>2. Allow(config) \in Rule
    BY <1>0, FileFacts, Zenon
  <2>3. Behind(Allow(config))
    <3>1. config.ipset_name \in DOMAIN sets
      BY <1>0, <2>1 DEF QInv
    <3>2. Allow(config).set = config.ipset_name
      BY Kinds, Zenon
    <3> QED BY <3>1, <3>2, Zenon DEF Behind
  <2>4. step > 2
    BY <2>1
  <2> QED BY <1>b, <2>1, <2>2, <2>3, <2>4, Zenon
<1>6. CASE EnsureDrop
  <2>1. /\ Ensure(Drop(config), Append(rules, Drop(config))) /\ step = 4
        /\ UNCHANGED <<sets, config>>
    BY <1>6 DEF EnsureDrop
  <2>2. Drop(config) \in Rule
    BY <1>0, FileFacts, Zenon
  <2>3. Behind(Drop(config))
    BY Kinds DEF Behind
  <2>4. step > 2
    BY <2>1
  <2> QED BY <1>b, <2>1, <2>2, <2>3, <2>4, Zenon
<1>7. CASE EnsureBanDrop
  <2>1. /\ Ensure(BanDrop(config), Cons(BanDrop(config), rules)) /\ step = 5
        /\ UNCHANGED <<sets, config>>
    BY <1>7 DEF EnsureBanDrop
  <2>2. BanDrop(config) \in Rule
    BY <1>0, FileFacts, Zenon
  <2>3. Behind(BanDrop(config))
    <3>1. config.ban_ipset_name \in DOMAIN sets
      BY <1>0, <2>1 DEF QInv
    <3>2. BanDrop(config).set = config.ban_ipset_name
      BY Kinds, Zenon
    <3> QED BY <3>1, <3>2, Zenon DEF Behind
  <2>4. step > 2
    BY <2>1
  <2> QED BY <1>b, <2>1, <2>2, <2>3, <2>4, Zenon
<1>8. CASE Fail \/ EditConfig
  <2>1. step' = 0 /\ UNCHANGED <<sets, rules>>
    BY <1>8 DEF Fail, EditConfig
  <2> QED BY <1>a, <2>1
<1>9. CASE StartDaemon \/ DaemonEnds \/ UNCHANGED setupVars
  <2>1. UNCHANGED <<sets, rules, config, step>>
    BY <1>9 DEF StartDaemon, DaemonEnds, setupVars
  <2> QED BY <1>a, <2>1 DEF QInv
<1>10. CASE LoseRule
  <2>1. PICK k \in DOMAIN rules : rules' = RemoveAt(rules, k)
    BY <1>10 DEF LoseRule
  <2>2. step' = 0 /\ sets' = sets
    BY <1>10 DEF LoseRule
  <2>3. rules' \in Seq(Rule)
    BY <1>0, <2>1, RemoveAtDistinct, Zenon
  <2>4. ASSUME NEW i \in DOMAIN rules' PROVE Behind(rules'[i])
    <3>1. Contains(rules', rules'[i])
      BY <2>3 DEF Contains
    <3>2. Contains(rules, rules'[i])
      BY <1>0, <2>1, <3>1, RemoveChain
    <3> QED BY <1>0, <3>2 DEF QInv, Contains
  <2> QED BY <2>2, <2>4 DEF QInv, Behind
<1>11. CASE DestroySet
  <2>1. PICK name \in DOMAIN sets :
          /\ \A i \in DOMAIN rules : rules[i].kind # "drop" => rules[i].set # name
          /\ sets' = Without(sets, name)
    BY <1>11 DEF DestroySet
  <2>2. step' = 0 /\ rules' = rules
    BY <1>11 DEF DestroySet
  <2>3. DOMAIN sets' = DOMAIN sets \ {name}
    BY <2>1 DEF Without, Restrict
  <2>4. ASSUME NEW i \in DOMAIN rules PROVE Behind(rules[i])'
    <3>1. Behind(rules[i])
      BY DEF QInv
    <3> QED BY <2>1, <2>2, <2>3, <3>1 DEF Behind
  <2>5. ~(step' > 1) /\ ~(step' > 2)
    BY <2>2
  <2> QED BY <2>2, <2>4, <2>5, Zenon DEF QInv
<1>12. CASE Reboot
  <2>1. rules' = <<>> /\ step' = 0
    BY <1>12 DEF Reboot
  <2>2. DOMAIN rules' = {} /\ ~(step' > 1) /\ ~(step' > 2)
    BY <2>1
  <2> QED BY <2>2, Zenon DEF QInv
<1> QED
  BY <1>1, <1>3, <1>4, <1>5, <1>6, <1>7, <1>8, <1>9, <1>10, <1>11, <1>12
  DEF SetupNext, SetupStep

LEMMA ProtectInvariant == SetupSpec => [](SInv /\ PInv /\ QInv)
BY SetupInitInv, SetupNextInv, ProtectInit, ProtectNext, BehindInit, BehindNext, PTL
   DEF SetupSpec

-------------------------------------------------------------------------------
(* The theorems *)

\* For any files, and any failures, edits and lost rules before: once setup has
\* ended well the port is closed to every source outside the sets that some file
\* names as its allow set, whichever other sets it is in, and open to the sources
\* of the current one that are in no ban set (setup, src/firewall.rs:283-302).
THEOREM SetupAlwaysProtects == SetupSpec => []SetupProtects
<1>1. SInv /\ PInv => SetupProtects
  <2> SUFFICES ASSUME SInv, PInv, complete, NEW lists
               PROVE  /\ lists \cap AllowSets(config) = {} =>
                           ~Accepts(rules, Packet(config, lists))
                      /\ config.ipset_name \in lists /\ lists \cap BanSets = {} =>
                           Accepts(rules, Packet(config, lists))
    BY DEF SetupProtects
  <2>1. config \in Configs /\ rules \in Seq(Rule)
    BY DEF SInv, SetupTypeOK
  <2>2. AllowsFirst(rules) /\ Contains(rules, Allow(config)) /\ Contains(rules, Drop(config))
    BY Zenon DEF PInv
  <2> QED BY <2>1, <2>2, AllowedComeThrough, StrangersDropped, Zenon
<1> QED BY <1>1, ProtectInvariant, PTL

\* What a running daemon lets in gets in while its allow rule is there, whatever
\* became of the file, the chain and the other sets since it started (preflight,
\* src/firewall.rs:357-371; src/server.rs:347).
THEOREM AdmittedGetIn == SetupSpec => []DaemonAdmits
<1>1. SInv /\ PInv /\ QInv => DaemonAdmits
  <2> SUFFICES ASSUME SInv, PInv, QInv, daemon # NoConfig,
                      Contains(rules, Allow(daemon)), daemon.ipset_name \notin BanSets
               PROVE  /\ daemon.ipset_name \in DOMAIN sets
                      /\ Accepts(rules, Packet(daemon, {daemon.ipset_name}))
    BY DEF DaemonAdmits
  <2>1. daemon \in Configs /\ rules \in Seq(Rule) /\ AllowsFirst(rules)
    BY DEF SInv, SetupTypeOK, PInv
  <2>2. PICK i \in DOMAIN rules : rules[i] = Allow(daemon)
    BY <2>1 DEF Contains
  <2>3. daemon.ipset_name \in DOMAIN sets
    BY <2>2, Kinds DEF QInv, Behind
  <2>4. {daemon.ipset_name} \cap BanSets = {}
    OBVIOUS
  <2> QED BY <2>1, <2>3, <2>4, AllowedComeThrough
<1> QED BY <1>1, ProtectInvariant, PTL

\* The step that closes a port, whichever run of setup takes it, leaves the allowed
\* sources their way in (setup, src/firewall.rs:286-295).
THEOREM AlwaysAWayIn == SetupSpec => NeverLockedOut
<1> DEFINE A == /\ config.ipset_name \notin BanSets
                /\ ~Contains(rules, Drop(config))
                /\ Contains(rules', Drop(config))
                => Accepts(rules', Packet(config, {config.ipset_name}))
<1>1. SInv /\ SInv' /\ PInv /\ PInv' /\ [SetupNext]_setupVars => A
  <2> SUFFICES ASSUME SInv, SInv', PInv, PInv', [SetupNext]_setupVars,
                      config.ipset_name \notin BanSets,
                      ~Contains(rules, Drop(config)), Contains(rules', Drop(config))
               PROVE  Accepts(rules', Packet(config, {config.ipset_name}))
    OBVIOUS
  <2>0. config \in Configs /\ rules \in Seq(Rule)
    BY DEF SInv, SetupTypeOK
  <2>a. /\ Allow(config) \in Rule /\ Drop(config) \in Rule /\ BanDrop(config) \in Rule
        /\ Allow(config) # Drop(config) /\ BanDrop(config) # Drop(config)
    BY <2>0, FileFacts, Kinds
  <2>1. rules' # rules
    OBVIOUS
  <2>2. CASE EnsureDrop
    <3>1. Ensure(Drop(config), Append(rules, Drop(config))) /\ step = 4
      BY <2>2 DEF EnsureDrop
    <3>2. Contains(rules, Allow(config)) /\ AllowsFirst(rules')
      BY <3>1 DEF PInv
    <3>3. rules' \in Seq(Rule)
      BY DEF SInv, SetupTypeOK
    <3>4. Contains(rules', Allow(config))
      BY <2>0, <2>a, <3>1, <3>2, Kinds, EnsureBack DEF PInv
    <3>5. {config.ipset_name} \cap BanSets = {}
      OBVIOUS
    <3> QED BY <2>0, <3>2, <3>3, <3>4, <3>5, AllowedComeThrough
  <2>3. CASE EnsureAllow
    <3>1. Ensure(Allow(config), Cons(Allow(config), rules))
      BY <2>3 DEF EnsureAllow
    <3> QED BY <2>0, <2>a, <3>1, Kinds, EnsureFront DEF PInv
  <2>4. CASE EnsureBanDrop
    <3>1. Ensure(BanDrop(config), Cons(BanDrop(config), rules))
      BY <2>4 DEF EnsureBanDrop
    <3> QED BY <2>0, <2>a, <3>1, Kinds, EnsureFront DEF PInv
  <2>5. CASE LoseRule
    <3>1. PICK i \in DOMAIN rules : rules' = RemoveAt(rules, i)
      BY <2>5 DEF LoseRule
    <3> QED BY <2>0, <3>1, RemoveChain
  <2>6. CASE Reboot
    <3>1. rules' = <<>>
      BY <2>6 DEF Reboot
    <3> QED BY <3>1 DEF Contains
  <2> QED
    BY <2>1, <2>2, <2>3, <2>4, <2>5, <2>6
    DEF SetupNext, SetupStep, setupVars, Begin, CreateSet, Fail, StartDaemon, DaemonEnds,
        EditConfig, DestroySet
<1>2. SInv /\ SInv' /\ PInv /\ PInv' /\ [SetupNext]_setupVars => [A]_setupVars
  BY <1>1
<1> QED BY <1>2, ProtectInvariant, PTL DEF SetupSpec, NeverLockedOut
================================================================================
