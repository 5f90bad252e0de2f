------------------------------- MODULE HashMap -------------------------------
(***************************************************************************)
(* std::collections::HashMap as the daemon uses it: a function whose       *)
(* domain is the set of keys present.  `retain` is Restrict from the       *)
(* community module Functions; the two operations below are `insert` and   *)
(* `remove`.  `contains_key` is membership in DOMAIN and `len` is          *)
(* Cardinality(DOMAIN m).                                                  *)
(***************************************************************************)
EXTENDS Integers, FiniteSets, Functions

EmptyMap == [x \in {} |-> x]

\* HashMap::insert: adds the key or overwrites its value.
Insert(m, key, value) ==
  [x \in DOMAIN m \cup {key} |-> IF x = key THEN value ELSE m[x]]

\* HashMap::remove: a no-op when the key is absent.
Without(m, key) == Restrict(m, DOMAIN m \ {key})

Size(m) == Cardinality(DOMAIN m)
==============================================================================
