---------------------------- MODULE MCSocksServer ----------------------------
(* Two clients, two addresses, for TLC. *)
EXTENDS SocksServer, TLC
CONSTANTS c1, c2, a1, a2, n1, n2, n3

Symmetry == Permutations({c1, c2})

\* n1 and n2 always lead to one address; n3 to the one, the other, one that is
\* not IPv4, or to nothing.
Lookups == n1 :> {a1} @@ n2 :> {a2} @@ n3 :> {a1, a2, AnyAddr, NoAddr}

\* "deny c a2", "permit c *", "permit b a1", "deny b *".
SomeRules == <<[permit |-> FALSE, cd |-> 1, addrs |-> {a2}],
               [permit |-> TRUE,  cd |-> 1, addrs |-> {a1, a2, AnyAddr}],
               [permit |-> TRUE,  cd |-> 2, addrs |-> {a1}],
               [permit |-> FALSE, cd |-> 2, addrs |-> {a1, a2, AnyAddr}]>>
=============================================================================
