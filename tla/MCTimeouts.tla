---------------------------- MODULE MCTimeouts ----------------------------
(* Small instances of Timeouts: a check every tick, one tick of inactivity,  *)
(* enough of connection for an idle client to be removed as idle first.      *)
EXTENDS Timeouts

CONSTANTS i1, i2, m1, m2, n1, n2

OneIP == {i1}
TwoIPs == {i1, i2}
OneMAC == {m1}
TwoMACs == {m1, m2}
OneNode == {n1}
TwoNodes == {n1, n2}

\* Addresses are interchangeable in the specification and its safety properties.
Symmetry == Permutations(IP) \cup Permutations(MAC) \cup Permutations(Node)
============================================================================
