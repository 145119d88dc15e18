----------------------------- MODULE MCGateway -----------------------------
(* A small instance of Gateway: two request threads and the time-out       *)
(* thread, two clients that share an ip, and two slots for them.             *)
EXTENDS Gateway

CONSTANTS i1, i2, m1, m2, n1, n2, n3, h1, h2

OneIP == {i1}
TwoIPs == {i1, i2}
OneMAC == {m1}
TwoMACs == {m1, m2}
OneNode == {n1}
ThreeNodes == {n1, n2, n3}

OneHandler == {h1}
TwoHandlers == {h1, h2}

\* The specification and its safety properties treat these alike.
Symmetry == Permutations(Handler) \cup Permutations(Node) \cup Permutations(MAC)
            \cup Permutations(IP)
============================================================================
