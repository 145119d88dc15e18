--------------------------- MODULE MCClientList ---------------------------
(* A small instance of ClientList.  Two addresses of each kind let two     *)
(* clients share an IP or a MAC; three slots and four nodes leave a freed   *)
(* address that the next client may or may not get.                        *)
EXTENDS ClientList

CONSTANTS i1, i2, m1, m2, n1, n2, n3, n4

MCIP == {i1, i2}
MCMAC == {m1, m2}
MCNode == {n1, n2, n3, n4}
============================================================================
