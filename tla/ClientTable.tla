---------------------------- MODULE ClientTable ----------------------------
(***************************************************************************)
(* What the client list promises to the rest of the gateway: a table of    *)
(* sessions, one per <<ip, mac>> pair, never more than maxclients of them. *)
(* A session starts preauthenticated, may become authenticated, and ends   *)
(* by being removed.  How nodes, slots and counters are kept, and how the  *)
(* threads share them, is the business of ClientList and of Gateway; both  *)
(* implement this specification.                                           *)
(***************************************************************************)
EXTENDS Naturals, FiniteSets

CONSTANTS IP, MAC, maxclients

VARIABLE table

States == {"PREAUTHENTICATED", "AUTHENTICATED"}
Key == IP \X MAC

Present == {k \in Key : table[k] # "absent"}

Init == table = [k \in Key |-> "absent"]

\* A new session is added only below the limit.
Add(k) == /\ table[k] = "absent"
          /\ Cardinality(Present) < maxclients
          /\ table' = [table EXCEPT ![k] = "PREAUTHENTICATED"]

Authenticate(k) == /\ table[k] = "PREAUTHENTICATED"
                   /\ table' = [table EXCEPT ![k] = "AUTHENTICATED"]

Remove(k) == /\ table[k] # "absent"
             /\ table' = [table EXCEPT ![k] = "absent"]

Next == \E k \in Key : Add(k) \/ Authenticate(k) \/ Remove(k)

Spec == Init /\ [][Next]_table

TypeOK == table \in [Key -> States \cup {"absent"}]
============================================================================
