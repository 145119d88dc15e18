--------------------------- MODULE MCAuthServer ---------------------------
(* A small instance of AuthServer: two values and lists of addresses, names  *)
(* and MACs, a good configuration, one refused half way that also moves the  *)
(* path, one with a value where a list belongs, and one too long for the     *)
(* buffer.                                                                   *)
EXTENDS AuthServer

File == [configPath |-> "p0", maxClients |-> 20]
WellFormed == {"a", "b"}

Value(k, v) == [key |-> k, value |-> v, array |-> FALSE]
ListOf(k, s) == [key |-> k, value |-> s, array |-> TRUE]
End == [key |-> "}", value |-> 0, array |-> FALSE]

Good == << ListOf("freeIPList", {"a", "bad"}), Value("maxClients", 5) >>
Moved == << Value("maxClients", 7), Value("configPath", "p1"), ListOf("blockedMACList", {"b"}),
            ListOf("freeDomainList", {"d", "e"}) >>

AddressesOfNames(name) == IF name = "d" THEN {"a", "b"} ELSE {"c"}

Sent == { Good, Moved,
          << Value("maxClients", 9), Value("configPath", "p1"), Value("other", 1),
             ListOf("freeIPList", {"b"}) >>,
          << ListOf("blockedMACList", {"a"}), [Value("freeIPList", {}) EXCEPT !.array = FALSE] >>,
          << Value("maxClients", 1), Value("maxClients", 2), Value("maxClients", 3),
             Value("maxClients", 4), Value("maxClients", 5) >> }

Serve(p) == IF p = "p0" THEN Good ELSE Moved
===========================================================================
