----------------------------- MODULE ClientList -----------------------------
(***************************************************************************)
(* client_list.c: the linked list of clients, the array client_arr that    *)
(* hands out the index a client's packet mark and traffic class are made   *)
(* of, and client_count.  Together with the state changes that auth.c and  *)
(* firewall.c make to a node, each operation is one step: the code runs    *)
(* all of them under client_list_mutex.  Gateway splits them among threads *)
(* and adds the firewall rules.                                            *)
(*                                                                         *)
(* Node is the set of addresses malloc() can return; an address is in use  *)
(* exactly while it is on the list, and is free to be returned again once  *)
(* the node is deleted.                                                    *)
(***************************************************************************)
EXTENDS Integers, Sequences, FiniteSets, SequencesExt

CONSTANTS
    IP, MAC,        \* client addresses
    Node,           \* memory addresses of t_client structures
    maxclients,     \* config->maxclients
    NULL

ASSUME MaxclientsAssumption == maxclients \in Nat
ASSUME NullAssumption == NULL \notin Node
\* malloc() does not fail (safe_malloc() ends the process if it does).
ASSUME HeapAssumption == IsFiniteSet(Node) => Cardinality(Node) >= maxclients

VARIABLES
    list,           \* firstclient and the next pointers, in list order
    client,         \* the t_client structure at each address
    client_arr,     \* client_arr[i]: the client holding index i, or NULL
    client_count

clientVars == <<list, client, client_arr, client_count>>

Slot == 0 .. maxclients - 1
Listed == {list[i] : i \in DOMAIN list}

\* The fields the list operations read and write.  idx of a structure that
\* was never filled in is 0, as after memset().
Client == [ip : IP \cup {NULL}, mac : MAC \cup {NULL}, idx : Nat,
           fw_connection_state : {"PREAUTHENTICATED", "AUTHENTICATED"}]

Blank == [ip |-> NULL, mac |-> NULL, idx |-> 0,
          fw_connection_state |-> "PREAUTHENTICATED"]

client_list_init == /\ list = <<>>
                    /\ client = [n \in Node |-> Blank]
                    /\ client_arr = [i \in Slot |-> NULL]
                    /\ client_count = 0

----------------------------------------------------------------------------
(* Looking a client up: the first node in list order that matches. *)

FirstMatch(Match) ==
    IF \E i \in DOMAIN list : list[i] \in Match
    THEN list[CHOOSE i \in DOMAIN list :
                /\ list[i] \in Match
                /\ \A j \in 1 .. i - 1 : list[j] \notin Match]
    ELSE NULL

client_list_find(ip, mac) ==
    FirstMatch({n \in Node : client[n].ip = ip /\ client[n].mac = mac})
client_list_find_by_ip(ip) == FirstMatch({n \in Node : client[n].ip = ip})
client_list_find_by_mac(mac) == FirstMatch({n \in Node : client[n].mac = mac})

----------------------------------------------------------------------------
(* Adding a client. *)

\* The loop over client_arr stops at the first free slot, or at maxclients,
\* one past the end of the array, when there is none.
FreeSlotByCount == client_count                    \* wrong versions of FreeSlot
FreeSlotPastEnd == maxclients
FreeSlot == CHOOSE i \in 0 .. maxclients :
                /\ i # maxclients => client_arr[i] = NULL
                /\ \A j \in 0 .. i - 1 : client_arr[j] # NULL

ListFullOffByOne == client_count > maxclients      \* a wrong ListFull
ListFull == client_count >= maxclients

client_list_append(ip, mac) ==
    IF ListFull
    THEN UNCHANGED clientVars
    ELSE \E n \in Node \ Listed :
           /\ client' = [client EXCEPT ![n] =
                  [ip |-> ip, mac |-> mac, idx |-> FreeSlot,
                   fw_connection_state |-> "PREAUTHENTICATED"]]
           /\ client_arr' = [client_arr EXCEPT ![FreeSlot] = n]
           /\ list' = Append(list, n)
           /\ client_count' = client_count + 1

\* mac is what the ARP cache holds for ip, NULL when it holds nothing; an ip
\* outside IP is an argument that check_ip_format() refuses.
NeverLookedUp(ip, mac) == FALSE                   \* a wrong AlreadyListed
AlreadyListed(ip, mac) == client_list_find(ip, mac) # NULL

client_list_add_client(ip, mac) ==
    IF ip \notin IP \/ mac = NULL \/ AlreadyListed(ip, mac)
    THEN UNCHANGED clientVars
    ELSE client_list_append(ip, mac)

----------------------------------------------------------------------------
(* Deleting a client. *)

\* A wrong client_list_free_node: the slot is not given back.
FreeNodeKeepsSlot(n) == /\ client' = [client EXCEPT ![n] = Blank]
                        /\ UNCHANGED client_arr

\* The freed structure holds nothing that may be read any more.
client_list_free_node(n) ==
    /\ client_arr' = IF client_arr[client[n].idx] = n
                     THEN [client_arr EXCEPT ![client[n].idx] = NULL]
                     ELSE client_arr
    /\ client' = [client EXCEPT ![n] = Blank]

CountKept == client_count                          \* a wrong CountAfterDelete
CountAfterDelete == client_count - 1

client_list_delete(n) ==
    IF n \notin Listed
    THEN UNCHANGED clientVars
    ELSE /\ \E i \in DOMAIN list : list[i] = n /\ list' = RemoveAt(list, i)
         /\ client_list_free_node(n)
         /\ client_count' = CountAfterDelete

----------------------------------------------------------------------------
(* What auth.c and firewall.c do to a node while they hold the mutex. *)

SetAuthenticated(n) ==
    /\ client' = [client EXCEPT ![n].fw_connection_state = "AUTHENTICATED"]
    /\ UNCHANGED <<list, client_arr, client_count>>

MakeAuthenticated(ip, mac) ==
    LET n == client_list_find(ip, mac) IN
    /\ n # NULL
    /\ client[n].fw_connection_state # "AUTHENTICATED"
    /\ SetAuthenticated(n)

MakeDeauthenticated(ip, mac) ==
    LET n == client_list_find(ip, mac) IN
    /\ n # NULL
    /\ client_list_delete(n)

\* fw_refresh_client_list() deletes the clients that timed out, of any state.
TimeOut(n) == n \in Listed /\ client_list_delete(n)

Init == client_list_init

Next == \/ \E ip \in IP, mac \in MAC :
             \/ client_list_add_client(ip, mac)
             \/ MakeAuthenticated(ip, mac)
             \/ MakeDeauthenticated(ip, mac)
        \/ \E n \in Node : TimeOut(n)

Spec == Init /\ [][Next]_clientVars

----------------------------------------------------------------------------
TypeOK == /\ list \in Seq(Node)
          /\ client \in [Node -> Client]
          /\ client_arr \in [Slot -> Node \cup {NULL}]
          /\ client_count \in 0 .. maxclients

\* Every node is on the list once, so that deleting it once unlinks it and
\* no node is freed while a next pointer still leads to it.
ListInjective == \A i, j \in DOMAIN list : list[i] = list[j] => i = j

\* client_count, the number the maxclients test of _client_list_append() and
\* the status page rely on, is the number of nodes on the list, whatever
\* order of additions, deauthentications and time-outs led there.
CountMatchesList == client_count = Len(list)

\* No more than maxclients clients are listed (MaxClients in wificat.conf).
WithinMaxclients == Len(list) <= maxclients

\* The array and the list agree: a listed client holds the slot its idx
\* names and every other slot is free.  So the slot search of
\* _client_list_append() never runs past the end of client_arr, and no two
\* clients share an idx and with it a packet mark and a traffic class.
SlotsMatchList ==
    /\ \A n \in Listed : client[n].idx \in Slot /\ client_arr[client[n].idx] = n
    /\ \A s \in Slot : client_arr[s] # NULL =>
           client_arr[s] \in Listed /\ client[client_arr[s]].idx = s

\* There is one node for an ip and mac, although _client_list_append() "does
\* not check for duplicate entries".
ClientsDistinct == \A m, n \in Listed :
    client[m].ip = client[n].ip /\ client[m].mac = client[n].mac => m = n

\* A listed client was added with an address and the MAC the ARP cache gave.
ListedHaveKeys == \A n \in Listed : client[n].ip \in IP /\ client[n].mac \in MAC

\* The inductive invariant ClientListProofs establishes.
IInv == /\ TypeOK
        /\ ListInjective
        /\ CountMatchesList
        /\ SlotsMatchList
        /\ ClientsDistinct
        /\ ListedHaveKeys

----------------------------------------------------------------------------
(* The list implements the table of sessions. *)

Holders(k) == {n \in Listed : client[n].ip = k[1] /\ client[n].mac = k[2]}

Sessions == [k \in IP \X MAC |->
    IF Holders(k) = {} THEN "absent"
    ELSE client[CHOOSE n \in Holders(k) : TRUE].fw_connection_state]

Table == INSTANCE ClientTable WITH table <- Sessions

\* Every step of the list operations adds, authenticates or removes at most
\* one session, and adds one only below maxclients.
ImplementsTable == Table!Spec
============================================================================
