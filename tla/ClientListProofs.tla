-------------------------- MODULE ClientListProofs --------------------------
(***************************************************************************)
(* Proofs about ClientList, for every number of clients, addresses and     *)
(* memory addresses: the inductive invariant IInv, the invariants it       *)
(* implies, and the refinement of ClientTable.                             *)
(***************************************************************************)
EXTENDS ClientList, FiniteSetTheorems, SequenceTheorems, WellFoundedInduction,
        TLAPS

----------------------------------------------------------------------------
(* Numbers and sequences. *)

\* A non-empty set of natural numbers has a least element: the first match of
\* a search through the list, the first free slot of client_arr.
LEMMA LeastElement ==
    ASSUME NEW T \in SUBSET Nat, T # {}
    PROVE  \E x \in T : \A y \in T : x <= y
<1>1. PICK x \in T : \A y \in T : ~ (<<y, x>> \in OpToRel(<, Nat))
  BY WFMin, NatLessThanWellFounded
<1>2. \A y \in T : ~ (y < x)
  BY <1>1 DEF OpToRel
<1> QED
  BY <1>2

\* The number of slots of an array and of positions in a list of n elements.
LEMMA IntervalSizes ==
    ASSUME NEW n \in Nat
    PROVE  /\ IsFiniteSet(0 .. n - 1) /\ Cardinality(0 .. n - 1) = n
           /\ IsFiniteSet(1 .. n) /\ Cardinality(1 .. n) = n
<1>1. /\ IsFiniteSet(0 .. n - 1)
      /\ Cardinality(0 .. n - 1) = IF 0 > n - 1 THEN 0 ELSE (n - 1) - 0 + 1
  <2>1. 0 \in Int /\ n - 1 \in Int
    OBVIOUS
  <2> QED
    BY <2>1, FS_Interval, Zenon
<1>2. /\ IsFiniteSet(1 .. n)
      /\ Cardinality(1 .. n) = IF 1 > n THEN 0 ELSE n - 1 + 1
  <2>1. 1 \in Int /\ n \in Int
    OBVIOUS
  <2> QED
    BY <2>1, FS_Interval, Zenon
<1> QED
  BY <1>1, <1>2

\* RemoveAt, the unlinking of one node, as a function of the positions.
LEMMA RemoveAtProperties ==
    ASSUME NEW S, NEW s \in Seq(S), NEW i \in 1 .. Len(s)
    PROVE  /\ RemoveAt(s, i) \in Seq(S)
           /\ Len(RemoveAt(s, i)) = Len(s) - 1
           /\ \A j \in 1 .. Len(s) - 1 :
                 RemoveAt(s, i)[j] = IF j < i THEN s[j] ELSE s[j + 1]
<1> DEFINE a == SubSeq(s, 1, i - 1)
           b == SubSeq(s, i + 1, Len(s))
<1>0. /\ Len(s) \in Nat
      /\ \A j \in 1 .. Len(s) : s[j] \in S
  BY LenProperties, ElementOfSeq
<1>1. /\ a \in Seq(S)
      /\ Len(a) = i - 1
      /\ \A j \in 1 .. i - 1 : a[j] = s[j]
  BY <1>0, SubSeqProperties, 1 \in Int, i - 1 \in Int, \A j \in 1 .. i - 1 : s[j] \in S
<1>2. /\ b \in Seq(S)
      /\ Len(b) = Len(s) - i
      /\ \A j \in 1 .. Len(s) - i : b[j] = s[i + j]
  BY <1>0, SubSeqProperties, i + 1 \in Int, Len(s) \in Int,
     \A j \in i + 1 .. Len(s) : s[j] \in S
<1> HIDE DEF a, b
<1>3. /\ a \o b \in Seq(S)
      /\ Len(a \o b) = Len(s) - 1
      /\ \A j \in 1 .. Len(s) - 1 :
            (a \o b)[j] = IF j <= i - 1 THEN a[j] ELSE b[j - (i - 1)]
  <2>1. /\ a \o b \in Seq(S)
        /\ Len(a \o b) = Len(a) + Len(b)
        /\ \A j \in 1 .. Len(a) + Len(b) :
              (a \o b)[j] = IF j <= Len(a) THEN a[j] ELSE b[j - Len(a)]
    BY <1>1, <1>2, ConcatProperties, Zenon
  <2>2. Len(a) = i - 1 /\ Len(a) + Len(b) = Len(s) - 1
    BY <1>0, <1>1, <1>2
  <2> QED
    BY <2>1, <2>2
<1>4. \A j \in 1 .. Len(s) - 1 : (a \o b)[j] = IF j < i THEN s[j] ELSE s[j + 1]
  BY <1>0, <1>1, <1>2, <1>3
<1> QED
  BY <1>3, <1>4 DEF RemoveAt, a, b

----------------------------------------------------------------------------
(* The operations on the list, as operations on the set of its nodes. *)

\* Linking a new node at the end adds that node to the set and no other.
LEMMA AppendEffect ==
    ASSUME list \in Seq(Node), ListInjective,
           NEW n \in Node, n \notin Listed, list' = Append(list, n)
    PROVE  /\ list' \in Seq(Node)
           /\ Len(list') = Len(list) + 1
           /\ Listed' = Listed \cup {n}
           /\ ListInjective'
<1>1. /\ list' \in Seq(Node)
      /\ Len(list') = Len(list) + 1
      /\ \A i \in 1 .. Len(list) : list'[i] = list[i]
      /\ list'[Len(list) + 1] = n
  BY AppendProperties
<1>2. /\ Len(list) \in Nat
      /\ DOMAIN list = 1 .. Len(list)
      /\ DOMAIN list' = 1 .. Len(list) + 1
  BY <1>1, LenProperties
<1>3. Listed' = Listed \cup {n}
  BY <1>1, <1>2 DEF Listed
<1>4. ListInjective'
  BY <1>1, <1>2 DEF ListInjective, Listed
<1> QED
  BY <1>1, <1>3, <1>4

\* Unlinking a node removes it from the set, because it was linked once.
LEMMA RemoveEffect ==
    ASSUME list \in Seq(Node), ListInjective,
           NEW n \in Node, NEW i \in DOMAIN list, list[i] = n,
           list' = RemoveAt(list, i)
    PROVE  /\ list' \in Seq(Node)
           /\ Len(list') = Len(list) - 1
           /\ Listed' = Listed \ {n}
           /\ ListInjective'
<1>0. Len(list) \in Nat /\ DOMAIN list = 1 .. Len(list) /\ i \in 1 .. Len(list)
  BY LenProperties
<1>1. /\ list' \in Seq(Node)
      /\ Len(list') = Len(list) - 1
      /\ \A j \in 1 .. Len(list) - 1 :
            list'[j] = IF j < i THEN list[j] ELSE list[j + 1]
  BY <1>0, RemoveAtProperties
<1>2. DOMAIN list' = 1 .. Len(list) - 1
  BY <1>0, <1>1, LenProperties
<1> DEFINE old(j) == IF j < i THEN j ELSE j + 1
<1>a. /\ \A j \in 1 .. Len(list) - 1 : /\ list'[j] = list[old(j)]
                                      /\ old(j) \in 1 .. Len(list)
                                      /\ old(j) # i
      /\ \A j, k \in 1 .. Len(list) - 1 : old(j) = old(k) => j = k
  BY <1>0, <1>1
<1> HIDE DEF old
<1>3. Listed' \subseteq Listed \ {n}
  <2> SUFFICES ASSUME NEW j \in 1 .. Len(list) - 1
               PROVE  list'[j] \in Listed \ {n}
    BY <1>2 DEF Listed
  <2>1. list[old(j)] \in Listed
    BY <1>0, <1>a DEF Listed
  <2>2. list[old(j)] # n
    BY <1>0, <1>a DEF ListInjective
  <2> QED
    BY <1>a, <2>1, <2>2
<1>4. ASSUME NEW m \in Listed, m # n
      PROVE  m \in Listed'
  <2>1. PICK k \in 1 .. Len(list) : list[k] = m
    BY <1>0, <1>4 DEF Listed
  <2>2. CASE k < i
    BY <2>1, <2>2, <1>0, <1>1, <1>2 DEF Listed
  <2>3. CASE k > i
    <3>1. k - 1 \in 1 .. Len(list) - 1 /\ list'[k - 1] = m
      BY <2>1, <2>3, <1>0, <1>1
    <3> QED
      BY <3>1, <1>2 DEF Listed
  <2> QED
    BY <2>1, <2>2, <2>3, <1>0, <1>4
<1>5. ListInjective'
  <2> SUFFICES ASSUME NEW j \in 1 .. Len(list) - 1, NEW k \in 1 .. Len(list) - 1,
                      list'[j] = list'[k]
               PROVE  j = k
    BY <1>2 DEF ListInjective
  <2>1. list[old(j)] = list[old(k)]
    BY <1>a
  <2>2. old(j) = old(k)
    BY <2>1, <1>0, <1>a DEF ListInjective
  <2> QED
    BY <2>2, <1>a
<1> QED
  BY <1>1, <1>3, <1>4, <1>5

\* client_list_find() and its variants return a listed node that matches, or
\* NULL only when there is none.
LEMMA FirstMatchFinds ==
    ASSUME list \in Seq(Node), NEW Match \in SUBSET Node
    PROVE  \/ FirstMatch(Match) = NULL /\ Listed \cap Match = {}
           \/ FirstMatch(Match) \in Listed \cap Match
<1> DEFINE P == {i \in DOMAIN list : list[i] \in Match}
<1>0. DOMAIN list = 1 .. Len(list) /\ Len(list) \in Nat
  BY LenProperties
<1>1. CASE P = {}
  BY <1>1 DEF FirstMatch, Listed
<1>2. CASE P # {}
  <2>1. PICK i \in P : \A j \in P : i <= j
    BY <1>0, <1>2, LeastElement, P \in SUBSET Nat
  <2>2. /\ i \in DOMAIN list /\ list[i] \in Match
        /\ \A j \in 1 .. i - 1 : list[j] \notin Match
    BY <1>0, <2>1
  <2>3. FirstMatch(Match) \in Listed \cap Match
    BY <2>2 DEF FirstMatch, Listed
  <2> QED
    BY <2>3
<1> QED
  BY <1>1, <1>2

\* What the lookup of a client by ip and mac returns.
LEMMA FindByKey ==
    ASSUME list \in Seq(Node), NEW ip, NEW mac
    PROVE  LET r == client_list_find(ip, mac) IN
           \/ r = NULL /\ \A n \in Listed : ~ (client[n].ip = ip /\ client[n].mac = mac)
           \/ r \in Listed /\ client[r].ip = ip /\ client[r].mac = mac
<1> DEFINE M == {n \in Node : client[n].ip = ip /\ client[n].mac = mac}
<1>1. \/ FirstMatch(M) = NULL /\ Listed \cap M = {}
      \/ FirstMatch(M) \in Listed \cap M
  BY FirstMatchFinds, M \in SUBSET Node
<1>2. Listed \subseteq Node
  BY LenProperties, ElementOfSeq DEF Listed
<1> QED
  BY <1>1, <1>2 DEF client_list_find

----------------------------------------------------------------------------
(* The slots of client_arr. *)

\* Below the limit a slot is free: the occupied slots are held by listed
\* nodes, and the list has fewer than maxclients of them.  So the search of
\* _client_list_append() stops inside the array.
LEMMA FreeSlotIsFree ==
    ASSUME IInv, client_count < maxclients
    PROVE  FreeSlot \in Slot /\ client_arr[FreeSlot] = NULL
<1> USE DEF IInv
<1>0. /\ maxclients \in Nat /\ Len(list) \in Nat /\ Len(list) < maxclients
      /\ DOMAIN list = 1 .. Len(list)
  BY MaxclientsAssumption, LenProperties DEF TypeOK, CountMatchesList
<1>1. \E s \in Slot : client_arr[s] = NULL
  <2> SUFFICES ASSUME \A s \in Slot : client_arr[s] # NULL
               PROVE  FALSE
    OBVIOUS
  <2> DEFINE pos == [s \in Slot |-> CHOOSE i \in DOMAIN list : list[i] = client_arr[s]]
  <2>1. \A s \in Slot : /\ client_arr[s] \in Listed
                        /\ client[client_arr[s]].idx = s
    BY DEF SlotsMatchList
  <2>2. \A s \in Slot : pos[s] \in DOMAIN list /\ list[pos[s]] = client_arr[s]
    BY <2>1 DEF Listed
  <2> HIDE DEF pos
  <2>3. pos \in [Slot -> 1 .. Len(list)]
    BY <1>0, <2>2 DEF pos
  <2>4. IsFiniteSet(Slot) /\ Cardinality(Slot) = maxclients
    BY <1>0, IntervalSizes DEF Slot
  <2>5. IsFiniteSet(1 .. Len(list)) /\ Cardinality(1 .. Len(list)) = Len(list)
    BY <1>0, IntervalSizes
  <2>6. PICK s, t \in Slot : s # t /\ pos[s] = pos[t]
    BY <1>0, <2>3, <2>4, <2>5, FS_PigeonHole
  <2> QED
    BY <2>1, <2>2, <2>6
<1> DEFINE T == {s \in Slot : client_arr[s] = NULL}
<1>2. PICK i \in T : \A j \in T : i <= j
  BY <1>0, <1>1, LeastElement, T \in SUBSET Nat DEF Slot
<1>3. /\ i \in 0 .. maxclients
      /\ client_arr[i] = NULL
      /\ \A j \in 0 .. i - 1 : client_arr[j] # NULL
  BY <1>0, <1>2 DEF Slot
<1>4. /\ FreeSlot \in 0 .. maxclients
      /\ FreeSlot # maxclients => client_arr[FreeSlot] = NULL
      /\ \A j \in 0 .. FreeSlot - 1 : client_arr[j] # NULL
  BY <1>3 DEF FreeSlot
<1>5. FreeSlot # maxclients
  BY <1>0, <1>2, <1>3, <1>4 DEF Slot
<1> QED
  BY <1>0, <1>4, <1>5 DEF Slot

----------------------------------------------------------------------------
(* Each operation preserves the invariant. *)

\* client_list_init() leaves an empty list and a free array.
LEMMA InitIInv == Init => IInv
<1> SUFFICES ASSUME Init PROVE IInv
  OBVIOUS
<1> USE DEF Init, client_list_init
<1>1. Len(list) = 0 /\ list \in Seq(Node) /\ Listed = {}
  BY DEF Listed
<1>2. TypeOK
  BY <1>1, MaxclientsAssumption DEF TypeOK, Client, Blank, Slot
<1>3. ListInjective /\ CountMatchesList
  BY <1>1 DEF ListInjective, CountMatchesList
<1>4. SlotsMatchList /\ ClientsDistinct /\ ListedHaveKeys
  BY <1>1 DEF SlotsMatchList, ClientsDistinct, ListedHaveKeys
<1> QED
  BY <1>2, <1>3, <1>4 DEF IInv

\* _client_list_append(), called for a pair that is not listed and below the
\* limit, keeps the invariant: the new node takes a free slot and counts once.
LEMMA AppendIInv ==
    ASSUME IInv, NEW ip \in IP, NEW mac \in MAC,
           \A n \in Listed : ~ (client[n].ip = ip /\ client[n].mac = mac),
           client_list_append(ip, mac)
    PROVE  IInv'
<1> USE DEF IInv
<1>1. CASE ListFull
  <2> UNCHANGED clientVars
    BY <1>1 DEF client_list_append
  <2> QED
    BY DEF clientVars, TypeOK, ListInjective, CountMatchesList, SlotsMatchList,
           ClientsDistinct, ListedHaveKeys, Listed
<1>2. CASE ~ ListFull
  <2>0. /\ list \in Seq(Node) /\ client_count \in 0 .. maxclients
        /\ maxclients \in Nat /\ client_count < maxclients
    BY <1>2, MaxclientsAssumption DEF TypeOK, ListFull
  <2>1. PICK n \in Node \ Listed :
          /\ client' = [client EXCEPT ![n] =
                 [ip |-> ip, mac |-> mac, idx |-> FreeSlot,
                  fw_connection_state |-> "PREAUTHENTICATED"]]
          /\ client_arr' = [client_arr EXCEPT ![FreeSlot] = n]
          /\ list' = Append(list, n)
          /\ client_count' = client_count + 1
    BY <1>2 DEF client_list_append
  <2>2. /\ list' \in Seq(Node)
        /\ Len(list') = Len(list) + 1
        /\ Listed' = Listed \cup {n}
        /\ ListInjective'
    BY <2>0, <2>1, AppendEffect
  <2>3. FreeSlot \in Slot /\ client_arr[FreeSlot] = NULL
    BY <2>0, FreeSlotIsFree
  <2>4. FreeSlot \in Nat
    BY <2>0, <2>3 DEF Slot
  <2>5. Listed \subseteq Node
    BY <2>0, LenProperties, ElementOfSeq DEF Listed
  <2>6. TypeOK'
    BY <2>0, <2>1, <2>2, <2>3, <2>4 DEF TypeOK, Client
  <2>7. CountMatchesList'
    BY <2>1, <2>2 DEF CountMatchesList
  <2>8. /\ \A m \in Listed : client'[m] = client[m]
        /\ client'[n] = [ip |-> ip, mac |-> mac, idx |-> FreeSlot,
                          fw_connection_state |-> "PREAUTHENTICATED"]
        /\ \A s \in Slot : client_arr'[s] = IF s = FreeSlot THEN n ELSE client_arr[s]
    BY <2>1, <2>3, <2>5 DEF TypeOK
  <2>9. SlotsMatchList'
    <3>1. ASSUME NEW m \in Listed'
          PROVE  client'[m].idx \in Slot /\ client_arr'[client'[m].idx] = m
      <4>1. CASE m = n
        BY <4>1, <2>3, <2>8
      <4>2. CASE m \in Listed
        <5>1. client[m].idx \in Slot /\ client_arr[client[m].idx] = m
          BY <4>2 DEF SlotsMatchList
        <5>2. client[m].idx # FreeSlot
          BY <5>1, <2>3, <2>5, <4>2, NullAssumption
        <5> QED
          BY <5>1, <5>2, <4>2, <2>8
      <4> QED
        BY <2>2, <4>1, <4>2
    <3>2. ASSUME NEW s \in Slot, client_arr'[s] # NULL
          PROVE  client_arr'[s] \in Listed' /\ client'[client_arr'[s]].idx = s
      <4>1. CASE s = FreeSlot
        BY <4>1, <2>2, <2>8
      <4>2. CASE s # FreeSlot
        BY <4>2, <3>2, <2>2, <2>8 DEF SlotsMatchList
      <4> QED
        BY <4>1, <4>2
    <3> QED
      BY <3>1, <3>2 DEF SlotsMatchList, Slot
  <2>10. ClientsDistinct'
    BY <2>2, <2>8 DEF ClientsDistinct
  <2>11. ListedHaveKeys'
    BY <2>2, <2>8 DEF ListedHaveKeys
  <2> QED
    BY <2>2, <2>6, <2>7, <2>9, <2>10, <2>11
<1> QED
  BY <1>1, <1>2

\* client_list_delete() keeps the invariant: the slot that is given back is
\* the node's own, and the count goes down with the list.
LEMMA DeleteIInv ==
    ASSUME IInv, NEW n \in Listed, client_list_delete(n)
    PROVE  IInv'
<1> USE DEF IInv
<1>0. /\ list \in Seq(Node) /\ client_count \in 0 .. maxclients
      /\ maxclients \in Nat /\ Len(list) \in Nat /\ DOMAIN list = 1 .. Len(list)
      /\ Listed \subseteq Node
  BY MaxclientsAssumption, LenProperties, ElementOfSeq DEF TypeOK, Listed
<1>1. PICK i \in DOMAIN list : list[i] = n /\ list' = RemoveAt(list, i)
  BY DEF client_list_delete
<1>2. /\ list' \in Seq(Node)
      /\ Len(list') = Len(list) - 1
      /\ Listed' = Listed \ {n}
      /\ ListInjective'
  BY <1>0, <1>1, RemoveEffect
<1>3. client[n].idx \in Slot /\ client_arr[client[n].idx] = n
  BY DEF SlotsMatchList
<1>4. /\ client_arr' = [client_arr EXCEPT ![client[n].idx] = NULL]
      /\ client' = [client EXCEPT ![n] = Blank]
      /\ client_count' = client_count - 1
  BY <1>3 DEF client_list_delete, client_list_free_node, CountAfterDelete
<1>5. /\ \A m \in Listed' : client'[m] = client[m]
      /\ \A s \in Slot : client_arr'[s] = IF s = client[n].idx THEN NULL ELSE client_arr[s]
  BY <1>0, <1>2, <1>3, <1>4 DEF TypeOK
<1>6. Len(list) >= 1
  BY <1>0, <1>1
<1>7. TypeOK'
  <2>1. client' \in [Node -> Client]
    BY <1>4 DEF TypeOK, Client, Blank
  <2>2. client_arr' \in [Slot -> Node \cup {NULL}]
    BY <1>4 DEF TypeOK
  <2>3. client_count' \in 0 .. maxclients
    BY <1>0, <1>4, <1>6 DEF CountMatchesList
  <2> QED
    BY <1>2, <2>1, <2>2, <2>3 DEF TypeOK, Slot
<1>8. CountMatchesList'
  BY <1>2, <1>4 DEF CountMatchesList
<1>9. SlotsMatchList'
  <2>1. ASSUME NEW m \in Listed'
        PROVE  client'[m].idx \in Slot /\ client_arr'[client'[m].idx] = m
    <3>1. client[m].idx \in Slot /\ client_arr[client[m].idx] = m
      BY <1>2 DEF SlotsMatchList
    <3>2. client[m].idx # client[n].idx
      BY <3>1, <1>2, <1>3
    <3> QED
      BY <3>1, <3>2, <1>5
  <2>2. ASSUME NEW s \in Slot, client_arr'[s] # NULL
        PROVE  client_arr'[s] \in Listed' /\ client'[client_arr'[s]].idx = s
    <3>1. s # client[n].idx /\ client_arr'[s] = client_arr[s]
      BY <2>2, <1>5
    <3>2. client_arr[s] \in Listed /\ client[client_arr[s]].idx = s
      BY <3>1, <2>2 DEF SlotsMatchList
    <3>3. client_arr[s] # n
      BY <3>1, <3>2
    <3> QED
      BY <3>1, <3>2, <3>3, <1>2, <1>5
  <2> QED
    BY <2>1, <2>2 DEF SlotsMatchList, Slot
<1>10. ClientsDistinct' /\ ListedHaveKeys'
  BY <1>2, <1>5 DEF ClientsDistinct, ListedHaveKeys
<1> QED
  BY <1>2, <1>7, <1>8, <1>9, <1>10

\* Marking a listed node authenticated (auth.c:114) disturbs nothing the
\* invariant relates.
LEMMA AuthenticateIInv ==
    ASSUME IInv, NEW n \in Listed, SetAuthenticated(n)
    PROVE  IInv'
<1> USE DEF IInv
<1>0. Listed \subseteq Node
  BY LenProperties, ElementOfSeq DEF Listed, TypeOK
<1>1. /\ client' = [client EXCEPT ![n].fw_connection_state = "AUTHENTICATED"]
      /\ list' = list /\ client_arr' = client_arr /\ client_count' = client_count
  BY DEF SetAuthenticated
<1>2. client' \in [Node -> Client]
  BY <1>0, <1>1 DEF TypeOK, Client
<1>3. \A m \in Node : /\ client'[m].ip = client[m].ip
                      /\ client'[m].mac = client[m].mac
                      /\ client'[m].idx = client[m].idx
  BY <1>1 DEF TypeOK, Client
<1>4. Listed' = Listed
  BY <1>1 DEF Listed
<1>5. SlotsMatchList'
  BY <1>0, <1>1, <1>3, <1>4 DEF SlotsMatchList, Slot, TypeOK
<1>6. ClientsDistinct' /\ ListedHaveKeys'
  BY <1>0, <1>3, <1>4 DEF ClientsDistinct, ListedHaveKeys
<1>7. TypeOK' /\ ListInjective' /\ CountMatchesList'
  BY <1>1, <1>2 DEF TypeOK, ListInjective, CountMatchesList
<1> QED
  BY <1>5, <1>6, <1>7

\* Each step either leaves the list alone or is one of three changes to it.
LEMMA StepCases ==
    ASSUME IInv, Next
    PROVE  \/ \E ip \in IP, mac \in MAC :
                 /\ \A n \in Listed : ~ (client[n].ip = ip /\ client[n].mac = mac)
                 /\ client_list_append(ip, mac)
           \/ \E n \in Listed : /\ client[n].fw_connection_state # "AUTHENTICATED"
                               /\ SetAuthenticated(n)
           \/ \E n \in Listed : client_list_delete(n)
           \/ UNCHANGED clientVars
<1>0. list \in Seq(Node)
  BY DEF IInv, TypeOK
<1>1. CASE \E ip \in IP, mac \in MAC : client_list_add_client(ip, mac)
  <2>1. PICK ip \in IP, mac \in MAC : client_list_add_client(ip, mac)
    BY <1>1
  <2>2. CASE client_list_find(ip, mac) = NULL /\ mac # NULL
    <3>1. \A n \in Listed : ~ (client[n].ip = ip /\ client[n].mac = mac)
      <4>1. Listed \subseteq Node
        BY <1>0, LenProperties, ElementOfSeq DEF Listed
      <4> QED
        BY <1>0, <2>2, <4>1, FindByKey, NullAssumption
    <3> QED
      BY <2>1, <2>2, <3>1 DEF client_list_add_client, AlreadyListed
  <2>3. CASE client_list_find(ip, mac) # NULL \/ mac = NULL
    BY <2>1, <2>3 DEF client_list_add_client, AlreadyListed
  <2> QED
    BY <2>2, <2>3
<1>2. CASE \E ip \in IP, mac \in MAC : MakeAuthenticated(ip, mac)
  BY <1>0, <1>2, FindByKey DEF MakeAuthenticated
<1>3. CASE \E ip \in IP, mac \in MAC : MakeDeauthenticated(ip, mac)
  BY <1>0, <1>3, FindByKey DEF MakeDeauthenticated
<1>4. CASE \E n \in Node : TimeOut(n)
  BY <1>4 DEF TimeOut
<1> QED
  BY <1>1, <1>2, <1>3, <1>4 DEF Next

\* Every step keeps the invariant.
LEMMA StepIInv == IInv /\ [Next]_clientVars => IInv'
<1> SUFFICES ASSUME IInv, [Next]_clientVars
             PROVE  IInv'
  OBVIOUS
<1>1. CASE UNCHANGED clientVars
  BY <1>1 DEF clientVars, IInv, TypeOK, ListInjective, CountMatchesList,
              SlotsMatchList, ClientsDistinct, ListedHaveKeys, Listed
<1>2. CASE Next
  BY <1>1, <1>2, StepCases, AppendIInv, AuthenticateIInv, DeleteIInv
<1> QED
  BY <1>1, <1>2

----------------------------------------------------------------------------
(* The invariants of the client list. *)

\* However additions, authentications, deauthentications and time-outs are
\* mixed, the list, the array and the counter of client_list.c stay in step.
THEOREM Invariance == Spec => []IInv
  BY InitIInv, StepIInv, PTL DEF Spec

\* The structures keep their types; client_count stays in 0 .. maxclients.
THEOREM TypeCorrect == Spec => []TypeOK
<1>1. IInv => TypeOK
  BY DEF IInv
<1> QED
  BY <1>1, Invariance, PTL

\* client_count is the number of listed clients.
THEOREM CountCorrect == Spec => []CountMatchesList
<1>1. IInv => CountMatchesList
  BY DEF IInv
<1> QED
  BY <1>1, Invariance, PTL

\* Indices stay inside client_arr and are never shared by two clients.
THEOREM SlotsCorrect == Spec => []SlotsMatchList
<1>1. IInv => SlotsMatchList
  BY DEF IInv
<1> QED
  BY <1>1, Invariance, PTL

\* No two listed clients have the same ip and mac.
THEOREM DistinctCorrect == Spec => []ClientsDistinct
<1>1. IInv => ClientsDistinct
  BY DEF IInv
<1> QED
  BY <1>1, Invariance, PTL

\* The list never holds more than maxclients clients.
THEOREM LimitKept == Spec => []WithinMaxclients
<1>1. IInv => WithinMaxclients
  BY DEF IInv, TypeOK, CountMatchesList, WithinMaxclients
<1> QED
  BY <1>1, Invariance, PTL

----------------------------------------------------------------------------
(* The list implements the table of sessions. *)

\* The session of a listed client is the state in its node; a pair without a
\* node has no session.
SessionsMatch ==
    /\ \A n \in Listed : /\ <<client[n].ip, client[n].mac>> \in IP \X MAC
                        /\ Sessions[<<client[n].ip, client[n].mac>>]
                              = client[n].fw_connection_state
    /\ \A k \in IP \X MAC :
          (\A n \in Listed : k # <<client[n].ip, client[n].mac>>)
            => Sessions[k] = "absent"

LEMMA SessionsOfList == IInv => SessionsMatch
<1> SUFFICES ASSUME IInv PROVE SessionsMatch
  OBVIOUS
<1>1. ASSUME NEW n \in Listed
      PROVE  /\ <<client[n].ip, client[n].mac>> \in IP \X MAC
             /\ Sessions[<<client[n].ip, client[n].mac>>]
                   = client[n].fw_connection_state
  <2> DEFINE k == <<client[n].ip, client[n].mac>>
  <2>1. k \in IP \X MAC
    BY DEF IInv, ListedHaveKeys
  <2>2. Holders(k) = {n}
    BY DEF Holders, IInv, ClientsDistinct
  <2>3. Sessions[k] = client[CHOOSE m \in Holders(k) : TRUE].fw_connection_state
    BY <2>1, <2>2 DEF Sessions
  <2>4. (CHOOSE m \in Holders(k) : TRUE) = n
    BY <2>2
  <2> QED
    BY <2>1, <2>3, <2>4
<1>2. ASSUME NEW k \in IP \X MAC,
             \A n \in Listed : k # <<client[n].ip, client[n].mac>>
      PROVE  Sessions[k] = "absent"
  <2>1. Holders(k) = {}
    BY <1>2 DEF Holders
  <2> QED
    BY <2>1 DEF Sessions
<1> QED
  BY <1>1, <1>2 DEF SessionsMatch

\* The sessions are no more than the nodes that hold them.
LEMMA SessionsBounded ==
    ASSUME IInv
    PROVE  /\ Cardinality(Table!Present) \in Nat
           /\ Cardinality(Table!Present) <= Len(list)
<1> DEFINE key == [i \in 1 .. Len(list) |-> <<client[list[i]].ip, client[list[i]].mac>>]
<1>0. list \in Seq(Node) /\ Len(list) \in Nat /\ DOMAIN list = 1 .. Len(list)
  BY LenProperties DEF IInv, TypeOK
<1>1. \A n \in Listed : client[n].fw_connection_state \in {"PREAUTHENTICATED", "AUTHENTICATED"}
  <2>1. Listed \subseteq Node
    BY <1>0, ElementOfSeq DEF Listed
  <2> QED
    BY <2>1 DEF IInv, TypeOK, Client
<1>2. \A k \in Table!Present : \E i \in 1 .. Len(list) : key[i] = k
  <2> SUFFICES ASSUME NEW k \in Table!Present
               PROVE  \E i \in 1 .. Len(list) : key[i] = k
    OBVIOUS
  <2>1. k \in IP \X MAC /\ Sessions[k] # "absent"
    BY DEF Table!Present, Table!Key
  <2>2. PICK n \in Listed : k = <<client[n].ip, client[n].mac>>
    BY <2>1, SessionsOfList DEF SessionsMatch
  <2>3. PICK i \in 1 .. Len(list) : list[i] = n
    BY <1>0 DEF Listed
  <2> QED
    BY <2>2, <2>3
<1>3. \A i \in 1 .. Len(list) : key[i] \in Table!Present
  <2> SUFFICES ASSUME NEW i \in 1 .. Len(list)
               PROVE  key[i] \in Table!Present
    OBVIOUS
  <2>1. list[i] \in Listed
    BY <1>0 DEF Listed
  <2> DEFINE n == list[i]
  <2>2. /\ <<client[n].ip, client[n].mac>> \in IP \X MAC
        /\ Sessions[<<client[n].ip, client[n].mac>>] = client[n].fw_connection_state
    BY <2>1, SessionsOfList DEF SessionsMatch
  <2>3. client[n].fw_connection_state # "absent"
    BY <1>1, <2>1
  <2> QED
    BY <2>2, <2>3 DEF Table!Present, Table!Key
<1> HIDE DEF key
<1>4. key \in Surjection(1 .. Len(list), Table!Present)
  BY <1>2, <1>3 DEF Surjection, key
<1>5. IsFiniteSet(1 .. Len(list)) /\ Cardinality(1 .. Len(list)) = Len(list)
  BY <1>0, IntervalSizes
<1>6. IsFiniteSet(Table!Present) /\ Cardinality(Table!Present) <= Cardinality(1 .. Len(list))
  BY <1>4, <1>5, FS_Surjection
<1> QED
  BY <1>5, <1>6, FS_CardinalityType

\* ClientTable counts with the same operator.
LEMMA SameCardinality == \A S : Table!Cardinality(S) = Cardinality(S)
  BY Zenon DEF Table!Cardinality, Cardinality

\* Sessions is a function on all the pairs, before and after a step.
LEMMA SessionsExtensional ==
    /\ Sessions = [k \in IP \X MAC |-> Sessions[k]]
    /\ Sessions' = [k \in IP \X MAC |-> Sessions'[k]]
  BY DEF Sessions

\* Appending a node adds the session of its ip and mac, below the limit.
LEMMA AppendMapsToAdd ==
    ASSUME IInv, IInv', SessionsMatch, SessionsMatch',
           NEW ip \in IP, NEW mac \in MAC,
           \A n \in Listed : ~ (client[n].ip = ip /\ client[n].mac = mac),
           client_list_append(ip, mac)
    PROVE  Table!Next \/ UNCHANGED Sessions
<1>0. /\ list \in Seq(Node) /\ client_count \in 0 .. maxclients
      /\ client_count = Len(list) /\ maxclients \in Nat
      /\ Listed \subseteq Node
  BY MaxclientsAssumption, LenProperties, ElementOfSeq
     DEF IInv, TypeOK, CountMatchesList, Listed
<1>1. CASE ListFull
  BY <1>1 DEF client_list_append, clientVars, Sessions, Holders, Listed
<1>2. CASE ~ ListFull
  <2> DEFINE k == <<ip, mac>>
  <2>1. PICK n \in Node \ Listed :
          /\ client' = [client EXCEPT ![n] =
                 [ip |-> ip, mac |-> mac, idx |-> FreeSlot,
                  fw_connection_state |-> "PREAUTHENTICATED"]]
          /\ list' = Append(list, n)
    BY <1>2 DEF client_list_append
  <2>2. Listed' = Listed \cup {n}
    BY <1>0, <2>1, AppendEffect DEF IInv
  <2>3. /\ \A m \in Listed : client'[m] = client[m]
        /\ client'[n].ip = ip /\ client'[n].mac = mac
        /\ client'[n].fw_connection_state = "PREAUTHENTICATED"
    BY <1>0, <2>1 DEF IInv, TypeOK
  <2>4. Sessions[k] = "absent"
    BY DEF SessionsMatch
  <2>5. Sessions'[k] = "PREAUTHENTICATED"
    BY <2>2, <2>3 DEF SessionsMatch
  <2>6. ASSUME NEW j \in IP \X MAC, j # k
        PROVE  Sessions'[j] = Sessions[j]
    <3>1. CASE \E m \in Listed : j = <<client[m].ip, client[m].mac>>
      BY <3>1, <2>2, <2>3 DEF SessionsMatch
    <3>2. CASE \A m \in Listed : j # <<client[m].ip, client[m].mac>>
      <4>1. \A m \in Listed' : j # <<client'[m].ip, client'[m].mac>>
        BY <3>2, <2>2, <2>3, <2>6
      <4> QED
        BY <3>2, <4>1 DEF SessionsMatch
    <3> QED
      BY <3>1, <3>2
  <2>7. Sessions' = [Sessions EXCEPT ![k] = "PREAUTHENTICATED"]
    BY <2>5, <2>6, SessionsExtensional
  <2>8. Cardinality(Table!Present) < maxclients
    BY <1>0, <1>2, SessionsBounded DEF ListFull
  <2>9. k \in IP \X MAC /\ Table!Add(k)
    BY <2>4, <2>7, <2>8, SameCardinality DEF Table!Add
  <2> QED
    BY <2>9 DEF Table!Next, Table!Key
<1> QED
  BY <1>1, <1>2

\* Authenticating a node authenticates its session and no other.
LEMMA AuthenticateMapsToAuthenticate ==
    ASSUME IInv, IInv', SessionsMatch, SessionsMatch',
           NEW n \in Listed, client[n].fw_connection_state # "AUTHENTICATED",
           SetAuthenticated(n)
    PROVE  Table!Next
<1> DEFINE k == <<client[n].ip, client[n].mac>>
<1>0. Listed \subseteq Node
  BY LenProperties, ElementOfSeq DEF IInv, TypeOK, Listed
<1>1. /\ \A m : m \in Listed' <=> m \in Listed
      /\ client'[n].fw_connection_state = "AUTHENTICATED"
      /\ \A m \in Listed : client'[m].ip = client[m].ip /\ client'[m].mac = client[m].mac
      /\ \A m \in Listed : m # n => client'[m] = client[m]
  BY <1>0 DEF SetAuthenticated, Listed, IInv, TypeOK, Client
<1>2. k \in IP \X MAC /\ Sessions[k] = "PREAUTHENTICATED"
  BY <1>0 DEF SessionsMatch, IInv, TypeOK, Client
<1>3. Sessions'[k] = "AUTHENTICATED"
  <2>1. n \in Listed' /\ k = <<client'[n].ip, client'[n].mac>>
    BY <1>1
  <2>2. Sessions'[<<client'[n].ip, client'[n].mac>>] = client'[n].fw_connection_state
    BY <2>1 DEF SessionsMatch
  <2> QED
    BY <1>1, <2>1, <2>2
<1>4. ASSUME NEW j \in IP \X MAC, j # k
      PROVE  Sessions'[j] = Sessions[j]
  <2>1. CASE \E m \in Listed : j = <<client[m].ip, client[m].mac>>
    <3>1. PICK m \in Listed : j = <<client[m].ip, client[m].mac>>
      BY <2>1
    <3>2. m # n
      BY <1>4, <3>1
    <3>3. m \in Listed' /\ client'[m] = client[m]
      BY <1>1, <3>2
    <3>4. Sessions[j] = client[m].fw_connection_state
      BY <3>1 DEF SessionsMatch
    <3>5. Sessions'[<<client'[m].ip, client'[m].mac>>] = client'[m].fw_connection_state
      BY <3>3 DEF SessionsMatch
    <3> QED
      BY <3>1, <3>3, <3>4, <3>5
  <2>2. CASE \A m \in Listed : j # <<client[m].ip, client[m].mac>>
    <3>1. ASSUME NEW m \in Listed' PROVE j # <<client'[m].ip, client'[m].mac>>
      <4>1. m \in Listed /\ client'[m].ip = client[m].ip /\ client'[m].mac = client[m].mac
        BY <1>1
      <4> QED
        BY <2>2, <4>1
    <3>2. Sessions[j] = "absent"
      BY <2>2 DEF SessionsMatch
    <3>3. Sessions'[j] = "absent"
      BY <3>1 DEF SessionsMatch
    <3> QED
      BY <3>2, <3>3
  <2> QED
    BY <2>1, <2>2
<1>5. Sessions' = [Sessions EXCEPT ![k] = "AUTHENTICATED"]
  BY <1>3, <1>4, SessionsExtensional
<1> QED
  BY <1>2, <1>5 DEF Table!Next, Table!Authenticate, Table!Key

\* Deleting a node removes its session and no other.
LEMMA DeleteMapsToRemove ==
    ASSUME IInv, IInv', SessionsMatch, SessionsMatch',
           NEW n \in Listed, client_list_delete(n)
    PROVE  Table!Next
<1> DEFINE k == <<client[n].ip, client[n].mac>>
<1>0. list \in Seq(Node) /\ Listed \subseteq Node
  BY LenProperties, ElementOfSeq DEF IInv, TypeOK, Listed
<1>1. PICK i \in DOMAIN list : list[i] = n /\ list' = RemoveAt(list, i)
  BY DEF client_list_delete
<1>2. Listed' = Listed \ {n}
  BY <1>0, <1>1, RemoveEffect DEF IInv
<1>3. \A m \in Listed' : client'[m] = client[m]
  BY <1>0, <1>2 DEF client_list_delete, client_list_free_node, IInv, TypeOK
<1>4. k \in IP \X MAC /\ Sessions[k] # "absent"
  BY <1>0 DEF SessionsMatch, IInv, TypeOK, Client
<1>5. Sessions'[k] = "absent"
  <2>1. ASSUME NEW m \in Listed' PROVE k # <<client'[m].ip, client'[m].mac>>
    <3>1. m \in Listed /\ m # n /\ client'[m] = client[m]
      BY <1>2, <1>3
    <3>2. ~ (client[m].ip = client[n].ip /\ client[m].mac = client[n].mac)
      BY <3>1 DEF IInv, ClientsDistinct
    <3> QED
      BY <3>1, <3>2
  <2> QED
    BY <1>4, <2>1 DEF SessionsMatch
<1>6. ASSUME NEW j \in IP \X MAC, j # k
      PROVE  Sessions'[j] = Sessions[j]
  <2>1. CASE \E m \in Listed : j = <<client[m].ip, client[m].mac>>
    <3>1. PICK m \in Listed : j = <<client[m].ip, client[m].mac>>
      BY <2>1
    <3>2. m # n
      BY <1>6, <3>1
    <3>3. m \in Listed' /\ client'[m] = client[m]
      BY <1>2, <1>3, <3>2
    <3>4. Sessions[j] = client[m].fw_connection_state
      BY <3>1 DEF SessionsMatch
    <3>5. Sessions'[<<client'[m].ip, client'[m].mac>>] = client'[m].fw_connection_state
      BY <3>3 DEF SessionsMatch
    <3> QED
      BY <3>1, <3>3, <3>4, <3>5
  <2>2. CASE \A m \in Listed : j # <<client[m].ip, client[m].mac>>
    <3>1. \A m \in Listed' : j # <<client'[m].ip, client'[m].mac>>
      BY <2>2, <1>2, <1>3
    <3>2. Sessions[j] = "absent"
      BY <2>2 DEF SessionsMatch
    <3>3. Sessions'[j] = "absent"
      BY <3>1 DEF SessionsMatch
    <3> QED
      BY <3>2, <3>3
  <2> QED
    BY <2>1, <2>2
<1>7. Sessions' = [Sessions EXCEPT ![k] = "absent"]
  BY <1>5, <1>6, SessionsExtensional
<1> QED
  BY <1>4, <1>7 DEF Table!Next, Table!Remove, Table!Key

\* Every behaviour of the list is a behaviour of the table of sessions: a step
\* adds, authenticates or removes at most one session, and adds one only
\* below maxclients.
THEOREM Refinement == Spec => ImplementsTable
<1>1. Init => Table!Init
  BY DEF Init, client_list_init, Table!Init, Table!Key, Sessions, Holders, Listed
<1>2. /\ IInv /\ IInv' /\ SessionsMatch /\ SessionsMatch'
      /\ [Next]_clientVars
      => [Table!Next]_Sessions
  <2> SUFFICES ASSUME IInv, IInv', SessionsMatch, SessionsMatch', [Next]_clientVars
               PROVE  Table!Next \/ UNCHANGED Sessions
    OBVIOUS
  <2>1. CASE UNCHANGED clientVars
    BY <2>1 DEF clientVars, Sessions, Holders, Listed
  <2>2. CASE Next
    BY <2>1, <2>2, StepCases, AppendMapsToAdd, AuthenticateMapsToAuthenticate,
       DeleteMapsToRemove
  <2> QED
    BY <2>1, <2>2
<1>3. Spec => []SessionsMatch
  BY Invariance, SessionsOfList, PTL
<1> QED
  BY <1>1, <1>2, <1>3, Invariance, PTL DEF Spec, ImplementsTable, Table!Spec
============================================================================
