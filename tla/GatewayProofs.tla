--------------------------- MODULE GatewayProofs ---------------------------
(***************************************************************************)
(* Proofs about Gateway, for every number of threads, clients and          *)
(* addresses: who holds client_list_mutex, what the kernel's rules are at  *)
(* every moment of iptables_fw_access(), and that the critical sections,   *)
(* interleaved command by command, still implement the session table.      *)
(***************************************************************************)
EXTENDS Gateway, ClientListProofs

----------------------------------------------------------------------------
(* The inductive invariant. *)

\* Where the two kinds of threads can be.
HandlerPlace == {"idle", "add", "serve", "lookup", "verify", "search", "act", "fw", "reply"}
CheckerPlace == {"idle", "refresh", "scan", "fw"}

Places == /\ \A t \in Handler : pc[t] \in HandlerPlace
          /\ pc[Checker] \in CheckerPlace

\* A handler has the mutex exactly while it runs commands, the time-out thread
\* during a pass.
MutexHeld ==
    /\ \A t \in Handler : pc[t] = "fw" <=> client_list_mutex = t
    /\ pc[Checker] \in {"scan", "fw"} <=> client_list_mutex = Checker

Adding(t) == t # Checker /\ ~ Deauthenticating(t)
ActionOf(t) == IF Adding(t) THEN "-A" ELSE "-D"

\* The commands still to be run are the last ones of iptables_fw_access() for
\* the client that the holder of the mutex points to, which is listed and
\* authenticated as long as they run.
CommandsLeft ==
    /\ (\A t \in Thread : pc[t] # "fw") => todo = <<>>
    /\ \A t \in Thread : pc[t] = "fw" =>
          /\ ptr[t] \in Authenticated
          /\ Len(todo) <= 3
          /\ \A i \in 1 .. Len(todo) :
                todo[i] = [action |-> ActionOf(t),
                           rule |-> AccessRules(client[ptr[t]])[3 - Len(todo) + i]]
    /\ pc[Checker] = "scan" => ptr[Checker] \in Listed \cup {NULL}

\* The authenticated clients that a rule is for, and the rules of the client
\* being worked on that the kernel does not hold yet, or any more.
Uses(n, r) == \E i \in 1 .. 3 : AccessRules(client[n])[i] = r
Users(r) == {n \in Authenticated : Uses(n, r)}

Behind(t) == IF Adding(t) THEN 4 - Len(todo) .. 3 ELSE 1 .. 3 - Len(todo)
Missing(r) ==
    \E t \in Thread : /\ pc[t] = "fw"
                     /\ \E i \in Behind(t) : AccessRules(client[ptr[t]])[i] = r

Short(r) == IF Missing(r) THEN 1 ELSE 0

\* Each rule is in the kernel once for each of its users, but for those missing.
RulesExact == \A r \in Rule : rules[r] = Cardinality(Users(r)) - Short(r)

GIInv == /\ IInv
         /\ GTypeOK
         /\ Places
         /\ MutexHeld
         /\ CommandsLeft

----------------------------------------------------------------------------
(* Facts about the operators of Gateway. *)

\* A list element is a node; threads are told apart from NULL.
LEMMA Basics ==
    ASSUME IInv
    PROVE  /\ list \in Seq(Node) /\ Len(list) \in Nat /\ DOMAIN list = 1 .. Len(list)
           /\ Listed \subseteq Node /\ Authenticated \subseteq Listed
           /\ NULL \notin Listed
           /\ client \in [Node -> Client]
  BY LenProperties, ElementOfSeq, NullAssumption DEF IInv, TypeOK, Listed, Authenticated

\* iptables_fw_access() for a listed client is about three rules of its own,
\* which are different.
LEMMA AccessRulesAre ==
    ASSUME NEW c
    PROVE  /\ AccessRules(c)[1] = <<"ndsOUT", c.ip, c.mac, c.idx>>
           /\ AccessRules(c)[2] = <<"ndsINC MARK", c.ip, c.idx>>
           /\ AccessRules(c)[3] = <<"ndsINC ACCEPT", c.ip>>
  BY DEF AccessRules

LEMMA AccessRulesTyped ==
    ASSUME IInv, NEW n \in Listed
    PROVE  \A i \in 1 .. 3 : AccessRules(client[n])[i] \in Rule
<1> DEFINE c == client[n]
<1>1. c.ip \in IP /\ c.mac \in MAC /\ c.idx \in Slot
  BY DEF IInv, ListedHaveKeys, SlotsMatchList
<1> HIDE DEF c
<1>2. /\ <<"ndsOUT", c.ip, c.mac, c.idx>> \in Rule
      /\ <<"ndsINC MARK", c.ip, c.idx>> \in Rule
      /\ <<"ndsINC ACCEPT", c.ip>> \in Rule
  BY <1>1 DEF Rule
<1>3. \A i \in 1 .. 3 : i = 1 \/ i = 2 \/ i = 3
  OBVIOUS
<1> QED
  BY <1>2, <1>3, AccessRulesAre DEF c

LEMMA AccessRulesDiffer ==
    ASSUME NEW c, NEW i \in 1 .. 3, NEW j \in 1 .. 3, i # j
    PROVE  AccessRules(c)[i] # AccessRules(c)[j]
<1>1. \A x, y, z, u, v, w : /\ <<"ndsOUT", x, y, z>> # <<"ndsINC MARK", u, v>>
                           /\ <<"ndsOUT", x, y, z>> # <<"ndsINC ACCEPT", w>>
                           /\ <<"ndsINC MARK", u, v>> # <<"ndsINC ACCEPT", w>>
  OBVIOUS
<1> DEFINE r == AccessRules(c)
<1>2. /\ r[1] = <<"ndsOUT", c.ip, c.mac, c.idx>>
      /\ r[2] = <<"ndsINC MARK", c.ip, c.idx>>
      /\ r[3] = <<"ndsINC ACCEPT", c.ip>>
  BY AccessRulesAre
<1> HIDE DEF r
<1>3. r[1] # r[2] /\ r[1] # r[3] /\ r[2] # r[3]
  BY <1>1, <1>2
<1>4. r[i] # r[j]
  BY <1>3
<1> QED
  BY <1>4 DEF r

\* A function on 1 .. n is a sequence of length n.
LEMMA FunctionIsSeq ==
    ASSUME NEW S, NEW n \in Nat, NEW f \in [1 .. n -> S]
    PROVE  f \in Seq(S) /\ Len(f) = n
<1>1. f \in Seq(S)
  BY SeqDef
<1>2. DOMAIN f = 1 .. Len(f) /\ Len(f) \in Nat
  BY <1>1, LenProperties
<1>3. DOMAIN f = 1 .. n
  OBVIOUS
<1>4. \A k \in Nat : 1 .. k = 1 .. n => k = n
  OBVIOUS
<1> QED
  BY <1>1, <1>2, <1>3, <1>4

\* The three commands of iptables_fw_access().
LEMMA AccessCommandsTyped ==
    ASSUME IInv, NEW n \in Listed, NEW a \in {"-A", "-D"}
    PROVE  LET cmds == AccessCommands(a, client[n]) IN
           /\ cmds \in Seq([action : {"-A", "-D"}, rule : Rule])
           /\ Len(cmds) = 3
           /\ \A i \in 1 .. 3 : cmds[i] = [action |-> a, rule |-> AccessRules(client[n])[i]]
<1> DEFINE C == [action : {"-A", "-D"}, rule : Rule]
           cmds == AccessCommands(a, client[n])
<1>1. \A i \in 1 .. 3 : AccessRules(client[n])[i] \in Rule
  BY AccessRulesTyped
<1>2. \A i \in 1 .. 3 : [action |-> a, rule |-> AccessRules(client[n])[i]] \in C
  BY <1>1
<1>3. cmds \in [1 .. 3 -> C]
  BY <1>2 DEF AccessCommands
<1> HIDE DEF cmds, C
<1>4. cmds \in Seq(C) /\ Len(cmds) = 3
  BY <1>3, FunctionIsSeq, 3 \in Nat
<1> USE DEF cmds, C
<1> QED
  BY <1>4 DEF AccessCommands

\* client_list_find() returns a listed client or NULL; here as a formula, so that
\* it also holds after a step.
FindsListed ==
    \A ip, mac : client_list_find(ip, mac) \in Listed \cup {NULL}

LEMMA FindIsListed == IInv => FindsListed
  BY FindByKey DEF FindsListed, IInv, TypeOK

LEMMA FindIsListedAfter == IInv' => FindsListed'
  BY FindIsListed, PTL

\* cp1->next is another client of the list, or NULL.
LEMMA NextOfListed ==
    ASSUME IInv, NEW n \in Listed
    PROVE  NextOf(n) \in (Listed \ {n}) \cup {NULL}
<1> DEFINE i == CHOOSE i \in DOMAIN list : list[i] = n
<1>1. i \in DOMAIN list /\ list[i] = n
  BY DEF Listed
<1>2. DOMAIN list = 1 .. Len(list) /\ Len(list) \in Nat
  BY Basics
<1>3. NextOf(n) = IF i = Len(list) THEN NULL ELSE list[i + 1]
  BY DEF NextOf
<1> HIDE DEF i
<1>4. CASE i # Len(list)
  <2>1. i + 1 \in DOMAIN list /\ i + 1 # i
    BY <1>1, <1>2, <1>4
  <2>2. list[i + 1] \in Listed /\ list[i + 1] # n
    BY <1>1, <2>1 DEF Listed, IInv, ListInjective
  <2> QED
    BY <1>3, <1>4, <2>2
<1> QED
  BY <1>3, <1>4

\* The mutex is what it is meant to be: whoever runs commands has it, and when
\* it is free nobody does and no pass is going on.
LEMMA Holder ==
    ASSUME GIInv
    PROVE  /\ \A t \in Thread : pc[t] = "fw" => client_list_mutex = t
           /\ client_list_mutex = NULL =>
                 /\ \A t \in Thread : pc[t] # "fw"
                 /\ pc[Checker] # "scan"
                 /\ todo = <<>>
  BY ThreadAssumption DEF GIInv, MutexHeld, CommandsLeft, Thread

----------------------------------------------------------------------------
(* Every step of Gateway is a step of the list or leaves it alone. *)

ListStep ==
    \/ \E ip \in IP, mac \in MAC :
          /\ \A n \in Listed : ~ (client[n].ip = ip /\ client[n].mac = mac)
          /\ client_list_append(ip, mac)
    \/ \E n \in Listed : /\ client[n].fw_connection_state # "AUTHENTICATED"
                        /\ SetAuthenticated(n)
    \/ \E n \in Listed : client_list_delete(n)
    \/ UNCHANGED clientVars

\* client_list_add_client() looks the pair up before it appends.
LEMMA AddClientListStep ==
    ASSUME IInv, NEW ip, NEW mac \in MAC \cup {NULL}, client_list_add_client(ip, mac)
    PROVE  ListStep
<1>1. CASE ip \notin IP \/ mac = NULL \/ AlreadyListed(ip, mac)
  BY <1>1 DEF client_list_add_client, ListStep
<1>2. CASE ip \in IP /\ mac \in MAC /\ mac # NULL /\ ~ AlreadyListed(ip, mac)
  <2>1. client_list_append(ip, mac)
    BY <1>2 DEF client_list_add_client
  <2>2. \A n \in Listed : ~ (client[n].ip = ip /\ client[n].mac = mac)
    BY <1>2, Basics, FindByKey DEF AlreadyListed
  <2> QED
    BY <1>2, <2>1, <2>2 DEF ListStep
<1> QED
  BY <1>1, <1>2

LEMMA ActListStep ==
    ASSUME GIInv, NEW t \in Handler, Act(t)
    PROVE  ListStep
<1> DEFINE n == client_list_find(req[t].ip, req[t].mac)
<1>1. n \in Listed \cup {NULL}
  BY FindIsListed DEF GIInv, FindsListed
<1>2. /\ n = NULL => ActMissing(t)
      /\ n # NULL => ActDeauthenticate(t, n) \/ ActAuthenticate(t, n)
  BY DEF Act
<1> HIDE DEF n
<1>3. CASE n = NULL
  BY <1>2, <1>3 DEF ActMissing, ListStep
<1>4. CASE n # NULL /\ ActDeauthenticate(t, n)
  BY <1>1, <1>4 DEF ActDeauthenticate, Delete, ListStep
<1>5. CASE n # NULL /\ ActAuthenticate(t, n)
  BY <1>1, <1>5 DEF ActAuthenticate, ListStep
<1> QED
  BY <1>2, <1>3, <1>4, <1>5

LEMMA GStepCases ==
    ASSUME GIInv, [GNext]_vars
    PROVE  ListStep
<1>1. CASE \E t \in Handler : Accept(t) \/ Serve(t)
  <2>1. PICK t \in Handler : Accept(t) \/ Serve(t)
    BY <1>1
  <2>2. CASE AddClient(t)
    BY <2>2, AddClientListStep DEF AddClient, GIInv
  <2>3. CASE Act(t)
    BY <2>3, ActListStep
  <2>4. CASE FinishAct(t)
    <3>1. ptr[t] \in Listed
      BY <2>4, Basics DEF FinishAct, GIInv, CommandsLeft, Thread
    <3> QED
      BY <2>4, <3>1 DEF FinishAct, Delete, ListStep
  <2> QED
    BY <2>1, <2>2, <2>3, <2>4
       DEF Serve, Accept, ServeSplash, Lookup, Verify, Search, Reply, ListStep
<1>2. CASE \E t \in Thread : Command(t)
  BY <1>2 DEF Command, ListStep
<1>3. CASE Check
  <2>1. CASE TimeOutClient
    <3>1. ptr[Checker] \in Listed
      BY <2>1 DEF TimeOutClient, GIInv, CommandsLeft
    <3> QED
      BY <2>1, <3>1 DEF TimeOutClient, Delete, ListStep
  <2>2. CASE FinishTimeOut
    <3>1. ptr[Checker] \in Listed
      BY <2>2, Basics DEF FinishTimeOut, GIInv, CommandsLeft, Thread
    <3> QED
      BY <2>2, <3>1 DEF FinishTimeOut, Delete, ListStep
  <2> QED
    BY <1>3, <2>1, <2>2 DEF Check, Wake, StartPass, KeepClient, EndPass, ListStep
<1>4. CASE (\E n \in Node : Expire(n)) \/ UNCHANGED vars
  BY <1>4 DEF Expire, vars, clientVars, ListStep
<1> QED
  BY <1>1, <1>2, <1>3, <1>4 DEF GNext

LEMMA ListStepIInv ==
    ASSUME IInv, ListStep
    PROVE  IInv'
  BY AppendIInv, AuthenticateIInv, DeleteIInv, StepIInv DEF ListStep

----------------------------------------------------------------------------
(* The invariant holds after every step, handler by handler. *)

\* A handler that neither runs commands nor is about to disturbs nobody.
LEMMA LocalStep ==
    ASSUME GIInv, NEW t \in Handler, NEW l \in HandlerPlace \ {"fw"},
           pc[t] # "fw", Goto(t, l),
           UNCHANGED <<clientVars, client_list_mutex, todo>>,
           \A u \in Thread \ {t} : ptr'[u] = ptr[u],
           \A u \in Handler \ {t} : req'[u] = req[u]
    PROVE  Places' /\ MutexHeld' /\ CommandsLeft'
<1>1. pc \in [Thread -> HandlerPlace \cup CheckerPlace] /\ t \in Thread /\ t # Checker
  BY ThreadAssumption DEF GIInv, GTypeOK, Thread, HandlerPlace, CheckerPlace
<1>2. \A u \in Thread : pc'[u] = IF u = t THEN l ELSE pc[u]
  BY <1>1 DEF Goto
<1>3. Places'
  BY <1>1, <1>2 DEF GIInv, Places, Thread
<1>4. MutexHeld'
  BY <1>1, <1>2 DEF GIInv, MutexHeld, Thread
<1>5. \A u \in Thread : pc'[u] = "fw" => pc[u] = "fw" /\ u # t
  BY <1>2
<1>6. Listed' = Listed /\ Authenticated' = Authenticated /\ client' = client
  BY DEF clientVars, Listed, Authenticated
<1>7. \A u \in Thread : pc'[u] = "fw" => ActionOf(u)' = ActionOf(u)
  BY <1>5 DEF ActionOf, Adding, Deauthenticating, Thread
<1>8. CommandsLeft'
  <2>1. (\A u \in Thread : pc'[u] # "fw") => todo' = <<>>
    BY <1>2 DEF GIInv, CommandsLeft
  <2>2. ASSUME NEW u \in Thread, pc'[u] = "fw"
        PROVE  /\ ptr'[u] \in Authenticated'
               /\ Len(todo') <= 3
               /\ \A i \in 1 .. Len(todo') :
                     todo'[i] = [action |-> ActionOf(u)',
                                 rule |-> AccessRules(client'[ptr'[u]])[3 - Len(todo') + i]]
    <3>1. pc[u] = "fw" /\ ptr'[u] = ptr[u] /\ ActionOf(u)' = ActionOf(u)
      BY <1>5, <1>7, <2>2
    <3> QED
      BY <1>6, <3>1 DEF GIInv, CommandsLeft
  <2>3. pc'[Checker] = "scan" => ptr'[Checker] \in Listed' \cup {NULL}
    BY <1>1, <1>2, <1>6 DEF GIInv, CommandsLeft, Thread
  <2> QED
    BY <2>1, <2>2, <2>3 DEF CommandsLeft
<1> QED
  BY <1>3, <1>4, <1>8

\* A critical section that runs no command and is over within the step.
LEMMA QuietStep ==
    ASSUME GIInv, NEW t \in Handler, NEW l \in HandlerPlace \ {"fw"}, Goto(t, l),
           Within, UNCHANGED todo
    PROVE  Places' /\ MutexHeld' /\ CommandsLeft'
<1>1. pc \in [Thread -> HandlerPlace \cup CheckerPlace] /\ t \in Thread /\ t # Checker
  BY ThreadAssumption DEF GIInv, GTypeOK, Thread, HandlerPlace, CheckerPlace
<1>2. \A u \in Thread : pc'[u] = IF u = t THEN l ELSE pc[u]
  BY <1>1 DEF Goto
<1>3. Places'
  BY <1>1, <1>2 DEF GIInv, Places, Thread
<1>4. /\ client_list_mutex = NULL /\ client_list_mutex' = NULL
      /\ todo' = <<>>
      /\ \A u \in Thread : pc'[u] # "fw"
      /\ pc'[Checker] # "scan"
  BY <1>1, <1>2, Holder DEF Within, Thread
<1>5. MutexHeld'
  BY <1>4, ThreadAssumption DEF MutexHeld, Thread
<1>6. CommandsLeft'
  BY <1>4 DEF CommandsLeft
<1> QED
  BY <1>3, <1>5, <1>6

\* A thread that ends its request is idle again with nothing to remember.
LEMMA DoneTyped ==
    ASSUME GIInv, NEW t \in Handler, Done(t)
    PROVE  /\ Goto(t, "idle")
           /\ (pc \in [Thread -> HandlerPlace \cup CheckerPlace])'
           /\ (ptr \in [Thread -> Node \cup {NULL}])'
           /\ (req \in [Handler -> [kind : Kind \cup {NULL}, ip : IP \cup MAC \cup {NULL},
                                    mac : MAC \cup {NULL}]])'
           /\ \A u \in Thread \ {t} : ptr'[u] = ptr[u]
           /\ \A u \in Handler \ {t} : req'[u] = req[u]
  BY DEF GIInv, GTypeOK, Done, Goto, Point, NoRequest, Thread, HandlerPlace, CheckerPlace

LEMMA AcceptGIInv ==
    ASSUME GIInv, IInv', NEW t \in Handler, Accept(t)
    PROVE  GIInv'
<1>1. PICK kind \in Kind, arg \in IP \cup MAC :
         /\ req' = [req EXCEPT ![t] = [kind |-> kind, ip |-> arg, mac |-> NULL]]
         /\ Goto(t, Entry(kind))
  BY DEF Accept
<1>2. Entry(kind) \in HandlerPlace \ {"fw"}
  BY DEF Entry, HandlerPlace
<1>3. GTypeOK'
  BY <1>1, <1>2 DEF Accept, GIInv, GTypeOK, Goto, HandlerPlace, IInv, Thread
<1>4. pc[t] # "fw" /\ UNCHANGED <<clientVars, client_list_mutex, todo, ptr>>
  BY DEF Accept
<1>5. \A u \in Handler \ {t} : req'[u] = req[u]
  BY <1>1 DEF GIInv, GTypeOK
<1>6. Places' /\ MutexHeld' /\ CommandsLeft'
  BY <1>1, <1>2, <1>4, <1>5, LocalStep
<1> QED
  BY <1>3, <1>6 DEF GIInv

\* The steps that only end a request.
LEMMA EndGIInv ==
    ASSUME GIInv, IInv', NEW t \in Handler, pc[t] # "fw", Done(t),
           UNCHANGED <<clientVars, client_list_mutex, todo, rules, timedOut>>
    PROVE  GIInv'
<1>1. "idle" \in HandlerPlace \ {"fw"}
  BY DEF HandlerPlace
<1>2. Places' /\ MutexHeld' /\ CommandsLeft'
  BY <1>1, DoneTyped, LocalStep
<1>3. GTypeOK'
  BY DoneTyped DEF GIInv, GTypeOK, IInv, HandlerPlace, CheckerPlace
<1> QED
  BY <1>2, <1>3 DEF GIInv

\* The steps that go on to another place, remembering the client's address.
LEMMA GoOnGIInv ==
    ASSUME GIInv, IInv', NEW t \in Handler, pc[t] # "fw",
           NEW l \in HandlerPlace \ {"fw"}, Goto(t, l),
           (req \in [Handler -> [kind : Kind \cup {NULL}, ip : IP \cup MAC \cup {NULL},
                                 mac : MAC \cup {NULL}]])',
           \A u \in Handler \ {t} : req'[u] = req[u],
           UNCHANGED <<clientVars, client_list_mutex, ptr, todo, rules, timedOut>>
    PROVE  GIInv'
<1>1. Places' /\ MutexHeld' /\ CommandsLeft'
  BY LocalStep
<1>2. GTypeOK'
  BY DEF GIInv, GTypeOK, IInv, HandlerPlace, Goto
<1> QED
  BY <1>1, <1>2 DEF GIInv

LEMMA LookupGIInv ==
    ASSUME GIInv, IInv', NEW t \in Handler, Lookup(t)
    PROVE  GIInv'
<1>1. pc[t] # "fw" /\ UNCHANGED <<clientVars, client_list_mutex, todo, rules, timedOut>>
  BY DEF Lookup, Within
<1>2. CASE Done(t)
  BY <1>1, <1>2, EndGIInv
<1>3. CASE ~ Done(t)
  <2>1. PICK mac \in MAC : /\ req' = [req EXCEPT ![t].mac = mac]
                           /\ Goto(t, "verify")
                           /\ UNCHANGED ptr
    BY <1>3 DEF Lookup
  <2>2. /\ (req \in [Handler -> [kind : Kind \cup {NULL}, ip : IP \cup MAC \cup {NULL},
                                 mac : MAC \cup {NULL}]])'
        /\ \A u \in Handler \ {t} : req'[u] = req[u]
    BY <2>1 DEF GIInv, GTypeOK
  <2>3. "verify" \in HandlerPlace \ {"fw"}
    BY DEF HandlerPlace
  <2> QED
    BY <1>1, <2>1, <2>2, <2>3, GoOnGIInv
<1> QED
  BY <1>2, <1>3

LEMMA VerifyGIInv ==
    ASSUME GIInv, IInv', NEW t \in Handler, Verify(t)
    PROVE  GIInv'
<1>1. pc[t] # "fw" /\ UNCHANGED <<clientVars, client_list_mutex, todo, rules, timedOut>>
  BY DEF Verify
<1>2. CASE Done(t)
  BY <1>1, <1>2, EndGIInv
<1>3. CASE Goto(t, "act") /\ UNCHANGED <<req, ptr>>
  <2>1. "act" \in HandlerPlace \ {"fw"}
    BY DEF HandlerPlace
  <2>2. (req \in [Handler -> [kind : Kind \cup {NULL}, ip : IP \cup MAC \cup {NULL},
                              mac : MAC \cup {NULL}]])'
    BY <1>3 DEF GIInv, GTypeOK
  <2> QED
    BY <1>1, <1>3, <2>1, <2>2, GoOnGIInv
<1> QED
  BY <1>2, <1>3 DEF Verify

LEMMA SearchGIInv ==
    ASSUME GIInv, IInv', NEW t \in Handler, Search(t)
    PROVE  GIInv'
<1> DEFINE byIp == client_list_find_by_ip(req[t].ip)
           n == IF byIp # NULL THEN byIp ELSE client_list_find_by_mac(req[t].ip)
<1>1. pc[t] # "fw" /\ UNCHANGED <<clientVars, client_list_mutex, todo, rules, timedOut>>
  BY DEF Search, Within
<1>2. n \in Listed \cup {NULL}
  <2>1. \A M \in SUBSET Node : FirstMatch(M) \in Listed \cup {NULL}
    BY FirstMatchFinds DEF GIInv, IInv, TypeOK
  <2>2. byIp \in Listed \cup {NULL} /\ client_list_find_by_mac(req[t].ip) \in Listed \cup {NULL}
    BY <2>1 DEF client_list_find_by_ip, client_list_find_by_mac
  <2> QED
    BY <2>2
<1>3. IF n = NULL
      THEN Done(t)
      ELSE /\ req' = [req EXCEPT ![t].ip = client[n].ip, ![t].mac = client[n].mac]
           /\ Goto(t, "act")
           /\ UNCHANGED ptr
  BY DEF Search
<1> HIDE DEF n
<1>4. CASE n = NULL
  BY <1>1, <1>3, <1>4, EndGIInv
<1>5. CASE n # NULL
  <2>1. client[n].ip \in IP /\ client[n].mac \in MAC
    BY <1>2, <1>5 DEF GIInv, IInv, ListedHaveKeys
  <2>2. /\ (req \in [Handler -> [kind : Kind \cup {NULL}, ip : IP \cup MAC \cup {NULL},
                                 mac : MAC \cup {NULL}]])'
        /\ \A u \in Handler \ {t} : req'[u] = req[u]
    <3> DEFINE R == [kind : Kind \cup {NULL}, ip : IP \cup MAC \cup {NULL}, mac : MAC \cup {NULL}]
    <3>1. ASSUME NEW ip \in IP, NEW mac \in MAC,
                 req' = [req EXCEPT ![t].ip = ip, ![t].mac = mac]
          PROVE  req' \in [Handler -> R] /\ \A u \in Handler \ {t} : req'[u] = req[u]
      <4>1. req \in [Handler -> R]
        BY DEF GIInv, GTypeOK
      <4>2. req[t] \in R
        BY <4>1
      <4>3. [[req[t] EXCEPT !.ip = ip] EXCEPT !.mac = mac] \in R
        BY <4>2
      <4>4. req' = [req EXCEPT ![t] = [[req[t] EXCEPT !.ip = ip] EXCEPT !.mac = mac]]
        BY <3>1, <4>1
      <4> HIDE DEF R
      <4> QED
        BY <4>1, <4>3, <4>4
    <3> QED
      BY <1>3, <1>5, <2>1, <3>1
  <2>3. "act" \in HandlerPlace \ {"fw"}
    BY DEF HandlerPlace
  <2> QED
    BY <1>1, <1>3, <1>5, <2>2, <2>3, GoOnGIInv
<1> QED
  BY <1>4, <1>5

LEMMA AddClientGIInv ==
    ASSUME GIInv, IInv', NEW t \in Handler, AddClient(t)
    PROVE  GIInv'
<1> DEFINE R == [kind : Kind \cup {NULL}, ip : IP \cup MAC \cup {NULL}, mac : MAC \cup {NULL}]
<1>1. Within /\ UNCHANGED <<todo, rules, timedOut>>
  BY DEF AddClient
<1>2. \A ip, mac : client_list_find(ip, mac)' \in Node \cup {NULL}
  <2>1. FindsListed'
    BY FindIsListedAfter
  <2>2. (Listed \subseteq Node)'
    BY LenProperties, ElementOfSeq DEF IInv, TypeOK, Listed
  <2> QED
    BY <2>1, <2>2 DEF FindsListed
<1>3. PICK mac \in MAC \cup {NULL} :
         LET found == IF mac = NULL THEN NULL ELSE client_list_find(req[t].ip, mac)' IN
         \/ Done(t)
         \/ Goto(t, "serve") /\ Point(t, found) /\ UNCHANGED req
         \/ Goto(t, "lookup") /\ UNCHANGED <<req, ptr>>
         \/ Goto(t, "act") /\ req' = [req EXCEPT ![t].mac = mac] /\ UNCHANGED ptr
  BY DEF AddClient
<1>4. PICK l \in {"idle", "serve", "lookup", "act"} : Goto(t, l)
  BY <1>3 DEF Done
<1>5. l \in HandlerPlace \ {"fw"}
  BY DEF HandlerPlace
<1>6. Places' /\ MutexHeld' /\ CommandsLeft'
  BY <1>1, <1>4, <1>5, QuietStep
<1>7. req' \in [Handler -> R] /\ ptr' \in [Thread -> Node \cup {NULL}]
  <2>1. req \in [Handler -> R] /\ ptr \in [Thread -> Node \cup {NULL}] /\ t \in Thread
    BY DEF GIInv, GTypeOK, Thread
  <2>2. CASE Done(t)
    BY <2>2, DoneTyped
  <2>3. CASE Point(t, IF mac = NULL THEN NULL ELSE client_list_find(req[t].ip, mac)')
             /\ UNCHANGED req
    <3>1. PICK n \in Node \cup {NULL} : Point(t, n)
      BY <1>2, <2>3
    <3> QED
      BY <2>1, <2>3, <3>1 DEF Point
  <2>4. CASE req' = [req EXCEPT ![t].mac = mac] /\ UNCHANGED ptr
    BY <2>1, <2>4
  <2> QED
    BY <1>3, <2>1, <2>2, <2>3, <2>4
<1>8. GTypeOK'
  BY <1>1, <1>4, <1>5, <1>7 DEF GIInv, GTypeOK, IInv, HandlerPlace, Goto, Within
<1> QED
  BY <1>6, <1>8 DEF GIInv

\* A thread takes the mutex and has three commands to run for a client that is
\* authenticated by then.
LEMMA TakeStep ==
    ASSUME GIInv, NEW t \in Handler, Take(t), Goto(t, "fw"),
           NEW n \in Authenticated', Point(t, n), UNCHANGED req,
           Len(todo') = 3,
           \A i \in 1 .. 3 : todo'[i] = [action |-> ActionOf(t),
                                         rule |-> AccessRules(client'[n])[i]]
    PROVE  Places' /\ MutexHeld' /\ CommandsLeft'
<1>1. /\ pc \in [Thread -> HandlerPlace \cup CheckerPlace]
      /\ ptr \in [Thread -> Node \cup {NULL}]
      /\ t \in Thread /\ t # Checker
  BY ThreadAssumption DEF GIInv, GTypeOK, Thread, HandlerPlace, CheckerPlace
<1>2. \A u \in Thread : /\ pc'[u] = IF u = t THEN "fw" ELSE pc[u]
                        /\ u # t => pc[u] # "fw"
                        /\ ptr'[u] = IF u = t THEN n ELSE ptr[u]
  BY <1>1, Holder DEF Goto, Point, Take
<1>3. pc'[Checker] \notin {"scan", "fw"}
  BY <1>1, <1>2, Holder DEF Take, Thread
<1>4. Places'
  BY <1>1, <1>2 DEF GIInv, Places, Thread, HandlerPlace
<1>5. MutexHeld'
  BY <1>1, <1>2, <1>3 DEF MutexHeld, Thread, Take
<1>6. ActionOf(t)' = ActionOf(t)
  BY DEF ActionOf, Adding, Deauthenticating
<1>7. CommandsLeft'
  <2>1. ASSUME NEW u \in Thread, pc'[u] = "fw"
        PROVE  /\ ptr'[u] \in Authenticated'
               /\ Len(todo') <= 3
               /\ \A i \in 1 .. Len(todo') :
                     todo'[i] = [action |-> ActionOf(u)',
                                 rule |-> AccessRules(client'[ptr'[u]])[3 - Len(todo') + i]]
    <3>1. u = t /\ ptr'[u] = n
      BY <1>1, <1>2, <2>1
    <3>2. \A i \in 1 .. 3 : 3 - Len(todo') + i = i
      OBVIOUS
    <3> QED
      BY <1>6, <3>1, <3>2
  <2>2. pc'[t] = "fw"
    BY <1>1, <1>2
  <2> QED
    BY <1>1, <1>3, <2>1, <2>2 DEF CommandsLeft
<1> QED
  BY <1>4, <1>5, <1>7

LEMMA ActGIInv ==
    ASSUME GIInv, IInv', NEW t \in Handler, Act(t)
    PROVE  GIInv'
<1> DEFINE n == client_list_find(req[t].ip, req[t].mac)
           C == [action : {"-A", "-D"}, rule : Rule]
<1>1. n \in Listed \cup {NULL}
  BY FindIsListed DEF GIInv, FindsListed
<1>2. /\ Point(t, n) /\ UNCHANGED <<req, rules>>
      /\ n = NULL => ActMissing(t)
      /\ n # NULL => IF Deauthenticating(t) THEN ActDeauthenticate(t, n)
                                            ELSE ActAuthenticate(t, n)
  BY DEF Act
<1> HIDE DEF n
<1>3. /\ pc \in [Thread -> HandlerPlace \cup CheckerPlace]
      /\ ptr \in [Thread -> Node \cup {NULL}] /\ todo \in Seq(C) /\ timedOut \subseteq Node
      /\ n \in Node \cup {NULL} /\ t \in Thread /\ t # Checker
      /\ Listed \subseteq Node /\ client \in [Node -> Client]
  BY <1>1, Basics, ThreadAssumption DEF GIInv, GTypeOK, Thread, HandlerPlace, CheckerPlace
<1>4. ptr' \in [Thread -> Node \cup {NULL}]
  BY <1>2, <1>3 DEF Point
<1>5. ASSUME NEW l \in HandlerPlace \ {"fw"}, Goto(t, l), Within, UNCHANGED todo,
             timedOut' \subseteq Node
      PROVE  GIInv'
  <2>1. Places' /\ MutexHeld' /\ CommandsLeft'
    BY <1>5, QuietStep
  <2>2. GTypeOK'
    BY <1>2, <1>4, <1>5 DEF GIInv, GTypeOK, IInv, HandlerPlace, Goto, Within
  <2> QED
    BY <2>1, <2>2 DEF GIInv
<1>6. ASSUME NEW a \in {"-A", "-D"}, n # NULL, a = ActionOf(t), n \in Authenticated',
             Goto(t, "fw"), Take(t), UNCHANGED timedOut,
             todo' = AccessCommands(a, client[n]),
             \A i \in 1 .. 3 : AccessRules(client'[n])[i] = AccessRules(client[n])[i]
      PROVE  GIInv'
  <2>1. n \in Listed
    BY <1>1, <1>6
  <2>2. /\ todo' \in Seq(C) /\ Len(todo') = 3
        /\ \A i \in 1 .. 3 : todo'[i] = [action |-> a, rule |-> AccessRules(client[n])[i]]
    BY <1>6, <2>1, AccessCommandsTyped DEF GIInv
  <2>3. \A i \in 1 .. 3 : todo'[i] = [action |-> ActionOf(t), rule |-> AccessRules(client'[n])[i]]
    BY <1>6, <2>2
  <2>4. Places' /\ MutexHeld' /\ CommandsLeft'
    BY <1>2, <1>6, <2>2, <2>3, TakeStep
  <2>5. GTypeOK'
    BY <1>2, <1>3, <1>4, <1>6, <2>2 DEF GIInv, GTypeOK, IInv, Goto, Take
  <2> QED
    BY <2>4, <2>5 DEF GIInv
<1>7. "reply" \in HandlerPlace \ {"fw"}
  BY DEF HandlerPlace
<1>8. CASE n = NULL
  BY <1>2, <1>3, <1>5, <1>7, <1>8 DEF ActMissing
<1>9. CASE n # NULL /\ Deauthenticating(t)
  <2>1. CASE client[n].fw_connection_state = "AUTHENTICATED"
    <3>1. /\ Take(t) /\ todo' = AccessCommands("-D", client[n]) /\ Goto(t, "fw")
          /\ UNCHANGED <<clientVars, timedOut>>
      BY <1>2, <1>9, <2>1 DEF ActDeauthenticate
    <3>2. n \in Authenticated' /\ client' = client
      BY <1>1, <1>9, <2>1, <3>1 DEF Authenticated, Listed, clientVars
    <3>3. ActionOf(t) = "-D"
      BY <1>9 DEF ActionOf, Adding
    <3> QED
      BY <1>6, <1>9, <3>1, <3>2, <3>3
  <2>2. CASE client[n].fw_connection_state # "AUTHENTICATED"
    <3>1. Within /\ Delete(n) /\ Goto(t, "reply") /\ UNCHANGED todo
      BY <1>2, <1>9, <2>2 DEF ActDeauthenticate
    <3> QED
      BY <1>3, <1>5, <1>7, <3>1 DEF Delete
  <2> QED
    BY <2>1, <2>2
<1>10. CASE n # NULL /\ ~ Deauthenticating(t)
  <2>1. CASE client[n].fw_connection_state # "AUTHENTICATED"
    <3>1. /\ Take(t) /\ todo' = AccessCommands("-A", client[n]) /\ Goto(t, "fw")
          /\ SetAuthenticated(n) /\ UNCHANGED timedOut
      BY <1>2, <1>10, <2>1 DEF ActAuthenticate
    <3>2. /\ client'[n].fw_connection_state = "AUTHENTICATED"
          /\ client'[n].ip = client[n].ip /\ client'[n].mac = client[n].mac
          /\ client'[n].idx = client[n].idx
          /\ n \in Listed'
      BY <1>1, <1>3, <1>10, <3>1 DEF SetAuthenticated, Client, Listed
    <3>3. n \in Authenticated'
      BY <3>2 DEF Authenticated
    <3>4. AccessRules(client'[n]) = AccessRules(client[n])
      BY <3>2 DEF AccessRules
    <3>5. ActionOf(t) = "-A"
      BY <1>3, <1>10 DEF ActionOf, Adding
    <3> QED
      BY <1>6, <1>10, <3>1, <3>3, <3>4, <3>5
  <2>2. CASE client[n].fw_connection_state = "AUTHENTICATED"
    BY <1>2, <1>3, <1>5, <1>7, <1>10, <2>2 DEF ActAuthenticate
  <2> QED
    BY <2>1, <2>2
<1> QED
  BY <1>8, <1>9, <1>10

\* What the next command is about, and what is left after it.
LEMMA NextCommand ==
    ASSUME GIInv, NEW t \in Thread, pc[t] = "fw", todo # <<>>
    PROVE  LET k == 4 - Len(todo)
               r == AccessRules(client[ptr[t]])
           IN /\ k \in 1 .. 3 /\ Len(todo) \in 1 .. 3
              /\ ptr[t] \in Authenticated
              /\ Head(todo) = [action |-> ActionOf(t), rule |-> r[k]]
              /\ r[k] \in Rule
              /\ Tail(todo) \in Seq([action : {"-A", "-D"}, rule : Rule])
              /\ Len(Tail(todo)) = Len(todo) - 1
              /\ \A i \in 1 .. Len(todo) - 1 :
                    Tail(todo)[i] = [action |-> ActionOf(t), rule |-> r[k + i]]
<1> DEFINE C == [action : {"-A", "-D"}, rule : Rule]
<1>1. todo \in Seq(C)
  BY DEF GIInv, GTypeOK
<1>2. /\ ptr[t] \in Authenticated /\ Len(todo) <= 3
      /\ \A i \in 1 .. Len(todo) :
            todo[i] = [action |-> ActionOf(t),
                       rule |-> AccessRules(client[ptr[t]])[3 - Len(todo) + i]]
  BY DEF GIInv, CommandsLeft
<1> HIDE DEF C
<1>3. /\ Len(todo) \in Nat \ {0} /\ Tail(todo) \in Seq(C)
      /\ Len(Tail(todo)) = Len(todo) - 1
      /\ \A i \in 1 .. Len(Tail(todo)) : Tail(todo)[i] = todo[i + 1]
  BY <1>1, EmptySeq, HeadTailProperties
<1>4. Head(todo) = todo[1]
  BY <1>1, <1>3
<1>5. Len(todo) \in 1 .. 3 /\ 4 - Len(todo) \in 1 .. 3 /\ 3 - Len(todo) + 1 = 4 - Len(todo)
  BY <1>2, <1>3
<1>6. AccessRules(client[ptr[t]])[4 - Len(todo)] \in Rule
  BY <1>2, <1>5, AccessRulesTyped, Basics DEF GIInv
<1>7. Head(todo) = [action |-> ActionOf(t), rule |-> AccessRules(client[ptr[t]])[4 - Len(todo)]]
  <2>1. todo[1] = [action |-> ActionOf(t),
                   rule |-> AccessRules(client[ptr[t]])[3 - Len(todo) + 1]]
    BY <1>2, <1>5, 1 \in 1 .. Len(todo), Zenon
  <2> QED
    BY <1>4, <1>5, <2>1, Zenon
<1>8. ASSUME NEW i \in 1 .. Len(todo) - 1
      PROVE  Tail(todo)[i] = [action |-> ActionOf(t),
                              rule |-> AccessRules(client[ptr[t]])[4 - Len(todo) + i]]
  <2>1. i + 1 \in 1 .. Len(todo) /\ 3 - Len(todo) + (i + 1) = 4 - Len(todo) + i
    BY <1>5
  <2> QED
    BY <1>2, <1>3, <2>1
<1> QED
  BY <1>2, <1>3, <1>5, <1>6, <1>7, <1>8 DEF C

LEMMA CommandGIInv ==
    ASSUME GIInv, IInv', NEW t \in Thread, Command(t)
    PROVE  GIInv'
<1>1. /\ pc[t] = "fw" /\ todo # <<>> /\ todo' = Tail(todo)
      /\ UNCHANGED <<clientVars, client_list_mutex, pc, req, ptr, timedOut>>
  BY DEF Command
<1>2. Places' /\ MutexHeld'
  BY <1>1 DEF GIInv, Places, MutexHeld
<1>3. CommandsLeft'
  <2>1. ASSUME NEW u \in Thread, pc'[u] = "fw"
        PROVE  /\ ptr'[u] \in Authenticated'
               /\ Len(todo') <= 3
               /\ \A i \in 1 .. Len(todo') :
                     todo'[i] = [action |-> ActionOf(u)',
                                 rule |-> AccessRules(client'[ptr'[u]])[3 - Len(todo') + i]]
    <3>1. u = t
      BY <1>1, <2>1, Holder
    <3>2. Authenticated' = Authenticated /\ ActionOf(t)' = ActionOf(t)
          /\ ptr' = ptr /\ client' = client
      BY <1>1 DEF Authenticated, Listed, clientVars, ActionOf, Adding, Deauthenticating
    <3>3. /\ Len(todo) \in 1 .. 3 /\ ptr[t] \in Authenticated
          /\ Len(todo') = Len(todo) - 1
          /\ \A i \in 1 .. Len(todo) - 1 :
                todo'[i] = [action |-> ActionOf(t),
                            rule |-> AccessRules(client[ptr[t]])[4 - Len(todo) + i]]
      BY <1>1, NextCommand
    <3>4. \A i \in 1 .. Len(todo') : 3 - Len(todo') + i = 4 - Len(todo) + i
      BY <3>3
    <3>5. ASSUME NEW i \in 1 .. Len(todo')
          PROVE  todo'[i] = [action |-> ActionOf(u)',
                             rule |-> AccessRules(client'[ptr'[u]])[3 - Len(todo') + i]]
      <4>1. i \in 1 .. Len(todo) - 1
        BY <3>3
      <4> QED
        BY <3>1, <3>2, <3>3, <3>4, <4>1, Zenon
    <3>6. ptr'[u] \in Authenticated'
      BY <3>1, <3>2, <3>3, Zenon
    <3>7. Len(todo') <= 3
      BY <3>3
    <3> QED
      BY <3>5, <3>6, <3>7
  <2>2. pc'[Checker] = "scan" => ptr'[Checker] \in Listed' \cup {NULL}
    BY <1>1 DEF GIInv, CommandsLeft, Listed, clientVars
  <2> QED
    BY <1>1, <2>1, <2>2 DEF CommandsLeft
<1>4. rules' \in [Rule -> 0 .. MaxCopies]
  <2>1. rules \in [Rule -> 0 .. MaxCopies] /\ MaxCopies \in Nat
    BY FailAssumption DEF GIInv, GTypeOK
  <2>2. Head(todo).rule \in Rule
    BY <1>1, NextCommand
  <2>3. CASE /\ Head(todo).action = "-A" => rules[Head(todo).rule] < MaxCopies
             /\ rules' = Applied(Head(todo))
    BY <2>1, <2>2, <2>3 DEF Applied
  <2> QED
    BY <2>1, <2>3 DEF Command
<1>5. todo' \in Seq([action : {"-A", "-D"}, rule : Rule])
  BY <1>1, NextCommand
<1>6. GTypeOK'
  BY <1>1, <1>4, <1>5 DEF GIInv, GTypeOK, IInv
<1> QED
  BY <1>2, <1>3, <1>6 DEF GIInv

LEMMA FinishActGIInv ==
    ASSUME GIInv, IInv', NEW t \in Handler, FinishAct(t)
    PROVE  GIInv'
<1>1. /\ pc[t] = "fw" /\ todo = <<>> /\ Release(t) /\ Goto(t, "reply")
      /\ UNCHANGED <<req, ptr, todo, rules>>
      /\ timedOut' \subseteq timedOut
  BY DEF FinishAct, Delete
<1>2. pc \in [Thread -> HandlerPlace \cup CheckerPlace] /\ t \in Thread /\ t # Checker
  BY ThreadAssumption DEF GIInv, GTypeOK, Thread, HandlerPlace, CheckerPlace
<1>3. \A u \in Thread : /\ pc'[u] = IF u = t THEN "reply" ELSE pc[u]
                        /\ u # t => pc[u] # "fw"
  BY <1>1, <1>2, Holder DEF Goto
<1>4. pc'[Checker] \notin {"scan", "fw"}
  BY <1>1, <1>2, <1>3 DEF GIInv, MutexHeld, Release, Thread
<1>5. Places'
  BY <1>2, <1>3 DEF GIInv, Places, Thread, HandlerPlace
<1>6. MutexHeld' /\ CommandsLeft'
  BY <1>1, <1>3, <1>4, ThreadAssumption DEF MutexHeld, CommandsLeft, Release, Thread
<1>7. GTypeOK'
  BY <1>1, <1>2 DEF GIInv, GTypeOK, IInv, Goto, Release
<1> QED
  BY <1>5, <1>6, <1>7 DEF GIInv

----------------------------------------------------------------------------
(* The pass of the time-out thread. *)

\* client_list_delete() unlinks the client and leaves the others as they are.
LEMMA DeleteEffect ==
    ASSUME IInv, NEW n \in Listed, client_list_delete(n)
    PROVE  /\ Listed' = Listed \ {n}
           /\ \A m \in Listed' : client'[m] = client[m]
<1>1. list \in Seq(Node) /\ n \in Node /\ Listed \subseteq Node
  BY Basics
<1>2. PICK i \in DOMAIN list : list[i] = n /\ list' = RemoveAt(list, i)
  BY DEF client_list_delete
<1>3. Listed' = Listed \ {n}
  BY <1>1, <1>2, RemoveEffect DEF IInv
<1>4. \A m \in Listed' : client'[m] = client[m]
  BY <1>1, <1>3 DEF client_list_delete, client_list_free_node, IInv, TypeOK
<1> QED
  BY <1>3, <1>4

\* A step of the pass between two commands: the mutex stays with the time-out
\* thread, which looks at the next client that is still listed.
LEMMA ScanStep ==
    ASSUME GIInv, client_list_mutex' = Checker, Goto(Checker, "scan"), todo' = <<>>,
           \A t \in Handler : pc[t] # "fw",
           NEW m \in Listed' \cup {NULL}, Point(Checker, m)
    PROVE  Places' /\ MutexHeld' /\ CommandsLeft'
<1>1. /\ pc \in [Thread -> HandlerPlace \cup CheckerPlace]
      /\ ptr \in [Thread -> Node \cup {NULL}]
      /\ Checker \in Thread /\ Checker \notin Handler
  BY ThreadAssumption DEF GIInv, GTypeOK, Thread, HandlerPlace, CheckerPlace
<1>2. /\ \A u \in Thread : pc'[u] = IF u = Checker THEN "scan" ELSE pc[u]
      /\ ptr'[Checker] = m
  BY <1>1 DEF Goto, Point
<1>3. Places'
  BY <1>1, <1>2 DEF GIInv, Places, Thread, CheckerPlace
<1>4. MutexHeld'
  BY <1>1, <1>2 DEF MutexHeld, Thread
<1>5. \A u \in Thread : pc'[u] # "fw"
  BY <1>1, <1>2 DEF Thread
<1>6. CommandsLeft'
  BY <1>2, <1>5 DEF CommandsLeft
<1> QED
  BY <1>3, <1>4, <1>6

LEMMA WakeGIInv ==
    ASSUME GIInv, IInv', Wake
    PROVE  GIInv'
<1>1. /\ pc \in [Thread -> HandlerPlace \cup CheckerPlace]
      /\ Checker \in Thread /\ Checker \notin Handler
  BY ThreadAssumption DEF GIInv, GTypeOK, Thread, HandlerPlace, CheckerPlace
<1>2. /\ pc[Checker] = "idle"
      /\ \A u \in Thread : pc'[u] = IF u = Checker THEN "refresh" ELSE pc[u]
      /\ UNCHANGED <<clientVars, client_list_mutex, req, ptr, todo, rules, timedOut>>
  BY <1>1 DEF Wake, Goto
<1>3. Places' /\ MutexHeld'
  BY <1>1, <1>2 DEF GIInv, Places, MutexHeld, Thread, CheckerPlace
<1>4. /\ Authenticated' = Authenticated /\ client' = client
      /\ \A u \in Thread : ActionOf(u)' = ActionOf(u)
  BY <1>2 DEF clientVars, Listed, Authenticated, ActionOf, Adding, Deauthenticating
<1>5. CommandsLeft'
  BY <1>1, <1>2, <1>4 DEF GIInv, CommandsLeft, Thread
<1>6. GTypeOK'
  BY <1>2 DEF Wake, Goto, GIInv, GTypeOK, IInv
<1> QED
  BY <1>3, <1>5, <1>6 DEF GIInv

LEMMA StartPassGIInv ==
    ASSUME GIInv, IInv', StartPass
    PROVE  GIInv'
<1> DEFINE m == IF list = <<>> THEN NULL ELSE list[1]
<1>1. /\ Take(Checker) /\ Point(Checker, m) /\ Goto(Checker, "scan")
      /\ UNCHANGED <<clientVars, req, todo, rules, timedOut>>
  BY DEF StartPass
<1>2. m \in Listed \cup {NULL} /\ Listed \subseteq Node
  <2>1. list # <<>> => 1 \in DOMAIN list
    BY Basics, EmptySeq DEF GIInv
  <2> QED
    BY <2>1, Basics DEF Listed, GIInv
<1> HIDE DEF m
<1>3. Listed' = Listed
  BY <1>1 DEF Listed, clientVars
<1>4. /\ client_list_mutex' = Checker /\ todo' = <<>>
      /\ \A t \in Handler : pc[t] # "fw"
  BY <1>1, Holder DEF Take, Thread
<1>5. Places' /\ MutexHeld' /\ CommandsLeft'
  BY <1>1, <1>2, <1>3, <1>4, ScanStep
<1>6. GTypeOK'
  BY <1>1, <1>2, <1>4 DEF GIInv, GTypeOK, IInv, Goto, Point, Thread
<1> QED
  BY <1>5, <1>6 DEF GIInv

\* During a pass no handler runs commands, and outside "fw" none are left.
LEMMA InPass ==
    ASSUME GIInv, pc[Checker] \in {"scan", "fw"}
    PROVE  /\ client_list_mutex = Checker
           /\ \A t \in Handler : pc[t] # "fw"
           /\ pc[Checker] = "scan" => todo = <<>> /\ ptr[Checker] \in Listed \cup {NULL}
           /\ pc[Checker] = "fw" => ptr[Checker] \in Authenticated
<1>1. client_list_mutex = Checker /\ \A t \in Handler : pc[t] # "fw"
  BY ThreadAssumption DEF GIInv, MutexHeld
<1> QED
  BY <1>1 DEF GIInv, CommandsLeft, Thread

LEMMA KeepClientGIInv ==
    ASSUME GIInv, IInv', KeepClient
    PROVE  GIInv'
<1> DEFINE m == NextOf(ptr[Checker])
<1>1. /\ pc[Checker] = "scan" /\ ptr[Checker] \in Listed
      /\ Point(Checker, m) /\ UNCHANGED <<clientVars, client_list_mutex, pc, req, todo,
                                          rules, timedOut>>
  BY InPass DEF KeepClient
<1>2. m \in Listed \cup {NULL} /\ Listed \subseteq Node
  BY <1>1, NextOfListed, Basics DEF GIInv
<1> HIDE DEF m
<1>3. Listed' = Listed /\ Goto(Checker, "scan")
  BY <1>1 DEF Listed, clientVars, Goto, GIInv, GTypeOK
<1>4. Places' /\ MutexHeld' /\ CommandsLeft'
  BY <1>1, <1>2, <1>3, InPass, ScanStep
<1>5. GTypeOK'
  BY <1>1, <1>2 DEF GIInv, GTypeOK, IInv, Point, Thread
<1> QED
  BY <1>4, <1>5 DEF GIInv

LEMMA TimeOutClientGIInv ==
    ASSUME GIInv, IInv', TimeOutClient
    PROVE  GIInv'
<1> DEFINE n == ptr[Checker]
           C == [action : {"-A", "-D"}, rule : Rule]
<1>1. /\ pc[Checker] = "scan" /\ n \in Listed
      /\ UNCHANGED <<client_list_mutex, req, rules>>
  BY InPass DEF TimeOutClient
<1>2. /\ client_list_mutex = Checker /\ todo = <<>>
      /\ \A t \in Handler : pc[t] # "fw"
      /\ Listed \subseteq Node
  BY <1>1, InPass, Basics DEF GIInv
<1>3. /\ pc \in [Thread -> HandlerPlace \cup CheckerPlace]
      /\ ptr \in [Thread -> Node \cup {NULL}]
      /\ Checker \in Thread /\ Checker \notin Handler
  BY ThreadAssumption DEF GIInv, GTypeOK, Thread, HandlerPlace, CheckerPlace
<1>4. CASE client[n].fw_connection_state = "AUTHENTICATED"
  <2>1. /\ todo' = AccessCommands("-D", client[n]) /\ Goto(Checker, "fw")
        /\ UNCHANGED <<clientVars, ptr, timedOut>>
    BY <1>4 DEF TimeOutClient
  <2>2. /\ todo' \in Seq(C) /\ Len(todo') = 3
        /\ \A i \in 1 .. 3 : todo'[i] = [action |-> "-D", rule |-> AccessRules(client[n])[i]]
    BY <1>1, <2>1, AccessCommandsTyped DEF GIInv
  <2>3. \A u \in Thread : pc'[u] = IF u = Checker THEN "fw" ELSE pc[u]
    BY <1>3, <2>1 DEF Goto
  <2>4. Places' /\ MutexHeld'
    BY <1>1, <1>2, <1>3, <2>3 DEF GIInv, Places, MutexHeld, Thread, CheckerPlace
  <2>5. n \in Authenticated' /\ client' = client /\ ptr' = ptr /\ ActionOf(Checker)' = "-D"
    BY <1>1, <1>4, <2>1 DEF Authenticated, Listed, clientVars, ActionOf, Adding
  <2>6. \A u \in Thread : pc'[u] = "fw" => u = Checker
    BY <1>2, <2>3 DEF Thread
  <2>7. \A i \in 1 .. Len(todo') :
            todo'[i] = [action |-> ActionOf(Checker)',
                        rule |-> AccessRules(client'[ptr'[Checker]])[3 - Len(todo') + i]]
    <3>1. \A i \in 1 .. 3 : 3 - Len(todo') + i = i
      BY <2>2
    <3> QED
      BY <2>2, <2>5, <3>1
  <2>8. CommandsLeft'
    BY <1>3, <2>2, <2>3, <2>5, <2>6, <2>7 DEF CommandsLeft
  <2>9. GTypeOK'
    BY <1>1, <2>1, <2>2 DEF GIInv, GTypeOK, IInv, Goto
  <2> QED
    BY <2>4, <2>8, <2>9 DEF GIInv
<1>5. CASE client[n].fw_connection_state # "AUTHENTICATED"
  <2>1. Delete(n) /\ Point(Checker, NextOf(n)) /\ UNCHANGED <<pc, todo>>
    BY <1>5 DEF TimeOutClient
  <2>2. NextOf(n) \in Listed' \cup {NULL} /\ NextOf(n) \in Node \cup {NULL}
    BY <1>1, <1>2, <2>1, NextOfListed, DeleteEffect DEF Delete, GIInv
  <2>3. Goto(Checker, "scan")
    BY <1>1, <1>3, <2>1 DEF Goto
  <2>4. Places' /\ MutexHeld' /\ CommandsLeft'
    BY <1>1, <1>2, <2>1, <2>2, <2>3, ScanStep
  <2>5. GTypeOK'
    BY <1>1, <1>3, <2>1, <2>2 DEF GIInv, GTypeOK, IInv, Point, Delete
  <2> QED
    BY <2>4, <2>5 DEF GIInv
<1> QED
  BY <1>4, <1>5

LEMMA FinishTimeOutGIInv ==
    ASSUME GIInv, IInv', FinishTimeOut
    PROVE  GIInv'
<1> DEFINE n == ptr[Checker]
<1>1. /\ pc[Checker] = "fw" /\ todo = <<>> /\ n \in Listed
      /\ Delete(n) /\ Point(Checker, NextOf(n)) /\ Goto(Checker, "scan")
      /\ UNCHANGED <<client_list_mutex, req, todo, rules>>
  BY InPass, Basics DEF FinishTimeOut, GIInv
<1>2. /\ client_list_mutex = Checker /\ Listed \subseteq Node
      /\ \A t \in Handler : pc[t] # "fw"
  BY <1>1, InPass, Basics DEF GIInv
<1>3. NextOf(n) \in Listed' \cup {NULL} /\ NextOf(n) \in Node \cup {NULL}
  BY <1>1, <1>2, NextOfListed, DeleteEffect DEF Delete, GIInv
<1>4. Places' /\ MutexHeld' /\ CommandsLeft'
  BY <1>1, <1>2, <1>3, ScanStep
<1>5. GTypeOK'
  BY <1>1, <1>3 DEF GIInv, GTypeOK, IInv, Point, Goto, Delete, Thread
<1> QED
  BY <1>4, <1>5 DEF GIInv

LEMMA EndPassGIInv ==
    ASSUME GIInv, IInv', EndPass
    PROVE  GIInv'
<1>1. /\ pc \in [Thread -> HandlerPlace \cup CheckerPlace]
      /\ Checker \in Thread /\ Checker \notin Handler
  BY ThreadAssumption DEF GIInv, GTypeOK, Thread, HandlerPlace, CheckerPlace
<1>2. /\ pc[Checker] = "scan" /\ client_list_mutex' = NULL
      /\ \A u \in Thread : pc'[u] = IF u = Checker THEN "idle" ELSE pc[u]
      /\ UNCHANGED <<clientVars, req, ptr, todo, rules, timedOut>>
  BY <1>1 DEF EndPass, Goto, Release
<1>3. todo' = <<>> /\ \A u \in Thread : pc'[u] # "fw"
  BY <1>2, InPass DEF Thread
<1>4. Places' /\ MutexHeld'
  BY <1>1, <1>2, <1>3, ThreadAssumption DEF GIInv, Places, MutexHeld, Thread, CheckerPlace
<1>5. CommandsLeft'
  BY <1>1, <1>2, <1>3 DEF CommandsLeft
<1>6. GTypeOK'
  BY <1>2 DEF EndPass, Goto, GIInv, GTypeOK, IInv
<1> QED
  BY <1>4, <1>5, <1>6 DEF GIInv

----------------------------------------------------------------------------
(* The invariant, whether commands may fail or not. *)

LEMMA InitGIInv == GInit => GIInv
<1> SUFFICES ASSUME GInit PROVE GIInv
  OBVIOUS
<1>1. IInv
  BY InitIInv DEF GInit, Init
<1>2. GTypeOK
  BY <1>1, FailAssumption DEF IInv, GInit, GTypeOK, NoRequest
<1>3. Places /\ MutexHeld /\ CommandsLeft
  BY ThreadAssumption
     DEF GInit, Places, MutexHeld, CommandsLeft, Thread, HandlerPlace, CheckerPlace
<1> QED
  BY <1>1, <1>2, <1>3 DEF GIInv

LEMMA IdleGIInv ==
    ASSUME GIInv, IInv', (\E n \in Node : Expire(n)) \/ UNCHANGED vars
    PROVE  GIInv'
<1>1. /\ UNCHANGED <<clientVars, client_list_mutex, pc, req, ptr, todo, rules>>
      /\ timedOut' \subseteq timedOut \cup Node
  BY DEF Expire, vars, clientVars
<1>2. Places' /\ MutexHeld'
  BY <1>1 DEF GIInv, Places, MutexHeld
<1>3. /\ Authenticated' = Authenticated /\ client' = client
      /\ \A u \in Thread : ActionOf(u)' = ActionOf(u)
  BY <1>1 DEF clientVars, Listed, Authenticated, ActionOf, Adding, Deauthenticating
<1>4. CommandsLeft'
  BY <1>1, <1>3 DEF GIInv, CommandsLeft, Listed, clientVars
<1>5. GTypeOK'
  BY <1>1 DEF GIInv, GTypeOK, IInv
<1> QED
  BY <1>2, <1>4, <1>5 DEF GIInv

LEMMA StepGIInv == GIInv /\ [GNext]_vars => GIInv'
<1> SUFFICES ASSUME GIInv, [GNext]_vars
             PROVE  GIInv'
  OBVIOUS
<1>1. IInv'
  BY GStepCases, ListStepIInv DEF GIInv
<1>2. CASE \E t \in Handler : Accept(t) \/ Serve(t)
  <2>1. PICK t \in Handler : Accept(t) \/ Serve(t)
    BY <1>2
  <2>2. CASE Accept(t)
    BY <1>1, <2>2, AcceptGIInv
  <2>3. CASE AddClient(t)
    BY <1>1, <2>3, AddClientGIInv
  <2>4. CASE ServeSplash(t)
    BY <1>1, <2>4, EndGIInv DEF ServeSplash
  <2>5. CASE Lookup(t)
    BY <1>1, <2>5, LookupGIInv
  <2>6. CASE Verify(t)
    BY <1>1, <2>6, VerifyGIInv
  <2>7. CASE Search(t)
    BY <1>1, <2>7, SearchGIInv
  <2>8. CASE Act(t)
    BY <1>1, <2>8, ActGIInv
  <2>9. CASE FinishAct(t)
    BY <1>1, <2>9, FinishActGIInv
  <2>10. CASE Reply(t)
    BY <1>1, <2>10, EndGIInv DEF Reply
  <2> QED
    BY <2>1, <2>2, <2>3, <2>4, <2>5, <2>6, <2>7, <2>8, <2>9, <2>10 DEF Serve
<1>3. CASE \E t \in Thread : Command(t)
  BY <1>1, <1>3, CommandGIInv
<1>4. CASE Check
  BY <1>1, <1>4, WakeGIInv, StartPassGIInv, KeepClientGIInv, TimeOutClientGIInv,
     FinishTimeOutGIInv, EndPassGIInv DEF Check
<1>5. CASE (\E n \in Node : Expire(n)) \/ UNCHANGED vars
  BY <1>1, <1>5, IdleGIInv
<1> QED
  BY <1>2, <1>3, <1>4, <1>5 DEF GNext

\* Whatever the threads do in whatever order, the list is sound, whoever runs
\* commands holds client_list_mutex, and the client they are about stays listed
\* and authenticated until the last of them.
THEOREM GatewayInvariance == GSpec => []GIInv
  BY InitGIInv, StepGIInv, PTL DEF GSpec

\* The structures the threads share, and what each keeps between two critical
\* sections, have their types.
THEOREM GatewayTypes == GSpec => []GTypeOK
<1>1. GIInv => GTypeOK
  BY DEF GIInv
<1> QED
  BY <1>1, GatewayInvariance, PTL

\* At most one thread is between pthread_mutex_lock() and
\* pthread_mutex_unlock() of client_list_mutex.
OneInside ==
    \A t, u \in Thread :
        pc[t] \in {"fw", "scan"} /\ pc[u] \in {"fw", "scan"} => t = u

\* The early returns of auth_client_action() and the pass of the time-out
\* thread keep the critical sections apart.
THEOREM MutualExclusion == GSpec => []OneInside
<1>1. GIInv => OneInside
  BY DEF GIInv, MutexHeld, Places, HandlerPlace, Thread, OneInside
<1> QED
  BY <1>1, GatewayInvariance, PTL

\* The critical sections, interleaved command by command and with commands that
\* may fail, still add, authenticate and remove one session at a time, and add
\* one only below maxclients.
THEOREM GatewayRefinement == GSpec => ImplementsTable
<1>1. GInit => Table!Init
  BY DEF GInit, client_list_init, Table!Init, Table!Key, Sessions, Holders, Listed
<1>2. /\ GIInv /\ GIInv' /\ SessionsMatch /\ SessionsMatch'
      /\ [GNext]_vars
      => [Table!Next]_Sessions
  <2> SUFFICES ASSUME GIInv, GIInv', SessionsMatch, SessionsMatch', [GNext]_vars
               PROVE  Table!Next \/ UNCHANGED Sessions
    OBVIOUS
  <2>1. IInv /\ IInv' /\ ListStep
    BY GStepCases DEF GIInv
  <2>2. CASE UNCHANGED clientVars
    BY <2>2 DEF clientVars, Sessions, Holders, Listed
  <2> QED
    BY <2>1, <2>2, AppendMapsToAdd, AuthenticateMapsToAuthenticate, DeleteMapsToRemove
       DEF ListStep
<1>3. GIInv => SessionsMatch
  BY SessionsOfList DEF GIInv
<1>4. GSpec => []SessionsMatch
  BY <1>3, GatewayInvariance, PTL
<1> QED
  BY <1>1, <1>2, <1>4, GatewayInvariance, PTL DEF GSpec, ImplementsTable, Table!Spec

----------------------------------------------------------------------------
(* The kernel's rules, when every command succeeds. *)

\* Each rule has finitely many users, as the list has finitely many clients.
LEMMA UsersFinite ==
    ASSUME IInv, NEW r
    PROVE  IsFiniteSet(Users(r)) /\ Cardinality(Users(r)) \in Nat
<1>1. list \in Seq(Node) /\ Len(list) \in Nat /\ DOMAIN list = 1 .. Len(list)
  BY Basics
<1>2. list \in [1 .. Len(list) -> Node]
  BY <1>1, LenProperties
<1>3. list \in Surjection(1 .. Len(list), Listed)
  BY <1>1, <1>2 DEF Surjection, Listed
<1>4. IsFiniteSet(Listed)
  BY <1>1, <1>3, IntervalSizes, FS_Surjection
<1>5. Users(r) \in SUBSET Listed
  BY Basics DEF Users
<1> QED
  BY <1>4, <1>5, FS_Subset, FS_CardinalityType

\* Nothing is missing unless somebody runs commands, and then it is what that
\* thread has behind, or before, it.
LEMMA NoneMissing ==
    ASSUME \A t \in Thread : pc[t] # "fw"
    PROVE  \A r : ~ Missing(r)
  BY DEF Missing

LEMMA MissingOf ==
    ASSUME NEW t \in Thread, pc[t] = "fw", \A u \in Thread : pc[u] = "fw" => u = t, NEW r
    PROVE  Missing(r) <=> \E i \in Behind(t) : AccessRules(client[ptr[t]])[i] = r
  BY DEF Missing

\* A step after which the same rules are used, missing and in the kernel.
LEMMA RulesKept ==
    ASSUME RulesExact, UNCHANGED rules,
           \A r \in Rule : Users(r)' = Users(r) /\ (Missing(r)' <=> Missing(r))
    PROVE  RulesExact'
<1>1. \A r \in Rule : Short(r)' = Short(r)
  BY DEF Short
<1> QED
  BY <1>1 DEF RulesExact

LEMMA UsersKept ==
    ASSUME UNCHANGED clientVars, NEW r
    PROVE  Users(r)' = Users(r)
  BY DEF Users, Uses, Authenticated, Listed, clientVars

\* The threads that run commands are the same and have the same ones to run.
LEMMA MissingKept ==
    ASSUME UNCHANGED <<clientVars, todo>>, NEW r,
           \A u \in Thread : pc'[u] = "fw" <=> pc[u] = "fw",
           \A u \in Thread : pc[u] = "fw" =>
               ptr'[u] = ptr[u] /\ (u \in Handler => req'[u] = req[u])
    PROVE  Missing(r)' <=> Missing(r)
<1>1. client' = client /\ todo' = todo
  BY DEF clientVars
<1>2. \A u \in Thread : pc[u] = "fw" => Behind(u)' = Behind(u) /\ ptr'[u] = ptr[u]
  BY <1>1 DEF Behind, Adding, Deauthenticating, Thread
<1> QED
  BY <1>1, <1>2 DEF Missing

\* What the handlers do without touching the list.
LEMMA LocalRules ==
    ASSUME GIInv, RulesExact, NEW t \in Handler,
           \/ Accept(t) \/ ServeSplash(t) \/ Lookup(t) \/ Verify(t) \/ Search(t) \/ Reply(t)
    PROVE  RulesExact'
<1>0. /\ pc \in [Thread -> HandlerPlace \cup CheckerPlace]
      /\ ptr \in [Thread -> Node \cup {NULL}]
      /\ req \in [Handler -> [kind : Kind \cup {NULL}, ip : IP \cup MAC \cup {NULL},
                              mac : MAC \cup {NULL}]]
      /\ t \in Thread
  BY DEF GIInv, GTypeOK, Thread, HandlerPlace, CheckerPlace
<1>1. pc[t] # "fw" /\ UNCHANGED <<clientVars, todo, rules>>
  BY DEF Accept, ServeSplash, Lookup, Verify, Search, Reply
<1>2. PICK l \in HandlerPlace \ {"fw"} : Goto(t, l)
  <2>1. \A kind \in Kind : Entry(kind) \in HandlerPlace \ {"fw"}
    BY DEF Entry, HandlerPlace
  <2>2. {"idle", "verify", "act"} \subseteq HandlerPlace \ {"fw"}
    BY DEF HandlerPlace
  <2> QED
    BY <2>1, <2>2 DEF Accept, ServeSplash, Lookup, Verify, Search, Reply, Done
<1>3. \A u \in Thread \ {t} : pc'[u] = pc[u]
  BY <1>0, <1>2 DEF Goto
<1>4. pc'[t] # "fw"
  BY <1>0, <1>2 DEF Goto
<1>5. \A u \in Thread \ {t} : ptr'[u] = ptr[u]
  BY <1>0 DEF Accept, ServeSplash, Lookup, Verify, Search, Reply, Done, Point
<1>6. \A u \in Handler \ {t} : req'[u] = req[u]
  BY <1>0 DEF Accept, ServeSplash, Lookup, Verify, Search, Reply, Done
<1>7. /\ \A u \in Thread : pc'[u] = "fw" <=> pc[u] = "fw"
      /\ \A u \in Thread : pc[u] = "fw" =>
             ptr'[u] = ptr[u] /\ (u \in Handler => req'[u] = req[u])
  BY <1>1, <1>3, <1>4, <1>5, <1>6
<1> QED
  BY <1>1, <1>7, UsersKept, MissingKept, RulesKept

\* What happens while nobody runs commands, before and after.
LEMMA QuietRules ==
    ASSUME GIInv, GIInv', RulesExact, UNCHANGED rules,
           \A u \in Thread : pc[u] # "fw", \A u \in Thread : pc'[u] # "fw",
           \A r \in Rule : Users(r)' = Users(r)
    PROVE  RulesExact'
<1>1. \A r \in Rule : Missing(r)' <=> Missing(r)
  BY DEF Missing
<1> QED
  BY <1>1, RulesKept

\* Adding a client, or deleting one that is not authenticated, changes no rule's
\* users.
LEMMA AppendUsers ==
    ASSUME IInv, NEW ip, NEW mac, client_list_append(ip, mac), NEW r
    PROVE  Users(r)' = Users(r)
<1>1. CASE ListFull
  BY <1>1, UsersKept DEF client_list_append
<1>2. CASE ~ ListFull
  <2>1. PICK n \in Node \ Listed :
          /\ client' = [client EXCEPT ![n] =
                 [ip |-> ip, mac |-> mac, idx |-> FreeSlot,
                  fw_connection_state |-> "PREAUTHENTICATED"]]
          /\ list' = Append(list, n)
    BY <1>2 DEF client_list_append
  <2>2. Listed' = Listed \cup {n}
    BY <2>1, AppendEffect, Basics DEF IInv
  <2>3. /\ \A m \in Listed : client'[m] = client[m]
        /\ client'[n].fw_connection_state = "PREAUTHENTICATED"
    BY <2>1, Basics
  <2>4. Authenticated' = Authenticated
    BY <2>2, <2>3 DEF Authenticated
  <2>5. \A m \in Authenticated : Uses(m, r)' <=> Uses(m, r)
    BY <2>3, Basics DEF Uses
  <2> QED
    BY <2>4, <2>5 DEF Users
<1> QED
  BY <1>1, <1>2

LEMMA DeleteUsers ==
    ASSUME IInv, NEW n \in Listed, client_list_delete(n), NEW r
    PROVE  Users(r)' = Users(r) \ {n}
<1>1. Listed' = Listed \ {n} /\ \A m \in Listed' : client'[m] = client[m]
  BY DeleteEffect
<1>2. Authenticated' = Authenticated \ {n}
  BY <1>1 DEF Authenticated
<1>3. \A m \in Authenticated' : Uses(m, r)' <=> Uses(m, r)
  BY <1>1, <1>2, Basics DEF Uses
<1> QED
  BY <1>2, <1>3 DEF Users

LEMMA AddClientRules ==
    ASSUME GIInv, GIInv', RulesExact, NEW t \in Handler, AddClient(t)
    PROVE  RulesExact'
<1>1. Within /\ UNCHANGED rules
  BY DEF AddClient
<1>2. (\A u \in Thread : pc[u] # "fw") /\ (\A u \in Thread : pc'[u] # "fw")
  <2>1. client_list_mutex = NULL /\ client_list_mutex' = NULL
    BY <1>1 DEF Within
  <2> QED
    BY <2>1, ThreadAssumption DEF GIInv, MutexHeld, Thread
<1>3. PICK mac \in MAC \cup {NULL} : client_list_add_client(req[t].ip, mac)
  BY DEF AddClient
<1>4. \A r \in Rule : Users(r)' = Users(r)
  BY <1>3, AppendUsers, UsersKept DEF client_list_add_client, GIInv
<1> QED
  BY <1>1, <1>2, <1>4, QuietRules

\* A client that becomes authenticated uses its three rules, all of which are
\* still to be added.
LEMMA AuthenticateRules ==
    ASSUME GIInv, GIInv', RulesExact, NEW t \in Handler, NEW n \in Listed,
           client[n].fw_connection_state # "AUTHENTICATED", SetAuthenticated(n),
           Take(t), Goto(t, "fw"), Point(t, n), ~ Deauthenticating(t), Len(todo') = 3,
           UNCHANGED <<req, rules>>
    PROVE  RulesExact'
<1>1. /\ pc \in [Thread -> HandlerPlace \cup CheckerPlace]
      /\ ptr \in [Thread -> Node \cup {NULL}]
      /\ t \in Thread /\ t # Checker
      /\ Listed \subseteq Node /\ client \in [Node -> Client]
  BY Basics, ThreadAssumption DEF GIInv, GTypeOK, Thread, HandlerPlace, CheckerPlace
<1>2. /\ \A u \in Thread : pc[u] # "fw"
      /\ \A u \in Thread : pc'[u] = "fw" <=> u = t
      /\ ptr'[t] = n
  BY <1>1, Holder DEF Goto, Point, Take
<1>3. /\ Listed' = Listed
      /\ \A m \in Listed : m # n => client'[m] = client[m]
      /\ client'[n].fw_connection_state = "AUTHENTICATED"
      /\ client'[n].ip = client[n].ip /\ client'[n].mac = client[n].mac
      /\ client'[n].idx = client[n].idx
  BY <1>1 DEF SetAuthenticated, Listed, Client
<1>4. Authenticated' = Authenticated \cup {n} /\ n \notin Authenticated
  BY <1>3 DEF Authenticated
<1>5. AccessRules(client'[n]) = AccessRules(client[n])
  BY <1>3 DEF AccessRules
<1>6. \A m \in Listed, r \in Rule : Uses(m, r)' <=> Uses(m, r)
  BY <1>3, <1>5 DEF Uses
<1>7. \A r \in Rule : Users(r)' = IF Uses(n, r) THEN Users(r) \cup {n} ELSE Users(r)
  BY <1>4, <1>6, Basics DEF Users, GIInv
<1>8. \A r \in Rule : ~ Missing(r) /\ (Missing(r)' <=> Uses(n, r))
  <2>1. Behind(t)' = 1 .. 3
    BY <1>1 DEF Behind, Adding, Deauthenticating
  <2>2. \A r : Missing(r)' <=> \E i \in 1 .. 3 : AccessRules(client'[n])[i] = r
    BY <1>1, <1>2, <2>1 DEF Missing
  <2>3. \A r : Uses(n, r) <=> \E i \in 1 .. 3 : AccessRules(client'[n])[i] = r
    BY <1>5 DEF Uses
  <2> QED
    BY <1>2, <2>2, <2>3, NoneMissing
<1>9. ASSUME NEW r \in Rule
      PROVE  rules'[r] = Cardinality(Users(r)') - Short(r)'
  <2>1. IsFiniteSet(Users(r)) /\ Cardinality(Users(r)) \in Nat /\ n \notin Users(r)
    BY <1>4, UsersFinite DEF Users, GIInv
  <2>2. Cardinality(Users(r) \cup {n}) = Cardinality(Users(r)) + 1
    BY <2>1, FS_AddElement
  <2>3. rules'[r] = Cardinality(Users(r))
    BY <1>8, <2>1 DEF RulesExact, Short
  <2>4. CASE Uses(n, r)
    <3>1. Short(r)' = 1 /\ Users(r)' = Users(r) \cup {n}
      BY <1>7, <1>8, <2>4 DEF Short
    <3> QED
      BY <2>1, <2>2, <2>3, <3>1
  <2>5. CASE ~ Uses(n, r)
    <3>1. Short(r)' = 0 /\ Users(r)' = Users(r)
      BY <1>7, <1>8, <2>5 DEF Short
    <3> QED
      BY <2>1, <2>3, <3>1
  <2> QED
    BY <2>4, <2>5
<1> QED
  BY <1>9 DEF RulesExact

\* The commands that take a client's rules away start with nothing missing.
LEMMA StartRemovingRules ==
    ASSUME GIInv, RulesExact, NEW t \in Thread, t = Checker \/ Deauthenticating(t)',
           \A u \in Thread : pc[u] # "fw", \A u \in Thread : pc'[u] = "fw" => u = t,
           Len(todo') = 3, UNCHANGED <<clientVars, rules>>
    PROVE  RulesExact'
<1>1. Behind(t)' = {}
  BY DEF Behind, Adding
<1>2. \A r \in Rule : Missing(r)' <=> Missing(r)
  BY <1>1 DEF Missing
<1> QED
  BY <1>2, UsersKept, RulesKept

LEMMA ActRules ==
    ASSUME GIInv, GIInv', RulesExact, NEW t \in Handler, Act(t)
    PROVE  RulesExact'
<1> DEFINE n == client_list_find(req[t].ip, req[t].mac)
<1>1. n \in Listed \cup {NULL}
  BY FindIsListed DEF GIInv, FindsListed
<1>2. /\ Point(t, n) /\ UNCHANGED <<req, rules>>
      /\ n = NULL => ActMissing(t)
      /\ n # NULL => IF Deauthenticating(t) THEN ActDeauthenticate(t, n)
                                            ELSE ActAuthenticate(t, n)
  BY DEF Act
<1> HIDE DEF n
<1>3. /\ pc \in [Thread -> HandlerPlace \cup CheckerPlace] /\ t \in Thread
      /\ \A u \in Thread : Within \/ Take(t) => pc[u] # "fw"
  BY Holder DEF GIInv, GTypeOK, Thread, HandlerPlace, CheckerPlace, Within, Take
<1>4. ASSUME Within, Goto(t, "reply"), \A r \in Rule : Users(r)' = Users(r)
      PROVE  RulesExact'
  <2>1. (\A u \in Thread : pc[u] # "fw") /\ (\A u \in Thread : pc'[u] # "fw")
    BY <1>3, <1>4 DEF Goto
  <2> QED
    BY <1>2, <1>4, <2>1, QuietRules
<1>5. CASE n = NULL
  BY <1>2, <1>4, <1>5, UsersKept DEF ActMissing
<1>6. CASE n # NULL /\ Deauthenticating(t)
  <2>1. CASE client[n].fw_connection_state = "AUTHENTICATED"
    <3>1. /\ Take(t) /\ todo' = AccessCommands("-D", client[n]) /\ Goto(t, "fw")
          /\ UNCHANGED clientVars
      BY <1>2, <1>6, <2>1 DEF ActDeauthenticate
    <3>2. Len(todo') = 3
      BY <1>1, <1>6, <3>1, AccessCommandsTyped DEF GIInv
    <3>3. (\A u \in Thread : pc[u] # "fw") /\ (\A u \in Thread : pc'[u] = "fw" => u = t)
      BY <1>3, <3>1 DEF Goto
    <3>4. Deauthenticating(t)'
      BY <1>2, <1>6 DEF Deauthenticating
    <3> QED
      BY <1>2, <1>3, <3>1, <3>2, <3>3, <3>4, StartRemovingRules
  <2>2. CASE client[n].fw_connection_state # "AUTHENTICATED"
    <3>1. Within /\ Delete(n) /\ Goto(t, "reply")
      BY <1>2, <1>6, <2>2 DEF ActDeauthenticate
    <3>2. \A r \in Rule : Users(r)' = Users(r) \ {n}
      BY <1>1, <1>6, <3>1, DeleteUsers DEF Delete, GIInv
    <3>3. \A r \in Rule : n \notin Users(r)
      BY <2>2 DEF Users, Authenticated
    <3> QED
      BY <1>4, <3>1, <3>2, <3>3
  <2> QED
    BY <2>1, <2>2
<1>7. CASE n # NULL /\ ~ Deauthenticating(t)
  <2>1. CASE client[n].fw_connection_state # "AUTHENTICATED"
    <3>1. /\ Take(t) /\ todo' = AccessCommands("-A", client[n]) /\ Goto(t, "fw")
          /\ SetAuthenticated(n)
      BY <1>2, <1>7, <2>1 DEF ActAuthenticate
    <3>2. Len(todo') = 3
      BY <1>1, <1>7, <3>1, AccessCommandsTyped DEF GIInv
    <3> QED
      BY <1>1, <1>2, <1>7, <2>1, <3>1, <3>2, AuthenticateRules
  <2>2. CASE client[n].fw_connection_state = "AUTHENTICATED"
    BY <1>2, <1>4, <1>7, <2>2, UsersKept DEF ActAuthenticate
  <2> QED
    BY <2>1, <2>2
<1> QED
  BY <1>5, <1>6, <1>7

\* One command puts the first of the missing rules in, or takes one more out.
LEMMA CommandRules ==
    ASSUME GIInv, GIInv', RulesExact, ~ CommandsMayFail, NEW t \in Thread, Command(t)
    PROVE  RulesExact'
<1> DEFINE k == 4 - Len(todo)
           r == AccessRules(client[ptr[t]])
<1>1. /\ pc[t] = "fw" /\ todo # <<>> /\ todo' = Tail(todo)
      /\ rules' = Applied(Head(todo))
      /\ UNCHANGED <<clientVars, client_list_mutex, pc, req, ptr, timedOut>>
  BY DEF Command
<1>2. /\ k \in 1 .. 3 /\ Len(todo) \in 1 .. 3 /\ ptr[t] \in Authenticated
      /\ Head(todo) = [action |-> ActionOf(t), rule |-> r[k]]
      /\ r[k] \in Rule /\ Len(todo') = Len(todo) - 1
  BY <1>1, NextCommand
<1>3. \A i \in 1 .. 3 : i # k => r[i] # r[k]
  BY <1>2, AccessRulesDiffer
<1>4. \A u \in Thread : pc[u] = "fw" => u = t
  BY <1>1, Holder
<1>5. /\ Behind(t) = IF Adding(t) THEN k .. 3 ELSE 1 .. k - 1
      /\ Behind(t)' = IF Adding(t) THEN k + 1 .. 3 ELSE 1 .. k
  <2>1. Adding(t)' <=> Adding(t)
    BY <1>1 DEF Adding, Deauthenticating
  <2>2. /\ 3 - Len(todo) = k - 1
        /\ 4 - Len(todo') = k + 1 /\ 3 - Len(todo') = k
    BY <1>2
  <2> HIDE DEF k
  <2>3. 4 - Len(todo) = k
    BY DEF k
  <2> QED
    BY <2>1, <2>2, <2>3 DEF Behind
<1>6. \A q : /\ Missing(q) <=> \E i \in Behind(t) : r[i] = q
             /\ Missing(q)' <=> \E i \in Behind(t)' : r[i] = q
  BY <1>1, <1>4 DEF Missing, clientVars
<1>7. rules \in [Rule -> 0 .. MaxCopies] /\ MaxCopies \in Nat
  BY FailAssumption DEF GIInv, GTypeOK
<1>8. \A q \in Rule : /\ Users(q)' = Users(q)
                      /\ Cardinality(Users(q)) \in Nat
                      /\ rules[q] = Cardinality(Users(q)) - Short(q)
  BY <1>1, UsersKept, UsersFinite DEF RulesExact, GIInv
<1> HIDE DEF k, r
<1>r. PICK rk \in Rule : rk = r[k]
  BY <1>2
<1>9. CASE Adding(t)
  <2>1. Behind(t) = k .. 3 /\ Behind(t)' = k + 1 .. 3
    BY <1>5, <1>9
  <2>2. Missing(rk) /\ ~ Missing(rk)'
    <3>1. k \in Behind(t) /\ \A i \in Behind(t)' : i \in 1 .. 3 /\ i # k
      BY <1>2, <2>1
    <3> QED
      BY <1>3, <1>6, <1>r, <2>1, <3>1
  <2>3. ASSUME NEW q, q # rk PROVE Missing(q)' <=> Missing(q)
    BY <1>2, <1>6, <1>r, <2>1, <2>3
  <2>4. Short(rk) = 1 /\ Short(rk)' = 0 /\ \A q : q # rk => Short(q)' = Short(q)
    BY <2>2, <2>3 DEF Short
  <2>5. rules' = [rules EXCEPT ![rk] = rules[rk] + 1]
    <3>1. Head(todo).action = "-A" /\ Head(todo).rule = rk
      BY <1>2, <1>9, <1>r DEF ActionOf
    <3> QED
      BY <1>1, <3>1 DEF Applied
  <2>6. ASSUME NEW q \in Rule
        PROVE  rules'[q] = Cardinality(Users(q)') - Short(q)'
    <3>1. CASE q = rk
      BY <1>2, <1>7, <1>8, <2>4, <2>5, <3>1
    <3>2. CASE q # rk
      BY <1>2, <1>7, <1>8, <2>4, <2>5, <3>2
    <3> QED
      BY <3>1, <3>2
  <2> QED
    BY <2>6 DEF RulesExact
<1>10. CASE ~ Adding(t)
  <2>1. Behind(t) = 1 .. k - 1 /\ Behind(t)' = 1 .. k
    BY <1>5, <1>10
  <2>2. ~ Missing(rk) /\ Missing(rk)'
    <3>1. k \in Behind(t)' /\ \A i \in Behind(t) : i \in 1 .. 3 /\ i # k
      BY <1>2, <2>1
    <3> QED
      BY <1>3, <1>6, <1>r, <2>1, <3>1
  <2>3. ASSUME NEW q, q # rk PROVE Missing(q)' <=> Missing(q)
    BY <1>2, <1>6, <1>r, <2>1, <2>3
  <2>4. Short(rk) = 0 /\ Short(rk)' = 1 /\ \A q : q # rk => Short(q)' = Short(q)
    BY <2>2, <2>3 DEF Short
  <2>5. rules[rk] > 0
    <3>1. ptr[t] \in Users(rk)
      BY <1>2, <1>r DEF Users, Uses, r
    <3>2. Cardinality(Users(rk)) # 0
      BY <3>1, UsersFinite, FS_EmptySet DEF GIInv
    <3> QED
      BY <1>2, <1>8, <2>4, <3>2
  <2>6. rules' = [rules EXCEPT ![rk] = rules[rk] - 1]
    <3>1. Head(todo).action = "-D" /\ Head(todo).rule = rk
      BY <1>2, <1>10, <1>r DEF ActionOf
    <3> QED
      BY <1>1, <2>5, <3>1 DEF Applied
  <2>7. ASSUME NEW q \in Rule
        PROVE  rules'[q] = Cardinality(Users(q)') - Short(q)'
    <3>1. CASE q = rk
      BY <1>2, <1>7, <1>8, <2>4, <2>6, <3>1
    <3>2. CASE q # rk
      BY <1>2, <1>7, <1>8, <2>4, <2>6, <3>2
    <3> QED
      BY <3>1, <3>2
  <2> QED
    BY <2>7 DEF RulesExact
<1> QED
  BY <1>9, <1>10

\* A client whose three rules are gone may leave the list.
LEMMA RemovedRules ==
    ASSUME GIInv, RulesExact, NEW t \in Thread, pc[t] = "fw", todo = <<>>, ~ Adding(t),
           Delete(ptr[t]), \A u \in Thread : pc'[u] # "fw", UNCHANGED rules
    PROVE  RulesExact'
<1> DEFINE n == ptr[t]
<1>1. n \in Authenticated /\ n \in Listed
  BY Basics DEF GIInv, CommandsLeft
<1>2. \A u \in Thread : pc[u] = "fw" => u = t
  BY Holder
<1>3. \A r \in Rule : Missing(r) <=> Uses(n, r)
  <2>1. Behind(t) = 1 .. 3
    BY EmptySeq DEF Behind
  <2> QED
    BY <1>2, <2>1 DEF Missing, Uses
<1>4. \A r \in Rule : Users(r)' = Users(r) \ {n}
  BY <1>1, DeleteUsers DEF Delete, GIInv
<1>5. \A r \in Rule : Short(r)' = 0
  BY DEF Short, Missing
<1>6. ASSUME NEW r \in Rule
      PROVE  rules'[r] = Cardinality(Users(r)') - Short(r)'
  <2>1. IsFiniteSet(Users(r)) /\ Cardinality(Users(r)) \in Nat
    BY UsersFinite DEF GIInv
  <2>2. rules'[r] = Cardinality(Users(r)) - Short(r) /\ Cardinality(Users(r)') \in Nat
    BY <1>4, <2>1, FS_RemoveElement, FS_CardinalityType DEF RulesExact
  <2>3. CASE Uses(n, r)
    <3>1. Short(r) = 1 /\ n \in Users(r)
      BY <1>1, <1>3, <2>3 DEF Short, Users
    <3>2. Cardinality(Users(r)') = Cardinality(Users(r)) - 1
      BY <1>4, <2>1, <3>1, FS_RemoveElement
    <3> QED
      BY <1>5, <2>1, <2>2, <3>1, <3>2
  <2>4. CASE ~ Uses(n, r)
    <3>1. Short(r) = 0 /\ Users(r)' = Users(r)
      BY <1>3, <1>4, <2>4 DEF Short, Users
    <3> QED
      BY <1>5, <2>1, <2>2, <3>1
  <2> QED
    BY <2>3, <2>4
<1> QED
  BY <1>6 DEF RulesExact

LEMMA FinishActRules ==
    ASSUME GIInv, GIInv', RulesExact, NEW t \in Handler, FinishAct(t)
    PROVE  RulesExact'
<1>1. /\ pc[t] = "fw" /\ todo = <<>> /\ Release(t) /\ UNCHANGED rules
      /\ t \in Thread /\ t # Checker
  BY ThreadAssumption DEF FinishAct, Thread
<1>2. \A u \in Thread : pc'[u] # "fw"
  BY <1>1, ThreadAssumption DEF GIInv, MutexHeld, Release, Thread
<1>3. CASE Deauthenticating(t)
  BY <1>1, <1>2, <1>3, RemovedRules DEF FinishAct, Adding
<1>4. CASE ~ Deauthenticating(t)
  <2>1. UNCHANGED clientVars
    BY <1>4 DEF FinishAct
  <2>2. Behind(t) = {}
    BY <1>1, <1>4, EmptySeq DEF Behind, Adding
  <2>3. \A r \in Rule : ~ Missing(r) /\ ~ Missing(r)'
    BY <1>1, <1>2, <2>2, Holder DEF Missing
  <2> QED
    BY <1>1, <2>1, <2>3, UsersKept, RulesKept
<1> QED
  BY <1>3, <1>4

LEMMA CheckRules ==
    ASSUME GIInv, GIInv', RulesExact, Check
    PROVE  RulesExact'
<1>0. /\ pc \in [Thread -> HandlerPlace \cup CheckerPlace]
      /\ ptr \in [Thread -> Node \cup {NULL}]
      /\ Checker \in Thread /\ Checker \notin Handler
  BY ThreadAssumption DEF GIInv, GTypeOK, Thread, HandlerPlace, CheckerPlace
<1>1. CASE Wake \/ StartPass \/ KeepClient \/ EndPass
  <2>1. /\ UNCHANGED <<clientVars, todo, rules, req>>
        /\ pc[Checker] # "fw" /\ pc'[Checker] # "fw"
    BY <1>0, <1>1 DEF Wake, StartPass, KeepClient, EndPass, Goto
  <2>2. \A u \in Thread \ {Checker} : pc'[u] = pc[u] /\ ptr'[u] = ptr[u]
    BY <1>0, <1>1 DEF Wake, StartPass, KeepClient, EndPass, Goto, Point
  <2> QED
    BY <2>1, <2>2, UsersKept, MissingKept, RulesKept
<1>2. CASE TimeOutClient
  <2> DEFINE n == ptr[Checker]
  <2>1. n \in Listed /\ UNCHANGED rules /\ \A u \in Thread : pc[u] # "fw"
    BY <1>2, InPass DEF TimeOutClient, Thread
  <2>2. CASE client[n].fw_connection_state = "AUTHENTICATED"
    <3>1. /\ todo' = AccessCommands("-D", client[n]) /\ Goto(Checker, "fw")
          /\ UNCHANGED clientVars
      BY <1>2, <2>2 DEF TimeOutClient
    <3>2. Len(todo') = 3
      BY <2>1, <3>1, AccessCommandsTyped DEF GIInv
    <3>3. \A u \in Thread : pc'[u] = "fw" => u = Checker
      BY <1>0, <2>1, <3>1 DEF Goto
    <3> QED
      BY <1>0, <2>1, <3>1, <3>2, <3>3, StartRemovingRules
  <2>3. CASE client[n].fw_connection_state # "AUTHENTICATED"
    <3>1. Delete(n) /\ UNCHANGED pc
      BY <1>2, <2>3 DEF TimeOutClient
    <3>2. \A r \in Rule : Users(r)' = Users(r) \ {n} /\ n \notin Users(r)
      BY <2>1, <2>3, <3>1, DeleteUsers DEF Delete, GIInv, Users, Authenticated
    <3> QED
      BY <2>1, <3>1, <3>2, QuietRules
  <2> QED
    BY <2>2, <2>3
<1>3. CASE FinishTimeOut
  <2>1. /\ pc[Checker] = "fw" /\ todo = <<>> /\ Delete(ptr[Checker])
        /\ Goto(Checker, "scan") /\ UNCHANGED rules
    BY <1>3 DEF FinishTimeOut
  <2>2. \A u \in Thread : pc'[u] # "fw"
    BY <1>0, <2>1, InPass DEF Goto, Thread
  <2> QED
    BY <1>0, <2>1, <2>2, RemovedRules DEF Adding
<1> QED
  BY <1>1, <1>2, <1>3 DEF Check

LEMMA StepRulesExact ==
    ASSUME ~ CommandsMayFail
    PROVE  GIInv /\ GIInv' /\ RulesExact /\ [GNext]_vars => RulesExact'
<1> SUFFICES ASSUME GIInv, GIInv', RulesExact, [GNext]_vars
             PROVE  RulesExact'
  OBVIOUS
<1>1. CASE \E t \in Handler : Accept(t) \/ Serve(t)
  BY <1>1, LocalRules, AddClientRules, ActRules, FinishActRules DEF Serve
<1>2. CASE \E t \in Thread : Command(t)
  BY <1>2, CommandRules
<1>3. CASE Check
  BY <1>3, CheckRules
<1>4. CASE (\E n \in Node : Expire(n)) \/ UNCHANGED vars
  <2>1. UNCHANGED <<clientVars, pc, req, ptr, todo, rules>>
    BY <1>4 DEF Expire, vars, clientVars
  <2> QED
    BY <2>1, UsersKept, MissingKept, RulesKept
<1> QED
  BY <1>1, <1>2, <1>3, <1>4 DEF GNext

LEMMA InitRulesExact == GInit => RulesExact
<1> SUFFICES ASSUME GInit PROVE RulesExact
  OBVIOUS
<1>1. \A r \in Rule : Users(r) = {}
  BY DEF GInit, client_list_init, Users, Authenticated, Listed
<1>2. \A r \in Rule : Short(r) = 0
  BY DEF GInit, Short, Missing
<1> QED
  BY <1>1, <1>2, FS_EmptySet DEF GInit, RulesExact

\* If no iptables command fails, then at every moment, in the middle of
\* iptables_fw_access() too, the kernel holds each mangle rule once for each
\* authenticated client that needs it, but for the rules the running commands
\* have not added yet or have already removed.
THEOREM KernelFollowsList == ~ CommandsMayFail => (GSpec => []RulesExact)
<1> SUFFICES ASSUME ~ CommandsMayFail PROVE GSpec => []RulesExact
  OBVIOUS
<1>1. GIInv /\ GIInv' /\ RulesExact /\ [GNext]_vars => RulesExact'
  BY StepRulesExact
<1> QED
  BY <1>1, InitRulesExact, GatewayInvariance, PTL DEF GSpec

\* If no command fails, rules and list agree whenever the mutex is free.
THEOREM RulesCorrect == ~ CommandsMayFail => (GSpec => []RulesMatchList)
<1>1. GIInv /\ RulesExact => RulesMatchList
  <2> SUFFICES ASSUME GIInv, RulesExact, client_list_mutex = NULL, NEW r \in Rule
               PROVE  rules[r] = Cardinality({n \in Authenticated :
                                     \E i \in 1 .. 3 : AccessRules(client[n])[i] = r})
    BY DEF RulesMatchList
  <2>1. Short(r) = 0
    BY Holder, NoneMissing DEF Short
  <2>2. rules[r] = Cardinality(Users(r))
    BY <2>1, UsersFinite DEF RulesExact, GIInv
  <2> QED
    BY <2>2 DEF Users, Uses
<1> SUFFICES ASSUME ~ CommandsMayFail PROVE GSpec => []RulesMatchList
  OBVIOUS
<1> QED
  BY <1>1, GatewayInvariance, KernelFollowsList, PTL

\* A rule in the kernel has a user.
LEMMA RuleHasUser ==
    ASSUME GIInv, RulesExact, NEW r \in Rule, rules[r] > 0
    PROVE  \E n \in Authenticated : Uses(n, r)
<1>1. IsFiniteSet(Users(r)) /\ Cardinality(Users(r)) \in Nat /\ Short(r) \in {0, 1}
  BY UsersFinite DEF GIInv, Short
<1>2. Cardinality(Users(r)) # 0
  BY <1>1 DEF RulesExact
<1> QED
  BY <1>1, <1>2, FS_EmptySet DEF Users

\* An upload rule names the ip, mac and slot of its user.
LEMMA UploadRule ==
    ASSUME NEW c, NEW ip, NEW mac, NEW s, NEW i \in 1 .. 3,
           AccessRules(c)[i] = <<"ndsOUT", ip, mac, s>>
    PROVE  i = 1 /\ c.idx = s /\ c.ip = ip /\ c.mac = mac
<1>1. \A x, y, z : /\ <<"ndsINC MARK", x, y>> # <<"ndsOUT", ip, mac, s>>
                   /\ <<"ndsINC ACCEPT", x>> # <<"ndsOUT", ip, mac, s>>
  OBVIOUS
<1>2. i = 1
  <2> DEFINE r == AccessRules(c)
  <2>1. r[2] = <<"ndsINC MARK", c.ip, c.idx>> /\ r[3] = <<"ndsINC ACCEPT", c.ip>>
    BY AccessRulesAre
  <2>2. r[i] = <<"ndsOUT", ip, mac, s>>
    OBVIOUS
  <2> HIDE DEF r
  <2>3. r[2] # r[i] /\ r[3] # r[i]
    BY <1>1, <2>1, <2>2
  <2> QED
    BY <2>3
<1>3. <<"ndsOUT", c.ip, c.mac, c.idx>> = <<"ndsOUT", ip, mac, s>>
  BY <1>2, AccessRulesAre
<1> QED
  BY <1>2, <1>3

\* If no command fails, nobody's packets are let through by a rule that belongs
\* to no listed, authenticated client, not even while a client is being removed.
THEOREM AccessCorrect == ~ CommandsMayFail => (GSpec => []NoAccessWithoutSession)
<1>1. GIInv /\ RulesExact => NoAccessWithoutSession
  <2> SUFFICES ASSUME GIInv, RulesExact, NEW ip \in IP, NEW mac \in MAC, NEW s \in Slot,
                      rules[<<"ndsOUT", ip, mac, s>>] > 0
               PROVE  \E n \in Authenticated :
                          AccessRules(client[n])[1] = <<"ndsOUT", ip, mac, s>>
    BY DEF NoAccessWithoutSession
  <2>1. <<"ndsOUT", ip, mac, s>> \in Rule
    BY DEF Rule
  <2>2. PICK n \in Authenticated : Uses(n, <<"ndsOUT", ip, mac, s>>)
    BY <2>1, RuleHasUser
  <2> QED
    BY <2>2, UploadRule DEF Uses
<1> SUFFICES ASSUME ~ CommandsMayFail PROVE GSpec => []NoAccessWithoutSession
  OBVIOUS
<1> QED
  BY <1>1, GatewayInvariance, KernelFollowsList, PTL

\* If no command fails, two clients with access never carry the same mark,
\* although the slots of deleted clients are given to new ones.
THEOREM MarksCorrect == ~ CommandsMayFail => (GSpec => []MarksDistinct)
<1>1. GIInv /\ RulesExact => MarksDistinct
  <2> SUFFICES ASSUME GIInv, RulesExact,
                      NEW r \in {"ndsOUT"} \X IP \X MAC \X Slot,
                      NEW q \in {"ndsOUT"} \X IP \X MAC \X Slot,
                      rules[r] > 0, rules[q] > 0, r[4] = q[4]
               PROVE  r = q
    BY DEF MarksDistinct
  <2>1. r \in Rule /\ q \in Rule
    BY DEF Rule
  <2>2. PICK m \in Authenticated : Uses(m, r)
    BY <2>1, RuleHasUser
  <2>3. PICK n \in Authenticated : Uses(n, q)
    BY <2>1, RuleHasUser
  <2>4. r = <<"ndsOUT", r[2], r[3], r[4]>> /\ q = <<"ndsOUT", q[2], q[3], q[4]>>
    OBVIOUS
  <2>5. client[m].idx = r[4] /\ client[m].ip = r[2] /\ client[m].mac = r[3]
    BY <2>2, <2>4, UploadRule DEF Uses
  <2>6. client[n].idx = q[4] /\ client[n].ip = q[2] /\ client[n].mac = q[3]
    BY <2>3, <2>4, UploadRule DEF Uses
  <2>7. m = n
    BY <2>5, <2>6, Basics DEF GIInv, IInv, SlotsMatchList
  <2> QED
    BY <2>4, <2>5, <2>6, <2>7
<1> SUFFICES ASSUME ~ CommandsMayFail PROVE GSpec => []MarksDistinct
  OBVIOUS
<1> QED
  BY <1>1, GatewayInvariance, KernelFollowsList, PTL
============================================================================
