------------------------------ MODULE Gateway ------------------------------
(***************************************************************************)
(* The threads of the gateway around the client list: one per HTTP request *)
(* and one per ndsctl command (Handler), and the thread that times clients *)
(* out (Checker).  They share the list under client_list_mutex and, while  *)
(* they hold it, run iptables commands that put a client's three mangle    *)
(* rules in or out of the kernel.                                          *)
(*                                                                         *)
(* A step is what a thread does between two points where another thread,   *)
(* or the kernel, can see a difference: a critical section that runs no    *)
(* command is one step; one that does is split at each command.  Traffic   *)
(* control is off (its default), so iptables_fw_access() runs three        *)
(* commands.                                                               *)
(***************************************************************************)
EXTENDS ClientList

CONSTANTS
    Handler, Checker,
    CommandsMayFail,    \* may an iptables command return a nonzero status?
    MaxCopies           \* bound of the model: copies of one rule in the kernel

ASSUME ThreadAssumption == Checker \notin Handler /\ NULL \notin Handler \cup {Checker}
ASSUME FailAssumption == CommandsMayFail \in BOOLEAN /\ MaxCopies \in Nat

Thread == Handler \cup {Checker}

VARIABLES
    client_list_mutex,  \* the thread that holds it, or NULL
    pc,                 \* where each thread is
    req,                \* the request a handler serves: its kind, ip and mac
    ptr,                \* each thread's t_client pointer (the Checker's cp1)
    todo,               \* commands the holder of the mutex has still to run
    rules,              \* how often the kernel holds each mangle rule
    timedOut            \* clients the next pass of the Checker will find idle
                        \* or connected for too long

vars == <<list, client, client_arr, client_count,
          client_list_mutex, pc, req, ptr, todo, rules, timedOut>>

Kind == {"splash", "auth", "deny", "ndsctl_auth", "ndsctl_deauth"}
NoRequest == [kind |-> NULL, ip |-> NULL, mac |-> NULL]

\* The mangle rules of a client: its upload mark, its download mark, and the
\* download counter, which names the ip alone.
Rule == ({"ndsOUT"} \X IP \X MAC \X Slot)
        \cup ({"ndsINC MARK"} \X IP \X Slot)
        \cup ({"ndsINC ACCEPT"} \X IP)

AccessRules(c) == << <<"ndsOUT", c.ip, c.mac, c.idx>>,
                     <<"ndsINC MARK", c.ip, c.idx>>,
                     <<"ndsINC ACCEPT", c.ip>> >>

GInit ==
        /\ client_list_init
        /\ client_list_mutex = NULL
        /\ pc = [t \in Thread |-> "idle"]
        /\ req = [t \in Handler |-> NoRequest]
        /\ ptr = [t \in Thread |-> NULL]
        /\ todo = <<>>
        /\ rules = [r \in Rule |-> 0]
        /\ timedOut = {}

----------------------------------------------------------------------------
(* Moving a thread. *)

Goto(t, l) == pc' = [pc EXCEPT ![t] = l]
Point(t, n) == ptr' = [ptr EXCEPT ![t] = n]

\* The handler answers, or gives up, and its thread ends.
Done(t) == /\ Goto(t, "idle")
           /\ Point(t, NULL)
           /\ req' = [req EXCEPT ![t] = NoRequest]

Take(t) == client_list_mutex = NULL /\ client_list_mutex' = t
Release(t) == client_list_mutex = t /\ client_list_mutex' = NULL
\* Locked and unlocked again within the step.
Within == client_list_mutex = NULL /\ UNCHANGED client_list_mutex

Delete(n) == /\ client_list_delete(n)
             /\ timedOut' = timedOut \ {n}

----------------------------------------------------------------------------
(* The firewall. *)

\* A wrong AccessCommands: the download counter is left behind.
AccessCommandsKeepCounter(action, c) ==
    LET r == AccessRules(c) IN
    IF action = "-A" THEN [i \in 1 .. 3 |-> [action |-> action, rule |-> r[i]]]
    ELSE [i \in 1 .. 2 |-> [action |-> action, rule |-> r[i]]]

\* iptables_fw_access() to authenticate ("-A") or deauthenticate ("-D").
AccessCommands(action, c) ==
    [i \in 1 .. 3 |-> [action |-> action, rule |-> AccessRules(c)[i]]]

\* -A adds one more copy of the rule, -D takes one away if there is one.
Applied(cmd) ==
    [rules EXCEPT ![cmd.rule] =
        IF cmd.action = "-A" THEN @ + 1 ELSE IF @ > 0 THEN @ - 1 ELSE 0]

\* One iptables_do_command(); nobody looks at its return code.
Command(t) ==
    /\ pc[t] = "fw"
    /\ todo # <<>>
    /\ todo' = Tail(todo)
    /\ \/ /\ Head(todo).action = "-A" => rules[Head(todo).rule] < MaxCopies
          /\ rules' = Applied(Head(todo))
       \/ CommandsMayFail /\ UNCHANGED rules
    /\ UNCHANGED <<clientVars, client_list_mutex, pc, req, ptr, timedOut>>

----------------------------------------------------------------------------
(* The requests of HTTP clients and of ndsctl. *)

\* Where the handler of each kind of request starts.
Entry(kind) == CASE kind = "deny" -> "lookup"
                 [] kind = "ndsctl_deauth" -> "search"
                 [] OTHER -> "add"

\* ndsctl deauth takes an ip or a mac, the others serve an ip.
Accept(t) ==
    /\ pc[t] = "idle"
    /\ \E kind \in Kind, arg \in IP \cup MAC :
         /\ arg \in MAC => kind = "ndsctl_deauth"
         /\ req' = [req EXCEPT ![t] = [kind |-> kind, ip |-> arg, mac |-> NULL]]
         /\ Goto(t, Entry(kind))
    /\ UNCHANGED <<clientVars, client_list_mutex, ptr, todo, rules, timedOut>>

\* client_list_add_client() under the mutex, for whatever the ARP cache holds
\* at the time.  The splash page keeps the pointer over the unlock; the http
\* callback only compares it with NULL, ndsctl copies ip and mac first.
AddClient(t) ==
    /\ pc[t] = "add"
    /\ Within
    /\ \E ip \in {req[t].ip}, mac \in MAC \cup {NULL} :
         LET found == IF mac = NULL THEN NULL ELSE client_list_find(ip, mac)' IN
         /\ client_list_add_client(ip, mac)
         /\ \/ /\ found = NULL
               /\ Done(t)
            \/ /\ found # NULL
               /\ \/ /\ req[t].kind = "splash"
                     /\ Goto(t, "serve")
                     /\ Point(t, found)
                     /\ UNCHANGED req
                  \/ /\ req[t].kind = "auth"
                     /\ Goto(t, "lookup")
                     /\ UNCHANGED <<req, ptr>>
                  \/ /\ req[t].kind = "ndsctl_auth"
                     /\ Goto(t, "act")
                     /\ req' = [req EXCEPT ![t].mac = mac]
                     /\ UNCHANGED ptr
    /\ UNCHANGED <<todo, rules, timedOut>>

\* The splash page is made from client->token and client->mac.
ServeSplash(t) ==
    /\ pc[t] = "serve"
    /\ Done(t)
    /\ UNCHANGED <<clientVars, client_list_mutex, todo, rules, timedOut>>

\* The first half of http_nodogsplash_callback_action(): a request without
\* token or redirect, without an ARP entry or without a client ends here.
Lookup(t) ==
    /\ pc[t] = "lookup"
    /\ \/ /\ Done(t)
          /\ UNCHANGED client_list_mutex
       \/ /\ Within
          /\ \E mac \in MAC :
               IF client_list_find(req[t].ip, mac) = NULL
               THEN Done(t)
               ELSE /\ req' = [req EXCEPT ![t].mac = mac]
                    /\ Goto(t, "verify")
                    /\ UNCHANGED ptr
    /\ UNCHANGED <<clientVars, todo, rules, timedOut>>

\* token_verify() asks the authentication server, without the mutex.
Verify(t) ==
    /\ pc[t] = "verify"
    /\ \/ Done(t)
       \/ Goto(t, "act") /\ UNCHANGED <<req, ptr>>
    /\ UNCHANGED <<clientVars, client_list_mutex, todo, rules, timedOut>>

\* ndsctl_deauth() looks its argument up as an ip, then as a mac.
Search(t) ==
    /\ pc[t] = "search"
    /\ Within
    /\ LET byIp == client_list_find_by_ip(req[t].ip)
           n == IF byIp # NULL THEN byIp ELSE client_list_find_by_mac(req[t].ip)
       IN IF n = NULL
          THEN Done(t)
          ELSE /\ req' = [req EXCEPT ![t].ip = client[n].ip, ![t].mac = client[n].mac]
               /\ Goto(t, "act")
               /\ UNCHANGED ptr
    /\ UNCHANGED <<clientVars, todo, rules, timedOut>>

----------------------------------------------------------------------------
(* auth_client_action(): the change a request asks for. *)

Deauthenticating(t) == req[t].kind \in {"deny", "ndsctl_deauth"}

\* A wrong ActMissing: the early return keeps the mutex.
ActMissingKeepsMutex(t) ==
    /\ Take(t)
    /\ Goto(t, "reply")
    /\ UNCHANGED <<clientVars, todo, timedOut>>

\* The client has gone since the thread last held the mutex; the caller is
\* not told.
ActMissing(t) ==
    /\ Within
    /\ Goto(t, "reply")
    /\ UNCHANGED <<clientVars, todo, timedOut>>

ActAuthenticate(t, n) ==
    /\ UNCHANGED timedOut
    /\ IF client[n].fw_connection_state # "AUTHENTICATED"
       THEN /\ Take(t)
            /\ SetAuthenticated(n)
            /\ todo' = AccessCommands("-A", client[n])
            /\ Goto(t, "fw")
       ELSE /\ Within
            /\ Goto(t, "reply")
            /\ UNCHANGED <<clientVars, todo>>

\* A wrong ActDeauthenticate: the client is unlisted before its rules go.
ActUnlistsFirst(t, n) ==
    /\ Take(t)
    /\ todo' = AccessCommands("-D", client[n])
    /\ Delete(n)
    /\ Goto(t, "fw")

ActDeauthenticate(t, n) ==
    IF client[n].fw_connection_state = "AUTHENTICATED"
    THEN /\ Take(t)
         /\ todo' = AccessCommands("-D", client[n])
         /\ Goto(t, "fw")
         /\ UNCHANGED <<clientVars, timedOut>>
    ELSE /\ Within
         /\ Delete(n)
         /\ Goto(t, "reply")
         /\ UNCHANGED todo

\* ptr stays NULL when nothing was done.
Act(t) ==
    LET n == client_list_find(req[t].ip, req[t].mac) IN
    /\ pc[t] = "act"
    /\ Point(t, n)
    /\ UNCHANGED <<req, rules>>
    /\ IF n = NULL THEN ActMissing(t)
       ELSE IF Deauthenticating(t) THEN ActDeauthenticate(t, n)
       ELSE ActAuthenticate(t, n)

\* iptables_fw_access() has returned.
FinishAct(t) ==
    /\ t # Checker /\ pc[t] = "fw" /\ todo = <<>>
    /\ IF Deauthenticating(t) THEN Delete(ptr[t])
                              ELSE UNCHANGED <<clientVars, timedOut>>
    /\ Release(t)
    /\ Goto(t, "reply")
    /\ UNCHANGED <<req, ptr, todo, rules>>

\* "Yes" on the ndsctl socket, the redirect or the deny page over HTTP.
Reply(t) ==
    /\ pc[t] = "reply"
    /\ Done(t)
    /\ UNCHANGED <<clientVars, client_list_mutex, todo, rules, timedOut>>

----------------------------------------------------------------------------
(* fw_refresh_client_list(), the pass of the time-out thread. *)

\* Time goes by: a listed client has sent nothing for clienttimeout check
\* intervals, or has been listed for clientforceout of them.
Expire(n) ==
    /\ n \in Listed \ timedOut
    /\ timedOut' = timedOut \cup {n}
    /\ UNCHANGED <<clientVars, client_list_mutex, pc, req, ptr, todo, rules>>

\* The thread sleeps for checkinterval and reads the counters.  When it cannot
\* read them it sleeps again, having changed nothing.
Wake ==
    /\ pc[Checker] = "idle"
    /\ Goto(Checker, "refresh")
    /\ UNCHANGED <<clientVars, client_list_mutex, req, ptr, todo, rules, timedOut>>

StartPass ==
    /\ pc[Checker] = "refresh"
    /\ Take(Checker)
    /\ Point(Checker, IF list = <<>> THEN NULL ELSE list[1])
    /\ Goto(Checker, "scan")
    /\ UNCHANGED <<clientVars, req, todo, rules, timedOut>>

\* cp1->next, read before cp1 is deleted.
NextOf(n) == LET i == CHOOSE i \in DOMAIN list : list[i] = n
             IN IF i = Len(list) THEN NULL ELSE list[i + 1]

KeepClient ==
    /\ pc[Checker] = "scan" /\ ptr[Checker] # NULL
    /\ ptr[Checker] \notin timedOut
    /\ Point(Checker, NextOf(ptr[Checker]))
    /\ UNCHANGED <<clientVars, client_list_mutex, pc, req, todo, rules, timedOut>>

TimeOutClient ==
    LET n == ptr[Checker] IN
    /\ pc[Checker] = "scan" /\ n # NULL
    /\ n \in timedOut
    /\ IF client[n].fw_connection_state = "AUTHENTICATED"
       THEN /\ todo' = AccessCommands("-D", client[n])
            /\ Goto(Checker, "fw")
            /\ UNCHANGED <<clientVars, ptr, timedOut>>
       ELSE /\ Delete(n)
            /\ Point(Checker, NextOf(n))
            /\ UNCHANGED <<pc, todo>>
    /\ UNCHANGED <<client_list_mutex, req, rules>>

FinishTimeOut ==
    LET n == ptr[Checker] IN
    /\ pc[Checker] = "fw" /\ todo = <<>>
    /\ Delete(n)
    /\ Point(Checker, NextOf(n))
    /\ Goto(Checker, "scan")
    /\ UNCHANGED <<client_list_mutex, req, todo, rules>>

\* A wrong EndPass: the mutex is kept.
EndPassKeepsMutex ==
    /\ pc[Checker] = "scan" /\ ptr[Checker] = NULL
    /\ Goto(Checker, "idle")
    /\ UNCHANGED <<clientVars, client_list_mutex, req, ptr, todo, rules, timedOut>>

EndPass ==
    /\ pc[Checker] = "scan" /\ ptr[Checker] = NULL
    /\ Release(Checker)
    /\ Goto(Checker, "idle")
    /\ UNCHANGED <<clientVars, req, ptr, todo, rules, timedOut>>

----------------------------------------------------------------------------
Serve(t) == \/ AddClient(t) \/ ServeSplash(t) \/ Lookup(t) \/ Verify(t)
            \/ Search(t) \/ Act(t) \/ FinishAct(t) \/ Reply(t)

Check == \/ Wake \/ StartPass \/ KeepClient \/ TimeOutClient
         \/ FinishTimeOut \/ EndPass

GNext == \/ \E t \in Handler : Accept(t) \/ Serve(t)
         \/ \E t \in Thread : Command(t)
         \/ Check
         \/ \E n \in Node : Expire(n)

\* A thread that can run does, so the counters are readable in the end; and a
\* thread that waits for the mutex gets it if it is free again and again.
Fairness ==
    /\ \A t \in Handler : SF_vars(Serve(t)) /\ WF_vars(Command(t))
    /\ WF_vars(Check) /\ SF_vars(StartPass) /\ WF_vars(Command(Checker))

GSpec == GInit /\ [][GNext]_vars
FairSpec == GSpec /\ Fairness

----------------------------------------------------------------------------
GTypeOK ==
    /\ TypeOK
    /\ client_list_mutex \in Thread \cup {NULL}
    /\ pc \in [Thread -> {"idle", "add", "serve", "lookup", "verify", "search",
                          "act", "fw", "reply", "refresh", "scan"}]
    /\ req \in [Handler -> [kind : Kind \cup {NULL}, ip : IP \cup MAC \cup {NULL},
                            mac : MAC \cup {NULL}]]
    /\ ptr \in [Thread -> Node \cup {NULL}]
    /\ todo \in Seq([action : {"-A", "-D"}, rule : Rule])
    /\ rules \in [Rule -> 0 .. MaxCopies]
    /\ timedOut \subseteq Node

Authenticated == {n \in Listed : client[n].fw_connection_state = "AUTHENTICATED"}

\* The kernel and the list agree whenever nobody is changing them: each rule
\* is there once for every authenticated client that needs it, in whatever
\* order requests, denials and time-outs came ("Alter the firewall rules and
\* client list accordingly", auth.c:90-92).
RulesMatchList ==
    client_list_mutex = NULL =>
        \A r \in Rule : rules[r] =
            Cardinality({n \in Authenticated :
                            \E i \in 1 .. 3 : AccessRules(client[n])[i] = r})

\* Nobody has access who is not a listed, authenticated client, not even
\* while a client is being removed: the rules go before the list entry.
NoAccessWithoutSession ==
    \A ip \in IP, mac \in MAC, i \in Slot :
        rules[<<"ndsOUT", ip, mac, i>>] > 0 =>
            \E n \in Authenticated : AccessRules(client[n])[1] = <<"ndsOUT", ip, mac, i>>

\* Two clients with access never carry the same mark, although slots are
\* reused: the upload marks in the kernel name different slots.
MarksDistinct ==
    \A r, q \in {"ndsOUT"} \X IP \X MAC \X Slot :
        rules[r] > 0 /\ rules[q] > 0 /\ r[4] = q[4] => r = q

\* The comment of http_nodogsplash_add_client(): the pointer it returns is
\* the "client list entry for this client" (http.c:399-405) when the splash
\* page is made from it.
PointerToListEntry ==
    \A t \in Handler : pc[t] = "serve" =>
        ptr[t] \in Listed /\ client[ptr[t]].ip = req[t].ip

\* ndsctl prints "Client %s authenticated." for the "Yes" it is sent; so the
\* client was found and its authentication was not skipped.
YesMeansAuthenticated ==
    \A t \in Handler :
        pc[t] = "reply" /\ req[t].kind = "ndsctl_auth" => ptr[t] # NULL

\* A client that timed out is removed in the end, whatever the other threads
\* are doing (firewall.c:142-145).
TimedOutRemoved == \A n \in Node : n \in timedOut ~> n \notin timedOut

\* Every request is answered: no handler waits for ever.
RequestsFinish == \A t \in Handler : pc[t] # "idle" ~> pc[t] = "idle"
============================================================================
