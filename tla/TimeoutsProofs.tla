--------------------------- MODULE TimeoutsProofs ---------------------------
(***************************************************************************)
(* Proofs about Timeouts, for every number of clients and addresses and    *)
(* every setting of the intervals: how long a client may stay listed after *)
(* it was added and after it was last active, and that nobody is removed   *)
(* as idle before its time.                                                *)
(***************************************************************************)
EXTENDS Timeouts, ClientListProofs

----------------------------------------------------------------------------
(* The inductive invariant. *)

\* A pass is due when the thread wakes and ends at most MaxDelay later.
Clock == /\ now <= wakeAt + MaxDelay
         /\ wakeAt <= now + checkinterval
         /\ phase # "asleep" => wakeAt <= now
         /\ phase # "lines" => lines = {}
         /\ phase = "scan" => cursor \in Listed \cup {NULL}
         /\ short => phase = "lines" /\ misses < MaxMisses

\* No time stamp of a client lies in the future.
StampsPast == \A n \in Listed : /\ added_time[n] <= now
                                /\ last_updated[n] <= now
                                /\ lastSeen[n] <= now

\* The counter of a rule belongs to an authenticated client.
CountersOwned ==
    \A k \in IP \X MAC : bytes[k] >= 0 =>
        \E n \in Listed : KeyOf(n) = k /\ client[n].fw_connection_state = "AUTHENTICATED"

\* Two listed clients have two addresses, or lines go wrong for both.
Apart == \A m, n \in Listed : client[m].ip = client[n].ip /\ m # n => m \in misread

TInv == IInv /\ TTypeOK /\ Clock /\ StampsPast /\ CountersOwned /\ Apart

\* The longest time from one waking of the thread to the next.
Period == checkinterval + MaxDelay

\* m missed passes take 1 + m periods.
Periods(m) == Period * (1 + m)

\* The clients that the scan has left behind: the one at position i of the list.
Passed(i) == cursor = NULL \/ \E j \in DOMAIN list : list[j] = cursor /\ i < j

\* A client whose time f[n] + L is over is met by the scan after at most
\* 1 + MaxMisses periods: if it was listed when a scan ended, its time was not
\* over when that pass began.
Due(f, L) ==
    /\ phase # "scan" =>
          \A n \in Listed : wakeAt < f[n] + L + Periods(misses)
    /\ phase = "scan" =>
          /\ \A n \in Listed : wakeAt < f[n] + L + Periods(MaxMisses)
          /\ \A i \in DOMAIN list : Passed(i) => wakeAt < f[list[i]] + L

\* The time for which the activity that counter n tells of can have gone
\* unread, before the waking that this pass belongs to: none in a pass that
\* read every counter and no line of n tells of it.
Behind == IF phase = "scan" THEN Period * misses
          ELSE IF phase = "lines" /\ ~ short THEN 0 ELSE Periods(misses)

\* The activity a client's counter tells of came after its counter was last
\* read: it is at most one waking of the thread and the missed passes old.
NoticedFor(n) ==
    LET counter == bytes[KeyOf(n)]
        own == {l \in lines : l[1] = client[n].ip}
    IN  /\ last_updated[n] <= lastSeen[n] + Lateness
        /\ counter > outgoing[n] /\ (\A l \in own : counter > l[2]) =>
              wakeAt <= lastSeen[n] + Behind
        /\ \A l \in own : l[2] > outgoing[n] =>
              wakeAt <= lastSeen[n] + Periods(misses)

Noticed == \A n \in Listed \ misread : NoticedFor(n)

\* A client's activity is credited, or about to be, or not read yet; no line
\* and no recorded counter is ahead of the kernel's.
CreditedFor(n) ==
    LET counter == bytes[KeyOf(n)]
        own == {l \in lines : l[1] = client[n].ip}
    IN  /\ outgoing[n] <= counter \/ outgoing[n] = 0
        /\ \A l \in own : l[2] <= counter
        /\ n \in unread => counter > outgoing[n] /\ \A l \in own : l[2] < counter
        /\ \/ lastSeen[n] <= last_updated[n]
           \/ n \in unread
           \/ \E l \in own : l[2] > outgoing[n]

Credited == /\ unread \subseteq Listed
            /\ \A n \in Listed \ misread : CreditedFor(n)

----------------------------------------------------------------------------
(* What the operations do to the list and to the fields of its clients. *)

LEMMA ConstantTypes ==
    /\ checkinterval \in Nat /\ checkinterval > 0
    /\ clienttimeout \in Nat /\ clientforceout \in Nat /\ MaxDelay \in Nat
    /\ MaxMisses \in Nat /\ MaxTime \in Nat /\ MaxBytes \in Nat
    /\ IdleLimit \in Nat /\ ForceLimit \in Nat /\ Period \in Nat
    /\ clienttimeout > 0 => IdleLimit > 0
    /\ clientforceout > 0 => ForceLimit > 0
<1>1. \A a, b \in Nat : a * b \in Nat /\ (a > 0 /\ b > 0 => a * b > 0)
  OBVIOUS
<1>2. /\ checkinterval \in Nat /\ checkinterval > 0
      /\ clienttimeout \in Nat /\ clientforceout \in Nat /\ MaxDelay \in Nat
      /\ MaxMisses \in Nat /\ MaxTime \in Nat /\ MaxBytes \in Nat
  BY TimeAssumption
<1> QED
  BY <1>1, <1>2 DEF IdleLimit, ForceLimit, Period

LEMMA ListedAreNodes ==
    ASSUME list \in Seq(Node)
    PROVE  /\ Listed \subseteq Node
           /\ Len(list) \in Nat /\ DOMAIN list = 1 .. Len(list)
           /\ \A i \in DOMAIN list : list[i] \in Listed
  BY LenProperties, ElementOfSeq DEF Listed

\* client_list_add_client() adds at most one client and leaves the others.
LEMMA AddEffect ==
    ASSUME IInv, NEW ip \in IP, NEW mac \in MAC, client_list_add_client(ip, mac)
    PROVE  /\ IInv'
           /\ Listed \subseteq Listed'
           /\ \A n \in Listed : client'[n] = client[n]
<1>0. list \in Seq(Node) /\ Listed \subseteq Node /\ client \in [Node -> Client]
  BY ListedAreNodes DEF IInv, TypeOK
<1>1. CASE UNCHANGED clientVars
  <2>1. IInv'
    BY <1>1, StepIInv
  <2> QED
    BY <1>1, <2>1 DEF clientVars, Listed
<1>2. CASE client_list_append(ip, mac) /\ client_list_find(ip, mac) = NULL /\ ~ ListFull
  <2>1. \A n \in Listed : ~ (client[n].ip = ip /\ client[n].mac = mac)
    BY <1>0, <1>2, FindByKey, NullAssumption
  <2>2. IInv'
    BY <1>2, <2>1, AppendIInv
  <2>3. PICK n \in Node \ Listed :
           /\ client' = [client EXCEPT ![n] =
                  [ip |-> ip, mac |-> mac, idx |-> FreeSlot,
                   fw_connection_state |-> "PREAUTHENTICATED"]]
           /\ list' = Append(list, n)
    BY <1>2 DEF client_list_append
  <2>4. Listed' = Listed \cup {n}
    BY <1>0, <2>3, AppendEffect DEF IInv
  <2>5. \A m \in Listed : client'[m] = client[m]
    BY <1>0, <2>3
  <2> QED
    BY <2>2, <2>4, <2>5
<1> QED
  BY <1>1, <1>2 DEF client_list_add_client, AlreadyListed, client_list_append

\* client_list_delete() removes one client and leaves the others.
LEMMA DeleteEffect ==
    ASSUME IInv, NEW n \in Listed, client_list_delete(n)
    PROVE  /\ IInv'
           /\ Listed' = Listed \ {n}
           /\ \A m \in Listed' : client'[m] = client[m]
           /\ \E i \in DOMAIN list : list[i] = n /\ list' = RemoveAt(list, i)
<1>0. list \in Seq(Node) /\ Listed \subseteq Node /\ client \in [Node -> Client]
  BY ListedAreNodes DEF IInv, TypeOK
<1>1. IInv'
  BY DeleteIInv
<1>2. PICK i \in DOMAIN list : list[i] = n /\ list' = RemoveAt(list, i)
  BY DEF client_list_delete
<1>3. Listed' = Listed \ {n}
  BY <1>0, <1>2, RemoveEffect DEF IInv
<1>4. client' = [client EXCEPT ![n] = Blank]
  BY DEF client_list_delete, client_list_free_node
<1> QED
  BY <1>0, <1>1, <1>2, <1>3, <1>4

\* MakeAuthenticated changes the state of one listed client, the one with the
\* ip and mac, and nothing else.
LEMMA AuthenticateEffect ==
    ASSUME IInv, NEW ip \in IP, NEW mac \in MAC, MakeAuthenticated(ip, mac)
    PROVE  /\ IInv'
           /\ list' = list
           /\ Listed' = Listed
           /\ \A n \in Listed : client'[n].ip = client[n].ip /\ client'[n].mac = client[n].mac
           /\ \E n \in Listed : /\ client[n].ip = ip /\ client[n].mac = mac
                                /\ client[n].fw_connection_state # "AUTHENTICATED"
                                /\ client'[n].fw_connection_state = "AUTHENTICATED"
                                /\ \A m \in Listed \ {n} : client'[m] = client[m]
<1>0. list \in Seq(Node) /\ Listed \subseteq Node /\ client \in [Node -> Client]
  BY ListedAreNodes DEF IInv, TypeOK
<1> DEFINE n == client_list_find(ip, mac)
<1>1. /\ n \in Listed /\ client[n].ip = ip /\ client[n].mac = mac
      /\ client[n].fw_connection_state # "AUTHENTICATED" /\ SetAuthenticated(n)
  BY <1>0, FindByKey DEF MakeAuthenticated
<1> HIDE DEF n
<1>2. IInv'
  BY <1>1, AuthenticateIInv
<1>3. /\ list' = list
      /\ client' = [client EXCEPT ![n].fw_connection_state = "AUTHENTICATED"]
  BY <1>1 DEF SetAuthenticated
<1>4. Listed' = Listed
  BY <1>3 DEF Listed
<1>5. /\ client'[n].ip = client[n].ip /\ client'[n].mac = client[n].mac
      /\ client'[n].fw_connection_state = "AUTHENTICATED"
      /\ \A m \in Listed \ {n} : client'[m] = client[m]
  BY <1>0, <1>1, <1>3 DEF Client
<1> QED
  BY <1>1, <1>2, <1>3, <1>4, <1>5

\* A field of a client that was just added, and of one that stays.
LEMMA FreshFields ==
    ASSUME NEW T, NEW f \in [Node -> T], NEW v \in T, 0 \in T, Listed' \subseteq Node
    PROVE  /\ Fresh(f, v) \in [Node -> T]
           /\ \A n \in Listed' \ Listed : Fresh(f, v)[n] = v
           /\ \A n \in Listed' \cap Listed : Fresh(f, v)[n] = f[n]
  BY DEF Fresh

LEMMA KeysOfListed ==
    ASSUME IInv
    PROVE  /\ \A n \in Listed : KeyOf(n) \in IP \X MAC
           /\ \A m, n \in Listed : KeyOf(m) = KeyOf(n) => m = n
  BY DEF IInv, ListedHaveKeys, ClientsDistinct, KeyOf

----------------------------------------------------------------------------
(* Each step preserves the invariant. *)

LEMMA InitTInv == TInit => TInv
<1> SUFFICES ASSUME TInit PROVE TInv
  OBVIOUS
<1> USE DEF TInit
<1>1. IInv /\ TypeOK
  BY InitIInv DEF Init, IInv
<1>2. Listed = {}
  BY DEF client_list_init, Listed
<1>3. TTypeOK
  <2>1. short \in BOOLEAN
    OBVIOUS
  <2>2. misses \in 0 .. MaxMisses /\ wakeAt \in 0 .. MaxTime + checkinterval /\ now \in Time
    BY ConstantTypes DEF Time
  <2> QED
    BY <1>1, <2>1, <2>2, ConstantTypes DEF TTypeOK, Time
<1>4. Clock /\ StampsPast
  BY <1>2, ConstantTypes DEF Clock, StampsPast
<1>5. CountersOwned /\ Apart
  BY <1>2 DEF CountersOwned, Apart
<1> QED
  BY <1>1, <1>3, <1>4, <1>5 DEF TInv

\* Steps that leave the list alone.
LEMMA ListKept ==
    ASSUME IInv, UNCHANGED clientVars
    PROVE  /\ IInv' /\ TypeOK'
           /\ list' = list /\ client' = client
           /\ Listed' = Listed
           /\ \A n : KeyOf(n)' = KeyOf(n)
<1>1. IInv'
  BY StepIInv
<1> QED
  BY <1>1 DEF clientVars, Listed, KeyOf, IInv

LEMMA ArriveTInv ==
    ASSUME TInv, NEW ip \in IP, NEW mac \in MAC, Arrive(ip, mac)
    PROVE  TInv'
<1> USE DEF TInv, Arrive, passVars
<1>1. /\ IInv' /\ Listed \subseteq Listed' /\ \A n \in Listed : client'[n] = client[n]
  BY AddEffect
<1>2. TypeOK' /\ Listed' \subseteq Node
  BY <1>1, ListedAreNodes DEF IInv, TypeOK, Listed
<1>3. now \in Time /\ 0 \in Time /\ 0 \in 0 .. MaxBytes
  BY ConstantTypes DEF TTypeOK, Time
<1>4. /\ added_time' \in [Node -> Time] /\ last_updated' \in [Node -> Time]
      /\ lastSeen' \in [Node -> Time] /\ outgoing' \in [Node -> 0 .. MaxBytes]
  BY <1>2, <1>3, FreshFields DEF TTypeOK
<1>5. TTypeOK'
  <2>1. misread' \subseteq Node
    BY <1>2 DEF TTypeOK, MixedUp
  <2> QED
    BY <1>2, <1>4, <2>1 DEF TTypeOK
<1>6. Clock'
  BY <1>1 DEF Clock
<1>7. StampsPast'
  <2>1. \A n \in Listed' : \/ added_time'[n] = now /\ last_updated'[n] = now /\ lastSeen'[n] = now
                           \/ /\ n \in Listed
                              /\ added_time'[n] = added_time[n]
                              /\ last_updated'[n] = last_updated[n]
                              /\ lastSeen'[n] = lastSeen[n]
    BY <1>2 DEF Fresh
  <2> QED
    BY <1>3, <2>1 DEF StampsPast, Time
<1>8. CountersOwned'
  BY <1>1 DEF CountersOwned, KeyOf
<1>9. Apart'
  BY DEF Apart, MixedUp
<1> QED
  BY <1>1, <1>5, <1>6, <1>7, <1>8, <1>9

LEMMA AuthenticateTInv ==
    ASSUME TInv, NEW ip \in IP, NEW mac \in MAC, Authenticate(ip, mac)
    PROVE  TInv'
<1> USE DEF TInv, Authenticate, passVars, timeVars
<1>1. /\ IInv' /\ Listed' = Listed
      /\ \A n \in Listed : client'[n].ip = client[n].ip /\ client'[n].mac = client[n].mac
  BY AuthenticateEffect
<1>2. PICK n \in Listed : /\ client[n].ip = ip /\ client[n].mac = mac
                          /\ client'[n].fw_connection_state = "AUTHENTICATED"
                          /\ \A m \in Listed \ {n} : client'[m] = client[m]
  BY AuthenticateEffect
<1>3. bytes' \in [IP \X MAC -> -1 .. MaxBytes]
  BY ConstantTypes DEF TTypeOK
<1>4. TTypeOK'
  BY <1>1, <1>3 DEF TTypeOK, IInv
<1>5. Clock' /\ StampsPast'
  BY <1>1 DEF Clock, StampsPast
<1>6. CountersOwned'
  <2> SUFFICES ASSUME NEW k \in IP \X MAC, bytes'[k] >= 0
               PROVE  \E m \in Listed : /\ <<client'[m].ip, client'[m].mac>> = k
                                        /\ client'[m].fw_connection_state = "AUTHENTICATED"
    BY <1>1 DEF CountersOwned, KeyOf
  <2>1. CASE k = <<ip, mac>>
    BY <1>1, <1>2, <2>1
  <2>2. CASE k # <<ip, mac>>
    <3>1. bytes[k] >= 0
      BY <2>2 DEF TTypeOK
    <3>2. PICK m \in Listed : KeyOf(m) = k /\ client[m].fw_connection_state = "AUTHENTICATED"
      BY <3>1 DEF CountersOwned
    <3>3. m # n
      BY <1>2, <2>2, <3>2 DEF KeyOf
    <3> QED
      BY <1>2, <3>2, <3>3 DEF KeyOf
  <2> QED
    BY <2>1, <2>2
<1>7. Apart'
  BY <1>1 DEF Apart
<1> QED
  BY <1>1, <1>4, <1>5, <1>6, <1>7

\* Removing a client, in a deauthentication or in a scan.
LEMMA RemovedTInv ==
    ASSUME TInv, NEW n \in Listed, Removed(n), UNCHANGED <<now, phase, lines, short, wakeAt, misses>>,
           cursor' \in Node \cup {NULL},
           phase = "scan" => cursor' \in Listed' \cup {NULL}
    PROVE  TInv'
<1> USE DEF TInv, Removed
<1>1. IInv' /\ Listed' = Listed \ {n} /\ \A m \in Listed' : client'[m] = client[m]
  BY DeleteEffect
<1>2. TypeOK' /\ Listed' \subseteq Node
  BY <1>1, ListedAreNodes DEF IInv, TypeOK, Listed
<1>3. 0 \in Time /\ 0 \in 0 .. MaxBytes
  BY ConstantTypes DEF Time
<1>4. /\ added_time' \in [Node -> Time] /\ last_updated' \in [Node -> Time]
      /\ lastSeen' \in [Node -> Time] /\ outgoing' \in [Node -> 0 .. MaxBytes]
  BY <1>2, <1>3, FreshFields DEF TTypeOK
<1>5. KeyOf(n) \in IP \X MAC
  BY KeysOfListed
<1>6. bytes' \in [IP \X MAC -> -1 .. MaxBytes]
  BY <1>5, ConstantTypes DEF TTypeOK
<1>7. TTypeOK'
  BY <1>2, <1>4, <1>6 DEF TTypeOK
<1>8. Clock'
  BY DEF Clock
<1>9. StampsPast'
  <2>1. \A m \in Listed' : /\ m \in Listed
                           /\ added_time'[m] = added_time[m]
                           /\ last_updated'[m] = last_updated[m]
                           /\ lastSeen'[m] = lastSeen[m]
    BY <1>1, <1>2 DEF Fresh
  <2> QED
    BY <2>1 DEF StampsPast
<1>10. CountersOwned'
  <2> SUFFICES ASSUME NEW k \in IP \X MAC, bytes'[k] >= 0
               PROVE  \E m \in Listed' : /\ <<client'[m].ip, client'[m].mac>> = k
                                         /\ client'[m].fw_connection_state = "AUTHENTICATED"
    BY DEF CountersOwned, KeyOf
  <2>1. k # KeyOf(n) /\ bytes[k] >= 0
    BY <1>5 DEF TTypeOK
  <2>2. PICK m \in Listed : KeyOf(m) = k /\ client[m].fw_connection_state = "AUTHENTICATED"
    BY <2>1 DEF CountersOwned
  <2>3. m \in Listed'
    BY <1>1, <2>1, <2>2
  <2> QED
    BY <1>1, <2>2, <2>3 DEF KeyOf
<1>11. Apart'
  BY <1>1 DEF Apart
<1> QED
  BY <1>1, <1>7, <1>8, <1>9, <1>10, <1>11

\* The client the scan is at, and the next one.
LEMMA NextOfListed ==
    ASSUME IInv, NEW n \in Listed
    PROVE  \E i \in 1 .. Len(list) :
              /\ list[i] = n
              /\ \A j \in 1 .. Len(list) : list[j] = n => j = i
              /\ i = Len(list) => NextOf(n) = NULL
              /\ i # Len(list) => i + 1 \in 1 .. Len(list) /\ NextOf(n) = list[i + 1]
<1>0. Len(list) \in Nat /\ DOMAIN list = 1 .. Len(list)
  BY ListedAreNodes DEF IInv, TypeOK
<1>1. PICK i \in DOMAIN list : list[i] = n
  BY DEF Listed
<1>2. \A j \in DOMAIN list : list[j] = n => j = i
  BY <1>1 DEF IInv, ListInjective
<1> DEFINE c == CHOOSE j \in DOMAIN list : list[j] = n
<1>3. c = i
  BY <1>1, <1>2
<1>4. NextOf(n) = IF c = Len(list) THEN NULL ELSE list[c + 1]
  BY Zenon DEF NextOf
<1> HIDE DEF c
<1>5. /\ i = Len(list) => NextOf(n) = NULL
      /\ i # Len(list) => i + 1 \in 1 .. Len(list) /\ NextOf(n) = list[i + 1]
  BY <1>0, <1>3, <1>4
<1> QED
  BY <1>0, <1>1, <1>2, <1>5

LEMMA NextOfStaysListed ==
    ASSUME IInv, NEW n \in Listed
    PROVE  NextOf(n) \in (Listed \ {n}) \cup {NULL}
<1>0. \A i \in 1 .. Len(list) : list[i] \in Listed
  BY ListedAreNodes DEF IInv, TypeOK
<1>1. PICK i \in 1 .. Len(list) :
              /\ list[i] = n
              /\ \A j \in 1 .. Len(list) : list[j] = n => j = i
              /\ i = Len(list) => NextOf(n) = NULL
              /\ i # Len(list) => i + 1 \in 1 .. Len(list) /\ NextOf(n) = list[i + 1]
  BY NextOfListed
<1>2. i \in Nat /\ i + 1 # i
  BY ListedAreNodes DEF IInv, TypeOK
<1> QED
  BY <1>0, <1>1, <1>2

LEMMA ScanTInv ==
    ASSUME TInv, ScanClient
    PROVE  TInv'
<1> USE DEF TInv, ScanClient
<1>0. /\ cursor \in Listed /\ Listed \subseteq Node /\ IInv
      /\ NextOf(cursor) \in (Listed \ {cursor}) \cup {NULL}
  <2>1. cursor \in Listed /\ IInv
    BY DEF Clock
  <2> QED
    BY <2>1, NextOfStaysListed, ListedAreNodes DEF IInv, TypeOK
<1>1. CASE Idle(cursor) \/ Forced(cursor)
  <2>1. Removed(cursor)
    BY <1>1
  <2>2. Listed' = Listed \ {cursor}
    BY <1>0, <2>1, DeleteEffect DEF Removed
  <2> QED
    BY <1>0, <2>1, <2>2, RemovedTInv
<1>2. CASE ~ (Idle(cursor) \/ Forced(cursor))
  <2>1. /\ IInv' /\ TypeOK' /\ Listed' = Listed /\ list' = list /\ client' = client
        /\ added_time' = added_time /\ last_updated' = last_updated /\ outgoing' = outgoing
        /\ bytes' = bytes /\ lastSeen' = lastSeen /\ unread' = unread /\ misread' = misread
    BY <1>2, ListKept DEF timeVars, trafficVars
  <2>2. TTypeOK' /\ Clock'
    BY <1>0, <2>1 DEF TTypeOK, Clock
  <2>3. StampsPast' /\ CountersOwned' /\ Apart'
    BY <2>1 DEF StampsPast, CountersOwned, KeyOf, Apart
  <2> QED
    BY <2>1, <2>2, <2>3
<1> QED
  BY <1>1, <1>2

\* Reading counters, applying lines, missing a pass, the clock.
LEMMA PassTInv ==
    ASSUME TInv, \/ Tick \/ ReadCounters \/ MissCounters \/ ApplyLine \/ StartScan \/ EndScan
                 \/ UNCHANGED vars
    PROVE  TInv'
<1> USE DEF TInv
<1>0. /\ IInv' /\ TypeOK' /\ Listed' = Listed /\ list' = list /\ client' = client
      /\ UNCHANGED clientVars
  BY ListKept DEF Tick, ReadCounters, MissCounters, ApplyLine, StartScan, EndScan, vars
<1>a. /\ now \in Nat /\ wakeAt \in Nat /\ misses \in 0 .. MaxMisses
      /\ checkinterval \in Nat /\ MaxDelay \in Nat /\ MaxMisses \in Nat /\ MaxTime \in Nat
      /\ MaxBytes \in Nat
  BY ConstantTypes DEF TTypeOK, Time
<1>b. ASSUME UNCHANGED <<bytes, misread>> PROVE CountersOwned' /\ Apart'
  BY <1>0, <1>b DEF CountersOwned, KeyOf, Apart
<1>1. CASE Tick
  <2>1. TTypeOK' /\ Clock'
    BY <1>0, <1>1, <1>a DEF TTypeOK, Clock, Tick, Time, timeVars, passVars, trafficVars
  <2>2. /\ now' = now + 1 /\ Listed' = Listed /\ added_time' = added_time
        /\ last_updated' = last_updated /\ lastSeen' = lastSeen
    BY <1>0, <1>1 DEF Tick, timeVars, trafficVars
  <2>3. \A n \in Listed : {added_time[n], last_updated[n], lastSeen[n]} \subseteq Int
    BY <1>0, <1>a, ListedAreNodes DEF TTypeOK, Time, IInv, TypeOK
  <2>4. StampsPast'
    BY <1>a, <2>2, <2>3 DEF StampsPast
  <2> QED
    BY <1>0, <1>1, <1>b, <2>1, <2>4 DEF Tick, trafficVars
<1>2. CASE ReadCounters
  <2>1. lines' \subseteq IP \X (0 .. MaxBytes)
    <3> DEFINE whole == {<<k[1], bytes[k]>> : k \in {k \in IP \X MAC : bytes[k] >= 0}}
    <3>1. lines' \subseteq whole
      BY <1>2 DEF ReadCounters
    <3>2. whole \subseteq IP \X (0 .. MaxBytes)
      <4> SUFFICES ASSUME NEW k \in IP \X MAC, bytes[k] >= 0
                   PROVE  <<k[1], bytes[k]>> \in IP \X (0 .. MaxBytes)
        OBVIOUS
      <4> QED
        BY <1>a DEF TTypeOK
    <3> QED
      BY <3>1, <3>2
  <2>2. TTypeOK' /\ Clock'
    BY <1>0, <1>2, <1>a, <2>1 DEF TTypeOK, Clock, ReadCounters, timeVars
  <2>3. StampsPast'
    BY <1>0, <1>2 DEF StampsPast, ReadCounters, timeVars
  <2> QED
    BY <1>0, <1>2, <1>b, <2>2, <2>3 DEF ReadCounters
<1>3. CASE MissCounters
  <2>a. /\ phase' = "asleep" /\ wakeAt' \in 0 .. MaxTime + checkinterval
        /\ misses' \in 0 .. MaxMisses /\ short' = FALSE
    BY <1>3, <1>a DEF TTypeOK, MissCounters, Time
  <2>b. UNCHANGED <<now, lines, cursor, added_time, last_updated, outgoing, trafficVars>>
    BY <1>3 DEF MissCounters, timeVars
  <2>c. TTypeOK'
    BY <1>0, <2>a, <2>b DEF TTypeOK, trafficVars
  <2>d. Clock'
    <3>1. lines = {} /\ wakeAt' = now + checkinterval
      BY <1>3 DEF MissCounters, Clock
    <3> QED
      BY <1>0, <1>a, <2>a, <2>b, <3>1 DEF Clock
  <2>1. TTypeOK' /\ Clock'
    BY <2>c, <2>d
  <2>2. StampsPast'
    BY <1>0, <1>3 DEF StampsPast, MissCounters, timeVars, trafficVars
  <2> QED
    BY <1>0, <1>3, <1>b, <2>1, <2>2 DEF MissCounters, trafficVars
<1>4. CASE ApplyLine
  <2>1. PICK l \in lines :
         /\ lines' = lines \ {l}
         /\ LET n == client_list_find_by_ip(l[1]) IN
            IF n # NULL THEN Credit(n, l[2]) ELSE UNCHANGED <<outgoing, last_updated>>
    BY <1>4 DEF ApplyLine
  <2>2. /\ outgoing' \in [Node -> 0 .. MaxBytes]
        /\ last_updated' \in [Node -> Time]
        /\ \A n \in Node : last_updated'[n] \in {last_updated[n], now}
    <3> DEFINE n == client_list_find_by_ip(l[1])
    <3>1. l[2] \in 0 .. MaxBytes /\ now \in Time
      BY DEF TTypeOK
    <3>2. CASE UNCHANGED <<outgoing, last_updated>>
      BY <3>2 DEF TTypeOK
    <3>3. CASE /\ outgoing' = [outgoing EXCEPT ![n] = l[2]]
               /\ last_updated' = [last_updated EXCEPT ![n] = now]
      <4> HIDE DEF n
      <4> QED
        BY <3>1, <3>3 DEF TTypeOK
    <3> QED
      BY <2>1, <3>2, <3>3 DEF Credit
  <2>3. TTypeOK' /\ Clock'
    BY <1>0, <1>4, <2>1, <2>2 DEF TTypeOK, Clock, ApplyLine, trafficVars
  <2>4. StampsPast'
    <3>1. /\ Listed \subseteq Node /\ now' = now /\ added_time' = added_time
          /\ lastSeen' = lastSeen
      BY <1>4, ListedAreNodes DEF IInv, TypeOK, ApplyLine, trafficVars
    <3> QED
      BY <1>0, <1>a, <2>2, <3>1 DEF StampsPast
  <2> QED
    BY <1>0, <1>4, <1>b, <2>3, <2>4 DEF ApplyLine, trafficVars
<1>5. CASE StartScan
  <2>1. cursor' \in Listed \cup {NULL}
    <3>1. list # <<>> => 1 \in DOMAIN list
      BY ListedAreNodes, EmptySeq DEF IInv, TypeOK
    <3> QED
      BY <1>5, <3>1, ListedAreNodes DEF StartScan, IInv, TypeOK
  <2>2. Listed \subseteq Node
    BY ListedAreNodes DEF IInv, TypeOK
  <2>a. misses' \in 0 .. MaxMisses
    <3>1. short => misses < MaxMisses
      BY DEF Clock
    <3> QED
      BY <1>5, <1>a, <3>1 DEF StartScan
  <2>3. TTypeOK' /\ Clock'
    <3>1. /\ phase' = "scan" /\ short' = FALSE /\ phase = "lines" /\ lines = {}
          /\ UNCHANGED <<now, wakeAt, lines, added_time, last_updated, outgoing, trafficVars>>
      BY <1>5 DEF StartScan, timeVars
    <3> QED
      BY <1>0, <1>a, <2>1, <2>2, <2>a, <3>1 DEF TTypeOK, Clock, trafficVars
  <2>4. StampsPast'
    BY <1>0, <1>5 DEF StampsPast, StartScan, timeVars, trafficVars
  <2> QED
    BY <1>0, <1>5, <1>b, <2>3, <2>4 DEF StartScan, trafficVars
<1>6. CASE EndScan
  <2>1. TTypeOK' /\ Clock'
    BY <1>0, <1>6, <1>a DEF TTypeOK, Clock, EndScan, timeVars, trafficVars, Time
  <2>2. StampsPast'
    BY <1>0, <1>6 DEF StampsPast, EndScan, timeVars, trafficVars
  <2> QED
    BY <1>0, <1>6, <1>b, <2>1, <2>2 DEF EndScan, trafficVars
<1>7. CASE UNCHANGED vars
  <2>1. TTypeOK' /\ Clock' /\ StampsPast'
    BY <1>0, <1>7 DEF TTypeOK, Clock, StampsPast, vars, timeVars, passVars, trafficVars
  <2> QED
    BY <1>0, <1>7, <1>b, <2>1 DEF vars, trafficVars
<1> QED
  BY <1>1, <1>2, <1>3, <1>4, <1>5, <1>6, <1>7

LEMMA TrafficTInv ==
    ASSUME TInv, NEW n \in Node, Traffic(n)
    PROVE  TInv'
<1> USE DEF TInv, Traffic
<1>0. /\ IInv' /\ TypeOK' /\ Listed' = Listed /\ list' = list /\ client' = client
  BY ListKept
<1>1. /\ KeyOf(n) \in IP \X MAC /\ n \in Listed
      /\ bytes[KeyOf(n)] \in 0 .. MaxBytes - 1
      /\ bytes' = [bytes EXCEPT ![KeyOf(n)] = bytes[KeyOf(n)] + 1]
  BY KeysOfListed
<1>2. bytes' \in [IP \X MAC -> -1 .. MaxBytes]
  BY <1>1, ConstantTypes DEF TTypeOK
<1>3. TTypeOK' /\ Clock'
  BY <1>0, <1>2 DEF TTypeOK, Clock, passVars, timeVars
<1>4. StampsPast'
  <2>1. \A m \in Node : lastSeen'[m] \in {lastSeen[m], now}
    BY DEF TTypeOK
  <2>2. now \in Nat /\ Listed \subseteq Node
    BY ListedAreNodes, ConstantTypes DEF TTypeOK, Time, IInv, TypeOK
  <2> QED
    BY <1>0, <2>1, <2>2 DEF StampsPast, timeVars
<1>5. CountersOwned'
  <2> SUFFICES ASSUME NEW k \in IP \X MAC, bytes'[k] >= 0
               PROVE  bytes[k] >= 0
    BY <1>0 DEF CountersOwned, KeyOf
  <2> QED
    BY <1>1 DEF TTypeOK
<1>6. Apart'
  BY <1>0 DEF Apart
<1> QED
  BY <1>0, <1>3, <1>4, <1>5, <1>6

\* TInv is inductive.
LEMMA StepTInv == TInv /\ [TNext]_vars => TInv'
<1> SUFFICES ASSUME TInv, [TNext]_vars PROVE TInv'
  OBVIOUS
<1>1. ASSUME NEW n \in Node, Deauthenticate(n) PROVE TInv'
  BY <1>1, RemovedTInv DEF Deauthenticate, passVars, TInv, TTypeOK
<1> QED
  BY <1>1, ArriveTInv, AuthenticateTInv, TrafficTInv, ScanTInv, PassTInv DEF TNext

\* TInv holds throughout.
THEOREM TimeoutsInvariance == TSpec => []TInv
  BY InitTInv, StepTInv, PTL DEF TSpec

\* The variables keep their types.
THEOREM TimeoutsTypes == TSpec => []TTypeOK
<1>1. TInv => TTypeOK
  BY DEF TInv
<1> QED
  BY <1>1, TimeoutsInvariance, PTL

----------------------------------------------------------------------------
(* How long a client stays. *)

LEMMA PeriodsGrow ==
    /\ \A m \in Nat : /\ Periods(m) \in Nat
                      /\ Periods(m) >= Period
                      /\ Periods(m + 1) = Periods(m) + Period
    /\ \A m \in 0 .. MaxMisses : Periods(m) <= Periods(MaxMisses)
    /\ Periods(0) = Period
    /\ Lateness = MaxDelay + Periods(MaxMisses)
<1>0. Period \in Nat /\ MaxMisses \in Nat /\ MaxDelay \in Nat
  BY ConstantTypes
<1>1. \A p, m \in Nat : /\ p * (1 + m) \in Nat
                        /\ p * (1 + m) = p + p * m
                        /\ p * m \in Nat
                        /\ p * (1 + (m + 1)) = p * (1 + m) + p
  OBVIOUS
<1>2. \A p, m, k \in Nat : m <= k => p * m <= p * k
  <2> SUFFICES ASSUME NEW p \in Nat, NEW m \in Nat, NEW k \in Nat, m <= k
               PROVE  p * m <= p * k
    OBVIOUS
  <2>1. PICK d \in Nat : k = m + d
    BY k - m \in Nat, k = m + (k - m)
  <2>2. p * k = p * m + p * d /\ p * d \in Nat /\ p * m \in Nat
    BY <2>1
  <2> QED
    BY <2>2
<1>3. \A m \in 0 .. MaxMisses : Periods(m) <= Periods(MaxMisses)
  <2> SUFFICES ASSUME NEW m \in 0 .. MaxMisses
               PROVE  Period * (1 + m) <= Period * (1 + MaxMisses)
    BY DEF Periods
  <2>1. 1 + m \in Nat /\ 1 + MaxMisses \in Nat /\ 1 + m <= 1 + MaxMisses
    BY <1>0
  <2> QED
    BY <1>0, <1>2, <2>1
<1>4. \A m \in Nat : /\ Periods(m) \in Nat
                     /\ Periods(m) >= Period
                     /\ Periods(m + 1) = Periods(m) + Period
  <2> SUFFICES ASSUME NEW m \in Nat
               PROVE  /\ Period * (1 + m) \in Nat
                      /\ Period * (1 + m) >= Period
                      /\ Period * (1 + (m + 1)) = Period * (1 + m) + Period
    BY DEF Periods
  <2> QED
    BY <1>0, <1>1
<1>5. Periods(0) = Period
  BY <1>0 DEF Periods
<1>6. Lateness = MaxDelay + Periods(MaxMisses)
  BY DEF Lateness, Periods, Period
<1> QED
  BY <1>3, <1>4, <1>5, <1>6

\* The step of the scan, position by position: what is behind the cursor
\* afterwards was behind it before, or was just looked at and kept.
LEMMA ScanPositions ==
    ASSUME TInv, ScanClient
    PROVE  /\ Listed' \subseteq Listed
           /\ \A i \in DOMAIN list' : Passed(i)' =>
                 \/ \E j \in DOMAIN list : Passed(j) /\ list'[i] = list[j]
                 \/ list'[i] = cursor /\ cursor \in Listed'
<1> DEFINE N == Len(list)
<1>0. /\ cursor \in Listed /\ cursor # NULL /\ Listed \subseteq Node /\ IInv /\ IInv'
      /\ list \in Seq(Node) /\ N \in Nat /\ DOMAIN list = 1 .. N
      /\ \A i \in 1 .. N : list[i] \in Node
  <2>1. cursor \in Listed /\ IInv /\ IInv'
    BY ScanTInv DEF Clock, TInv, ScanClient
  <2> QED
    BY <2>1, ListedAreNodes, ElementOfSeq, NullAssumption DEF IInv, TypeOK
<1>a. /\ cursor' = NextOf(cursor)
      /\ Idle(cursor) \/ Forced(cursor) => Removed(cursor)
      /\ ~ (Idle(cursor) \/ Forced(cursor)) => UNCHANGED clientVars
  BY DEF ScanClient
<1>1. PICK k \in 1 .. N :
              /\ list[k] = cursor
              /\ \A j \in 1 .. N : list[j] = cursor => j = k
              /\ k = N => NextOf(cursor) = NULL
              /\ k # N => k + 1 \in 1 .. N /\ NextOf(cursor) = list[k + 1]
  BY <1>0, NextOfListed
<1>b. N = Len(list)
  OBVIOUS
<1> HIDE DEF N
<1>2. /\ k = N => cursor' = NULL
      /\ k # N => k + 1 \in 1 .. N /\ cursor' = list[k + 1] /\ cursor' # NULL
  BY <1>0, <1>1, <1>a, NullAssumption
<1>3. ASSUME NEW j \in 1 .. k - 1
      PROVE  Passed(j)
  <2>1. k \in DOMAIN list /\ list[k] = cursor /\ j < k
    BY <1>0, <1>1
  <2> QED
    BY <2>1 DEF Passed
<1>4. CASE Idle(cursor) \/ Forced(cursor)
  <2>1. Listed' = Listed \ {cursor}
        /\ \E i \in DOMAIN list : list[i] = cursor /\ list' = RemoveAt(list, i)
    BY <1>0, <1>4, <1>a, DeleteEffect DEF Removed
  <2>2. list' = RemoveAt(list, k)
    BY <1>0, <1>1, <2>1
  <2>3. /\ Len(list') = N - 1 /\ list' \in Seq(Node)
        /\ \A j \in 1 .. N - 1 : list'[j] = IF j < k THEN list[j] ELSE list[j + 1]
    BY <1>0, <1>b, <2>2, RemoveAtProperties
  <2>4. DOMAIN list' = 1 .. N - 1
    BY <2>3, LenProperties
  <2>5. ASSUME NEW i \in DOMAIN list', Passed(i)'
        PROVE  i < k
    <3>1. CASE k = N
      BY <1>0, <2>4, <3>1
    <3>2. CASE k # N
      <4>1. k \in 1 .. N - 1 /\ list'[k] = cursor'
        <5>1. k \in 1 .. N - 1 /\ ~ (k < k)
          BY <1>0, <3>2
        <5> QED
          BY <1>2, <2>3, <3>2, <5>1
      <4>2. PICK j \in DOMAIN list' : list'[j] = cursor' /\ i < j
        BY <1>2, <2>5, <3>2 DEF Passed
      <4>3. j = k
        BY <1>0, <2>4, <4>1, <4>2 DEF IInv, ListInjective
      <4> QED
        BY <4>2, <4>3
    <3> QED
      BY <3>1, <3>2
  <2>6. ASSUME NEW i \in DOMAIN list', Passed(i)'
        PROVE  i \in DOMAIN list /\ Passed(i) /\ list'[i] = list[i]
    <3>1. i < k /\ i \in 1 .. k - 1
      BY <1>0, <2>4, <2>5, <2>6
    <3> QED
      BY <1>0, <1>3, <2>3, <2>4, <3>1
  <2> QED
    BY <2>1, <2>6
<1>5. CASE ~ (Idle(cursor) \/ Forced(cursor))
  <2>1. list' = list /\ Listed' = Listed
    BY <1>0, <1>5, <1>a, ListKept
  <2>2. ASSUME NEW i \in DOMAIN list', Passed(i)'
        PROVE  (i \in 1 .. k - 1) \/ i = k
    <3>1. CASE k = N
      BY <1>0, <2>1, <3>1
    <3>2. CASE k # N
      <4>1. k + 1 \in 1 .. N /\ list[k + 1] = cursor'
        BY <1>2, <3>2
      <4>2. PICK j \in DOMAIN list : list[j] = cursor' /\ i < j
        BY <1>2, <2>1, <2>2, <3>2 DEF Passed
      <4>3. j = k + 1
        BY <1>0, <4>1, <4>2 DEF IInv, ListInjective
      <4> QED
        BY <1>0, <2>1, <2>2, <4>2, <4>3
    <3> QED
      BY <3>1, <3>2
  <2> QED
    BY <1>0, <1>1, <1>3, <2>1, <2>2
<1> QED
  BY <1>4, <1>5

\* Due is preserved while time stamps only grow, the stamp of a new client is
\* the time it came, and the scan removes whom it finds overdue.
LEMMA StepDue ==
    ASSUME TInv, [TNext]_vars,
           NEW f \in [Node -> Nat], NEW g \in [Node -> Nat], NEW L \in Nat,
           L > 0 \/ MaxDelay > 0,
           Due(f, L),
           \A n \in Listed \cap Listed' : f[n] <= g[n],
           \A n \in Listed' \ Listed : g[n] = now,
           ScanClient /\ f[cursor] + L <= now => cursor \notin Listed'
    PROVE  Due(g, L)'
<1>0. /\ TInv' /\ IInv /\ IInv' /\ Clock /\ Clock'
      /\ Listed \subseteq Node /\ Listed' \subseteq Node
      /\ \A i \in DOMAIN list : list[i] \in Listed
      /\ \A i \in DOMAIN list' : list'[i] \in Listed'
  <2>1. TInv'
    BY StepTInv
  <2>2. IInv /\ IInv'
    BY <2>1 DEF TInv
  <2>3. list \in Seq(Node) /\ list' \in Seq(Node)
    BY <2>2 DEF IInv, TypeOK
  <2>4. Listed \subseteq Node /\ Listed' \subseteq Node
    BY <2>3, LenProperties, ElementOfSeq DEF Listed
  <2> QED
    BY <2>1, <2>2, <2>4 DEF TInv, Listed
<1>1. /\ now \in Nat /\ wakeAt \in Nat /\ misses \in 0 .. MaxMisses /\ misses \in Nat
      /\ now' \in Nat /\ wakeAt' \in Nat /\ misses' \in 0 .. MaxMisses /\ misses' \in Nat
      /\ checkinterval \in Nat /\ MaxDelay \in Nat /\ MaxMisses \in Nat
      /\ Period = checkinterval + MaxDelay
      /\ phase \in {"asleep", "lines", "scan"}
  BY <1>0, ConstantTypes DEF TInv, TTypeOK, Time, Period
<1>2. /\ now <= wakeAt + MaxDelay /\ wakeAt <= now + checkinterval
      /\ phase # "asleep" => wakeAt <= now
  BY <1>0 DEF Clock
<1>3. /\ phase # "scan" => \A n \in Listed : wakeAt < f[n] + L + Periods(misses)
      /\ phase = "scan" => \A n \in Listed : wakeAt < f[n] + L + Periods(MaxMisses)
      /\ phase = "scan" => \A i \in DOMAIN list : Passed(i) => wakeAt < f[list[i]] + L
  BY DEF Due
<1>4. /\ Periods(misses) \in Nat /\ Periods(misses) >= Period
      /\ Periods(misses) <= Periods(MaxMisses) /\ Periods(MaxMisses) \in Nat
      /\ Periods(misses + 1) = Periods(misses) + Period
      /\ Periods(0) = Period
  BY <1>1, PeriodsGrow
<1>5. \A n \in Listed : f[n] \in Nat
  BY <1>0
<1>6. \A n \in Listed' : g[n] \in Nat
  BY <1>0
<1>7. SUFFICES /\ phase' # "scan" => \A n \in Listed' : wakeAt' < g[n] + L + Periods(misses')
               /\ phase' = "scan" => \A n \in Listed' : wakeAt' < g[n] + L + Periods(MaxMisses)
               /\ phase' = "scan" => \A i \in DOMAIN list' : Passed(i)' => wakeAt' < g[list'[i]] + L
  BY DEF Due, Periods, Period
<1> DEFINE Quiet == wakeAt' = wakeAt /\ misses' = misses
<1>8. CASE Quiet /\ phase # "scan" /\ phase' # "scan"
  \* Clients come and go between scans.
  <2> SUFFICES ASSUME NEW n \in Listed' PROVE wakeAt < g[n] + L + Periods(misses)
    BY <1>8
  <2>1. CASE n \in Listed
    BY <1>1, <1>3, <1>4, <1>5, <1>6, <1>8, <2>1
  <2>2. CASE n \notin Listed
    <3>1. g[n] = now
      BY <2>2
    <3> QED
      BY <1>1, <1>2, <1>4, <3>1
  <2> QED
    BY <2>1, <2>2
<1>9. CASE Quiet /\ phase = "scan" /\ phase' = "scan" /\ list' = list /\ cursor' = cursor
  <2>1. Listed' = Listed /\ \A i : Passed(i)' = Passed(i)
    BY <1>9 DEF Listed, Passed
  <2> QED
    BY <1>0, <1>1, <1>3, <1>4, <1>5, <1>6, <1>9, <2>1
<1>10. CASE MissCounters
  <2>1. /\ wakeAt' = now + checkinterval /\ misses' = misses + 1 /\ phase' = "asleep"
        /\ Listed' = Listed /\ phase # "scan"
    BY <1>10 DEF MissCounters, clientVars, Listed
  <2> QED
    BY <1>1, <1>2, <1>3, <1>4, <1>5, <1>6, <2>1
<1>11. CASE StartScan
  <2>1. /\ wakeAt' = wakeAt /\ phase' = "scan" /\ Listed' = Listed /\ list' = list
        /\ phase # "scan" /\ cursor' = IF list = <<>> THEN NULL ELSE list[1]
    BY <1>11 DEF StartScan, clientVars, Listed
  <2>2. ASSUME NEW i \in DOMAIN list', Passed(i)' PROVE FALSE
    <3>0. Len(list) \in Nat /\ DOMAIN list = 1 .. Len(list) /\ list \in Seq(Node)
      BY <1>0, ListedAreNodes DEF IInv, TypeOK
    <3>1. list # <<>> /\ 1 \in DOMAIN list
      BY <2>1, <3>0
    <3>2. cursor' = list[1] /\ cursor' # NULL
      BY <1>0, <2>1, <3>1, NullAssumption
    <3>3. PICK j \in DOMAIN list : list[j] = list[1] /\ i < j
      BY <2>1, <2>2, <3>2 DEF Passed
    <3>4. j = 1
      BY <1>0, <3>1, <3>3 DEF IInv, ListInjective
    <3> QED
      BY <2>1, <3>0, <3>3, <3>4
  <2>3. \A n \in Listed' : wakeAt' < g[n] + L + Periods(MaxMisses)
    <3> SUFFICES ASSUME NEW n \in Listed PROVE wakeAt < g[n] + L + Periods(MaxMisses)
      BY <2>1
    <3>1. wakeAt < f[n] + L + Periods(misses) /\ f[n] <= g[n] /\ f[n] \in Nat /\ g[n] \in Nat
      BY <1>3, <1>5, <1>6, <2>1
    <3> QED
      BY <1>1, <1>4, <3>1
  <2> QED
    BY <2>1, <2>2, <2>3
<1>12. CASE EndScan
  <2>1. /\ wakeAt' = now + checkinterval /\ misses' = misses /\ phase' = "asleep"
        /\ Listed' = Listed /\ phase = "scan" /\ cursor = NULL
    BY <1>12 DEF EndScan, clientVars, Listed
  <2>2. \A n \in Listed : wakeAt < f[n] + L
    BY <1>3, <2>1 DEF Passed, Listed
  <2> QED
    BY <1>1, <1>2, <1>4, <1>5, <1>6, <2>1, <2>2
<1>13. CASE ScanClient
  <2>1. phase = "scan" /\ phase' = "scan" /\ wakeAt' = wakeAt
    BY <1>13 DEF ScanClient
  <2>2. /\ Listed' \subseteq Listed
        /\ \A i \in DOMAIN list' : Passed(i)' =>
              \/ \E j \in DOMAIN list : Passed(j) /\ list'[i] = list[j]
              \/ list'[i] = cursor /\ cursor \in Listed'
    BY <1>13, ScanPositions
  <2>3. \A n \in Listed' : n \in Listed /\ f[n] <= g[n] /\ f[n] \in Nat /\ g[n] \in Nat
    BY <1>5, <1>6, <2>2
  <2>4. \A n \in Listed' : wakeAt < g[n] + L + Periods(MaxMisses)
    BY <1>1, <1>3, <1>4, <2>1, <2>3
  <2>5. ASSUME NEW i \in DOMAIN list', Passed(i)'
        PROVE  wakeAt < g[list'[i]] + L
    <3>0. list'[i] \in Listed'
      BY <1>0
    <3>1. wakeAt < f[list'[i]] + L
      <4>1. CASE \E j \in DOMAIN list : Passed(j) /\ list'[i] = list[j]
        BY <1>3, <2>1, <4>1
      <4>2. CASE list'[i] = cursor /\ cursor \in Listed'
        <5>1. f[cursor] + L > now /\ f[cursor] \in Nat
          BY <1>1, <1>13, <2>3, <4>2
        <5> QED
          BY <1>1, <1>2, <2>1, <4>2, <5>1
      <4> QED
        BY <2>2, <2>5, <4>1, <4>2
    <3> QED
      BY <1>1, <2>3, <3>0, <3>1
  <2> QED
    BY <2>1, <2>4, <2>5
<1>14. CASE UNCHANGED vars
  BY <1>1, <1>8, <1>9, <1>14 DEF vars, passVars, clientVars
<1>15. CASE Tick \/ \E n \in Node : Traffic(n)
  BY <1>1, <1>8, <1>9, <1>15 DEF Tick, Traffic, passVars, clientVars
<1>16. CASE ReadCounters \/ ApplyLine
  BY <1>1, <1>8, <1>16 DEF ReadCounters, ApplyLine
<1>17. CASE \/ \E ip \in IP, mac \in MAC : Arrive(ip, mac) \/ Authenticate(ip, mac)
            \/ \E n \in Node : Deauthenticate(n)
  BY <1>1, <1>8, <1>17 DEF Arrive, Authenticate, Deauthenticate, passVars
<1> QED
  BY <1>10, <1>11, <1>12, <1>13, <1>14, <1>15, <1>16, <1>17 DEF TNext

\* What every step does to the time stamps.
LEMMA StampsGrow ==
    ASSUME TInv, [TNext]_vars
    PROVE  /\ \A n \in Listed \cap Listed' : /\ added_time'[n] = added_time[n]
                                             /\ last_updated[n] <= last_updated'[n]
           /\ \A n \in Listed' \ Listed : /\ added_time'[n] = now
                                          /\ last_updated'[n] = now
<1>0. /\ TInv' /\ Listed \subseteq Node /\ Listed' \subseteq Node /\ IInv
      /\ last_updated \in [Node -> Nat] /\ now \in Nat
  <2>1. TInv'
    BY StepTInv
  <2>2. list \in Seq(Node) /\ list' \in Seq(Node)
    BY <2>1 DEF TInv, IInv, TypeOK
  <2>3. Listed \subseteq Node /\ Listed' \subseteq Node
    BY <2>2, LenProperties, ElementOfSeq DEF Listed
  <2> QED
    BY <2>1, <2>3 DEF TInv, TTypeOK, Time
<1>1. CASE UNCHANGED <<list, added_time, last_updated>>
  BY <1>0, <1>1 DEF Listed
<1>2. CASE ApplyLine
  <2>1. list' = list /\ added_time' = added_time
    BY <1>2 DEF ApplyLine, clientVars
  <2>2. PICK l \in lines :
         LET n == client_list_find_by_ip(l[1]) IN
         IF n # NULL THEN Credit(n, l[2]) ELSE UNCHANGED <<outgoing, last_updated>>
    BY <1>2 DEF ApplyLine
  <2>3. \A n \in Node : last_updated'[n] \in {last_updated[n], now}
    <3> DEFINE n == client_list_find_by_ip(l[1])
    <3>1. last_updated' = last_updated \/ last_updated' = [last_updated EXCEPT ![n] = now]
      BY <2>2 DEF Credit
    <3> HIDE DEF n
    <3> QED
      BY <1>0, <3>1
  <2>4. \A n \in Listed : last_updated[n] <= now
    BY DEF TInv, StampsPast
  <2> QED
    BY <1>0, <2>1, <2>3, <2>4 DEF Listed
<1>3. ASSUME NEW ip \in IP, NEW mac \in MAC, Arrive(ip, mac)
      PROVE  /\ \A n \in Listed \cap Listed' : /\ added_time'[n] = added_time[n]
                                               /\ last_updated'[n] = last_updated[n]
             /\ \A n \in Listed' \ Listed : /\ added_time'[n] = now
                                            /\ last_updated'[n] = now
  BY <1>0, <1>3 DEF Arrive, Fresh
<1>4. ASSUME NEW n \in Listed, Removed(n)
      PROVE  /\ Listed' \subseteq Listed
             /\ \A m \in Listed' : /\ added_time'[m] = added_time[m]
                                   /\ last_updated'[m] = last_updated[m]
  <2>1. Listed' \subseteq Listed
    BY <1>0, <1>4, DeleteEffect DEF Removed
  <2> QED
    BY <1>0, <1>4, <2>1 DEF Removed, Fresh
<1>5. CASE ScanClient
  <2>1. cursor \in Listed
    BY <1>5 DEF ScanClient, TInv, Clock
  <2>2. Removed(cursor) \/ UNCHANGED <<list, added_time, last_updated>>
    BY <1>5 DEF ScanClient, clientVars, timeVars
  <2> QED
    BY <1>0, <1>1, <1>4, <2>1, <2>2
<1>6. CASE \E n \in Node : Deauthenticate(n)
  <2>1. \E n \in Listed : Removed(n)
    BY <1>6 DEF Deauthenticate
  <2> QED
    BY <1>0, <1>4, <2>1
<1>7. CASE \E ip \in IP, mac \in MAC : Arrive(ip, mac)
  BY <1>0, <1>3, <1>7
<1>8. CASE \E ip \in IP, mac \in MAC : Authenticate(ip, mac)
  <2>1. list' = list /\ added_time' = added_time /\ last_updated' = last_updated
    BY <1>0, <1>8, AuthenticateEffect DEF Authenticate, timeVars
  <2> QED
    BY <1>1, <2>1
<1>9. CASE \/ \E n \in Node : Traffic(n)
           \/ Tick \/ ReadCounters \/ MissCounters \/ StartScan \/ EndScan \/ UNCHANGED vars
  <2>1. UNCHANGED <<list, added_time, last_updated>>
    BY <1>9 DEF Traffic, Tick, ReadCounters, MissCounters, StartScan, EndScan, vars,
                clientVars, timeVars
  <2> QED
    BY <1>1, <2>1
<1> QED
  BY <1>2, <1>5, <1>6, <1>7, <1>8, <1>9 DEF TNext

\* The force-out deadline is kept by every step.
LEMMA StepForceDue ==
    ASSUME clientforceout > 0 \/ MaxDelay > 0
    PROVE  TInv /\ [TNext]_vars /\ Due(added_time, ForceLimit) => Due(added_time, ForceLimit)'
<1> SUFFICES ASSUME TInv, [TNext]_vars, Due(added_time, ForceLimit)
             PROVE  Due(added_time, ForceLimit)'
  OBVIOUS
<1>1. added_time \in [Node -> Nat] /\ added_time' \in [Node -> Nat] /\ IInv
  BY StepTInv DEF TInv, TTypeOK, Time
<1>2. PICK f \in [Node -> Nat] : f = added_time
  BY <1>1
<1>3. PICK g \in [Node -> Nat] : g = added_time'
  BY <1>1
<1>4. ForceLimit \in Nat /\ (ForceLimit > 0 \/ MaxDelay > 0) /\ ForceLimit' = ForceLimit
  BY ConstantTypes DEF ForceLimit
<1>5. Due(f, ForceLimit)
  BY <1>2 DEF Due
<1>6. /\ \A n \in Listed \cap Listed' : f[n] <= g[n]
      /\ \A n \in Listed' \ Listed : g[n] = now
  <2>1. Listed \subseteq Node
    BY <1>1, ListedAreNodes DEF IInv, TypeOK
  <2> QED
    BY <1>2, <1>3, <2>1, StampsGrow
<1>7. ScanClient /\ f[cursor] + ForceLimit <= now => cursor \notin Listed'
  <2> SUFFICES ASSUME ScanClient, Forced(cursor) PROVE cursor \notin Listed'
    BY <1>2 DEF Forced
  <2>1. cursor \in Listed /\ Removed(cursor)
    BY DEF ScanClient, TInv, Clock
  <2> QED
    BY <1>1, <2>1, DeleteEffect DEF Removed
<1>8. Due(g, ForceLimit)'
  BY <1>4, <1>5, <1>6, <1>7, StepDue
<1> QED
  BY <1>3, <1>4, <1>8 DEF Due

LEMMA StepIdleDue ==
    ASSUME clienttimeout > 0 \/ MaxDelay > 0
    PROVE  TInv /\ [TNext]_vars /\ Due(last_updated, IdleLimit) => Due(last_updated, IdleLimit)'
<1> SUFFICES ASSUME TInv, [TNext]_vars, Due(last_updated, IdleLimit)
             PROVE  Due(last_updated, IdleLimit)'
  OBVIOUS
<1>1. last_updated \in [Node -> Nat] /\ last_updated' \in [Node -> Nat] /\ IInv
  BY StepTInv DEF TInv, TTypeOK, Time
<1>2. PICK f \in [Node -> Nat] : f = last_updated
  BY <1>1
<1>3. PICK g \in [Node -> Nat] : g = last_updated'
  BY <1>1
<1>4. IdleLimit \in Nat /\ (IdleLimit > 0 \/ MaxDelay > 0) /\ IdleLimit' = IdleLimit
  BY ConstantTypes DEF IdleLimit
<1>5. Due(f, IdleLimit)
  BY <1>2 DEF Due
<1>6. /\ \A n \in Listed \cap Listed' : f[n] <= g[n]
      /\ \A n \in Listed' \ Listed : g[n] = now
  BY <1>2, <1>3, StampsGrow
<1>7. ScanClient /\ f[cursor] + IdleLimit <= now => cursor \notin Listed'
  <2> SUFFICES ASSUME ScanClient, Idle(cursor) PROVE cursor \notin Listed'
    BY <1>2 DEF Idle
  <2>1. cursor \in Listed /\ Removed(cursor)
    BY DEF ScanClient, TInv, Clock
  <2> QED
    BY <1>1, <2>1, DeleteEffect DEF Removed
<1>8. Due(g, IdleLimit)'
  BY <1>4, <1>5, <1>6, <1>7, StepDue
<1> QED
  BY <1>3, <1>4, <1>8 DEF Due

LEMMA InitDue ==
    ASSUME TInit
    PROVE  /\ Due(added_time, ForceLimit) /\ Due(last_updated, IdleLimit)
           /\ Noticed /\ Credited
<1>1. Listed = {} /\ phase = "asleep" /\ unread = {}
  BY DEF TInit, client_list_init, Listed
<1> QED
  BY <1>1 DEF Due, Noticed, Credited

\* A deadline that is due is over by at most the lateness of a pass.
LEMMA DueInTime ==
    ASSUME TInv, NEW f \in [Node -> Nat], NEW L \in Nat, Due(f, L), NEW n \in Listed
    PROVE  now < f[n] + L + Lateness
<1>1. n \in Node /\ f[n] \in Nat
  BY ListedAreNodes DEF TInv, IInv, TypeOK
<1>2. /\ now \in Nat /\ wakeAt \in Nat /\ misses \in 0 .. MaxMisses /\ MaxDelay \in Nat
      /\ MaxMisses \in Nat /\ now <= wakeAt + MaxDelay
  BY ConstantTypes DEF TInv, TTypeOK, Time, Clock
<1>3. /\ Periods(misses) \in Nat /\ Periods(MaxMisses) \in Nat
      /\ Periods(misses) <= Periods(MaxMisses) /\ Lateness = MaxDelay + Periods(MaxMisses)
  BY <1>2, PeriodsGrow
<1>4. wakeAt < f[n] + L + Periods(misses) \/ wakeAt < f[n] + L + Periods(MaxMisses)
  BY DEF Due
<1> QED
  BY <1>1, <1>2, <1>3, <1>4

\* Nobody stays listed longer than the force-out time and the lateness of a
\* pass, active or not, for any intervals, delays and missed passes; unless
\* both the force-out time and the delay are zero, when the bound is reached.
THEOREM ForcedOutInTime ==
    ASSUME clientforceout > 0 \/ MaxDelay > 0
    PROVE  TSpec => []ForcedOut
<1>1. TInit => Due(added_time, ForceLimit)
  BY InitDue
<1>2. TInv /\ [TNext]_vars /\ Due(added_time, ForceLimit) => Due(added_time, ForceLimit)'
  BY StepForceDue
<1>3. TInv /\ Due(added_time, ForceLimit) => ForcedOut
  <2> SUFFICES ASSUME TInv, Due(added_time, ForceLimit), NEW n \in Listed
               PROVE  now < added_time[n] + ForceLimit + Lateness
    BY DEF ForcedOut
  <2>1. added_time \in [Node -> Nat]
    BY DEF TInv, TTypeOK, Time
  <2> QED
    BY <2>1, DueInTime, ConstantTypes
<1> QED
  BY <1>1, <1>2, <1>3, TimeoutsInvariance, PTL DEF TSpec

----------------------------------------------------------------------------
(* Inactivity, of the clients that no line of another is credited to. *)

\* A client that a step leaves as it is.
LEMMA SameClient ==
    ASSUME NEW n,
           client'[n].ip = client[n].ip, bytes'[KeyOf(n)'] = bytes[KeyOf(n)],
           outgoing'[n] = outgoing[n], last_updated'[n] = last_updated[n],
           lastSeen'[n] = lastSeen[n], n \in unread' <=> n \in unread,
           UNCHANGED <<phase, lines, short, wakeAt, misses>>
    PROVE  /\ NoticedFor(n) => NoticedFor(n)'
           /\ CreditedFor(n) => CreditedFor(n)'
  BY DEF NoticedFor, CreditedFor, Lateness, Behind, Periods, Period

\* The numbers the steps below compare.
LEMMA Numbers ==
    ASSUME TInv
    PROVE  /\ now \in Nat /\ wakeAt \in Nat /\ misses \in Nat /\ misses \in 0 .. MaxMisses
           /\ checkinterval \in Nat /\ MaxDelay \in Nat /\ MaxMisses \in Nat
           /\ Period = checkinterval + MaxDelay
           /\ now <= wakeAt + MaxDelay /\ wakeAt <= now + checkinterval
           /\ phase # "asleep" => wakeAt <= now
           /\ phase # "lines" => lines = {}
           /\ phase \in {"asleep", "lines", "scan"}
           /\ Listed \subseteq Node
           /\ \A n \in Node : /\ last_updated[n] \in Nat /\ lastSeen[n] \in Nat
                              /\ outgoing[n] \in Nat
           /\ \A n \in Listed : /\ bytes[KeyOf(n)] \in Int
                                /\ last_updated[n] <= now /\ lastSeen[n] <= now
           /\ \A l \in lines : l[1] \in IP /\ l[2] \in Nat
           /\ Periods(misses) \in Nat /\ Periods(misses) >= Period
           /\ Periods(misses + 1) = Periods(misses) + Period
           /\ Periods(0) = Period
           /\ Lateness \in Nat /\ Periods(misses) + MaxDelay <= Lateness
           /\ Behind \in Nat /\ (phase = "asleep" => Behind = Periods(misses))
<1>1. /\ now \in Nat /\ wakeAt \in Nat /\ misses \in Nat /\ misses \in 0 .. MaxMisses
      /\ checkinterval \in Nat /\ MaxDelay \in Nat /\ MaxMisses \in Nat
      /\ Period = checkinterval + MaxDelay
      /\ phase \in {"asleep", "lines", "scan"}
  BY ConstantTypes DEF TInv, TTypeOK, Time, Period
<1>2. /\ now <= wakeAt + MaxDelay /\ wakeAt <= now + checkinterval
      /\ phase # "asleep" => wakeAt <= now
      /\ phase # "lines" => lines = {}
  BY DEF TInv, Clock
<1>3. Listed \subseteq Node
  BY ListedAreNodes DEF TInv, IInv, TypeOK
<1>4. \A n \in Node : last_updated[n] \in Nat /\ lastSeen[n] \in Nat /\ outgoing[n] \in Nat
  BY ConstantTypes DEF TInv, TTypeOK, Time
<1>5. \A n \in Listed : last_updated[n] <= now /\ lastSeen[n] <= now
  BY DEF TInv, StampsPast
<1>6. \A n \in Listed : bytes[KeyOf(n)] \in Int
  BY KeysOfListed, ConstantTypes DEF TInv, TTypeOK
<1>7. \A l \in lines : l[1] \in IP /\ l[2] \in Nat
  BY ConstantTypes DEF TInv, TTypeOK
<1>8. /\ Periods(misses) \in Nat /\ Periods(misses) >= Period
      /\ Periods(misses + 1) = Periods(misses) + Period
      /\ Periods(0) = Period
      /\ Lateness \in Nat /\ Periods(misses) + MaxDelay <= Lateness
  <2>1. /\ Periods(misses) <= Periods(MaxMisses) /\ Periods(MaxMisses) \in Nat
        /\ Lateness = MaxDelay + Periods(MaxMisses)
    BY <1>1, PeriodsGrow
  <2>2. /\ Periods(misses) \in Nat /\ Periods(misses) >= Period
        /\ Periods(misses + 1) = Periods(misses) + Period
        /\ Periods(0) = Period
    BY <1>1, PeriodsGrow
  <2> QED
    BY <1>1, <2>1, <2>2
<1>9. Behind \in Nat /\ (phase = "asleep" => Behind = Periods(misses))
  <2>1. \A p, m \in Nat : p * m \in Nat
    OBVIOUS
  <2> QED
    BY <1>1, <1>8, <2>1 DEF Behind
<1> QED
  BY <1>1, <1>2, <1>3, <1>4, <1>5, <1>6, <1>7, <1>8, <1>9

LEMMA ArriveKeeps ==
    ASSUME TInv, NEW ip \in IP, NEW mac \in MAC, Arrive(ip, mac)
    PROVE  (Noticed => Noticed') /\ (Credited => Credited')
<1>1. IInv' /\ Listed \subseteq Listed' /\ \A n \in Listed : client'[n] = client[n]
  BY AddEffect DEF TInv, Arrive
<1>2. Listed' \subseteq Node
  BY <1>1, LenProperties, ElementOfSeq DEF IInv, TypeOK, Listed
<1>3. /\ UNCHANGED <<phase, lines, short, wakeAt, misses>> /\ now' = now /\ bytes' = bytes /\ unread' = unread
      /\ \A n \in Listed : /\ outgoing'[n] = outgoing[n] /\ last_updated'[n] = last_updated[n]
                           /\ lastSeen'[n] = lastSeen[n]
      /\ \A n \in Listed' \ Listed : outgoing'[n] = 0 /\ last_updated'[n] = now /\ lastSeen'[n] = now
      /\ misread' = misread \cup MixedUp
  BY <1>1, <1>2 DEF Arrive, passVars, Fresh
<1>4. ASSUME NEW n \in Listed
      PROVE  (NoticedFor(n) => NoticedFor(n)') /\ (CreditedFor(n) => CreditedFor(n)')
  <2>1. client'[n].ip = client[n].ip /\ bytes'[KeyOf(n)'] = bytes[KeyOf(n)]
    BY <1>1, <1>3 DEF KeyOf
  <2> QED
    BY <1>3, <2>1, SameClient
<1>5. ASSUME NEW n \in Listed' \ Listed
      PROVE  NoticedFor(n)'
  <2>1. now <= now + Lateness /\ wakeAt <= now + Behind /\ wakeAt <= now + Periods(misses)
    BY Numbers
  <2>2. Behind' = Behind
    BY <1>3 DEF Behind, Periods, Period
  <2> QED
    BY <1>3, <2>1, <2>2 DEF NoticedFor, Lateness, Periods, Period
<1>6. ASSUME NEW n \in (Listed' \ Listed) \ misread', Credited
      PROVE  CreditedFor(n)'
  <2>1. \A l \in lines' : l[1] # client'[n].ip
    BY <1>3, <1>6 DEF MixedUp
  <2>2. n \notin unread'
    BY <1>3, <1>6 DEF Credited
  <2>3. lastSeen'[n] <= last_updated'[n] /\ outgoing'[n] = 0
    BY <1>3, Numbers
  <2> QED
    BY <2>1, <2>2, <2>3 DEF CreditedFor
<1> QED
  BY <1>1, <1>3, <1>4, <1>5, <1>6 DEF Noticed, Credited

LEMMA AuthenticateKeeps ==
    ASSUME TInv, NEW ip \in IP, NEW mac \in MAC, Authenticate(ip, mac)
    PROVE  (Noticed => Noticed') /\ (Credited => Credited')
<1>1. /\ IInv' /\ Listed' = Listed
      /\ \A n \in Listed : client'[n].ip = client[n].ip /\ client'[n].mac = client[n].mac
  BY AuthenticateEffect DEF TInv, Authenticate
<1>2. PICK n \in Listed : /\ client[n].ip = ip /\ client[n].mac = mac
                          /\ client[n].fw_connection_state # "AUTHENTICATED"
  BY AuthenticateEffect DEF TInv, Authenticate
<1>3. /\ UNCHANGED <<phase, lines, short, wakeAt, misses>> /\ now' = now /\ unread' = unread /\ misread' = misread
      /\ outgoing' = outgoing /\ last_updated' = last_updated /\ lastSeen' = lastSeen
      /\ bytes' = [bytes EXCEPT ![KeyOf(n)] = 0]
  BY <1>2 DEF Authenticate, passVars, timeVars, KeyOf
<1>4. /\ KeyOf(n) \in IP \X MAC /\ \A m \in Listed : KeyOf(m) \in IP \X MAC /\ KeyOf(m)' = KeyOf(m)
      /\ \A m \in Listed : KeyOf(m) = KeyOf(n) => m = n
      /\ bytes \in [IP \X MAC -> -1 .. MaxBytes]
  BY <1>1, KeysOfListed DEF TInv, TTypeOK, KeyOf
<1>5. bytes[KeyOf(n)] < 0 /\ bytes'[KeyOf(n)'] = 0
  <2>1. ~ (bytes[KeyOf(n)] >= 0)
    <3> SUFFICES ASSUME bytes[KeyOf(n)] >= 0 PROVE FALSE
      OBVIOUS
    <3>1. PICK m \in Listed : KeyOf(m) = KeyOf(n) /\ client[m].fw_connection_state = "AUTHENTICATED"
      BY <1>4 DEF TInv, CountersOwned
    <3> QED
      BY <1>2, <1>4, <3>1
  <2> QED
    BY <1>3, <1>4, <2>1, Numbers
<1>6. ASSUME NEW m \in Listed, m # n
      PROVE  (NoticedFor(m) => NoticedFor(m)') /\ (CreditedFor(m) => CreditedFor(m)')
  <2>1. client'[m].ip = client[m].ip /\ bytes'[KeyOf(m)'] = bytes[KeyOf(m)]
    BY <1>1, <1>3, <1>4, <1>6
  <2> QED
    BY <1>3, <2>1, SameClient
<1>7. NoticedFor(n) => NoticedFor(n)'
  <2>1. client'[n].ip = client[n].ip /\ ~ (0 > outgoing[n])
    BY <1>1, Numbers
  <2> QED
    BY <1>3, <1>5, <2>1 DEF NoticedFor, Lateness, Behind, Periods, Period
<1>8. CreditedFor(n) => CreditedFor(n)'
  <2> SUFFICES ASSUME CreditedFor(n) PROVE CreditedFor(n)'
    OBVIOUS
  <2>0. client'[n].ip = client[n].ip /\ outgoing[n] \in Nat /\ bytes[KeyOf(n)] \in Int
    BY <1>1, Numbers
  <2>1. outgoing[n] = 0 /\ n \notin unread /\ \A l \in lines : l[1] # client[n].ip
    BY <1>5, <2>0, Numbers DEF CreditedFor
  <2>2. lastSeen[n] <= last_updated[n]
    BY <2>1 DEF CreditedFor
  <2> QED
    BY <1>3, <1>5, <2>0, <2>1, <2>2 DEF CreditedFor
<1> QED
  BY <1>1, <1>3, <1>6, <1>7, <1>8 DEF Noticed, Credited

LEMMA RemovedKeeps ==
    ASSUME TInv, NEW n \in Listed, Removed(n), UNCHANGED <<phase, lines, short, wakeAt, misses>>
    PROVE  (Noticed => Noticed') /\ (Credited => Credited')
<1>1. IInv' /\ Listed' = Listed \ {n} /\ \A m \in Listed' : client'[m] = client[m]
  BY DeleteEffect DEF TInv, Removed
<1>2. Listed' \subseteq Node
  BY <1>1, Numbers
<1>3. /\ \A m \in Listed' : /\ outgoing'[m] = outgoing[m] /\ last_updated'[m] = last_updated[m]
                            /\ lastSeen'[m] = lastSeen[m]
      /\ unread' = unread \ {n} /\ misread' = misread \ {n}
      /\ bytes' = [bytes EXCEPT ![KeyOf(n)] = -1]
  BY <1>1, <1>2 DEF Removed, Fresh
<1>4. /\ \A m \in Listed : KeyOf(m) \in IP \X MAC /\ (KeyOf(m) = KeyOf(n) => m = n)
      /\ \A m \in Listed' : KeyOf(m)' = KeyOf(m)
      /\ bytes \in [IP \X MAC -> -1 .. MaxBytes]
  BY <1>1, KeysOfListed DEF TInv, TTypeOK, KeyOf
<1>5. ASSUME NEW m \in Listed'
      PROVE  (NoticedFor(m) => NoticedFor(m)') /\ (CreditedFor(m) => CreditedFor(m)')
  <2>0. m \in Listed /\ m # n
    BY <1>1
  <2>1. client'[m].ip = client[m].ip /\ bytes'[KeyOf(m)'] = bytes[KeyOf(m)]
    BY <1>1, <1>3, <1>4, <2>0
  <2>2. m \in unread' <=> m \in unread
    BY <1>3, <2>0
  <2> QED
    BY <1>3, <2>1, <2>2, SameClient
<1> QED
  BY <1>1, <1>3, <1>5 DEF Noticed, Credited

LEMMA TrafficKeeps ==
    ASSUME TInv, NEW n \in Node, Traffic(n)
    PROVE  (Noticed => Noticed') /\ (Credited => Credited')
<1>0. /\ Listed' = Listed /\ client' = client /\ n \in Listed /\ \A m : KeyOf(m)' = KeyOf(m)
  BY ListKept DEF TInv, Traffic
<1>1. /\ UNCHANGED <<phase, lines, short, wakeAt, misses, misread>>
      /\ outgoing' = outgoing /\ last_updated' = last_updated
      /\ lastSeen' = [lastSeen EXCEPT ![n] = now]
      /\ unread' = unread \cup {n}
      /\ bytes[KeyOf(n)] >= 0
      /\ bytes' = [bytes EXCEPT ![KeyOf(n)] = bytes[KeyOf(n)] + 1]
  BY DEF Traffic, passVars, timeVars
<1>2. /\ \A m \in Listed : KeyOf(m) \in IP \X MAC /\ (KeyOf(m) = KeyOf(n) => m = n)
      /\ bytes \in [IP \X MAC -> -1 .. MaxBytes] /\ lastSeen \in [Node -> Time]
  BY KeysOfListed, <1>0 DEF TInv, TTypeOK
<1>3. ASSUME NEW m \in Listed, m # n
      PROVE  (NoticedFor(m) => NoticedFor(m)') /\ (CreditedFor(m) => CreditedFor(m)')
  <2>1. client'[m].ip = client[m].ip /\ bytes'[KeyOf(m)'] = bytes[KeyOf(m)]
    BY <1>0, <1>1, <1>2, <1>3
  <2>2. lastSeen'[m] = lastSeen[m] /\ (m \in unread' <=> m \in unread)
    BY <1>1, <1>2, <1>3, Numbers
  <2> QED
    BY <1>1, <2>1, <2>2, SameClient
<1>4. /\ lastSeen'[n] = now /\ bytes'[KeyOf(n)'] = bytes[KeyOf(n)] + 1
      /\ client'[n].ip = client[n].ip
  BY <1>0, <1>1, <1>2
<1>5. NoticedFor(n)'
  <2>1. /\ last_updated[n] <= now + Lateness
        /\ wakeAt <= now + Behind /\ wakeAt <= now + Periods(misses)
    BY <1>0, Numbers
  <2>2. Behind' = Behind
    BY <1>1 DEF Behind, Periods, Period
  <2> QED
    BY <1>1, <1>4, <2>1, <2>2 DEF NoticedFor, Lateness, Periods, Period
<1>6. CreditedFor(n) => CreditedFor(n)'
  <2> SUFFICES ASSUME CreditedFor(n) PROVE CreditedFor(n)'
    OBVIOUS
  <2> DEFINE b == bytes[KeyOf(n)]
  <2>1. b \in Nat /\ outgoing[n] \in Nat /\ \A l \in lines : l[2] \in Nat
    BY <1>0, <1>1, Numbers
  <2>2. outgoing[n] < b + 1 /\ \A l \in lines : l[1] = client[n].ip => l[2] < b + 1 /\ l[2] <= b + 1
    BY <2>1 DEF CreditedFor
  <2> QED
    BY <1>1, <1>4, <2>1, <2>2 DEF CreditedFor
<1> QED
  BY <1>0, <1>1, <1>3, <1>5, <1>6 DEF Noticed, Credited

\* The lines that are read: the one that belongs to a client carries its
\* counter, since no other client has its ip; or it has none, in a listing that
\* lacks lines.
LEMMA ReadCountersKeeps ==
    ASSUME TInv, ReadCounters
    PROVE  (Noticed => Noticed') /\ (Credited => Credited')
<1> DEFINE whole == {<<k[1], bytes[k]>> : k \in {k \in IP \X MAC : bytes[k] >= 0}}
<1>0. Listed' = Listed /\ client' = client /\ \A m : KeyOf(m)' = KeyOf(m)
  BY ListKept DEF TInv, ReadCounters
<1>1. /\ phase = "asleep" /\ phase' = "lines" /\ lines = {}
      /\ unread' = {n \in unread : <<client[n].ip, bytes[KeyOf(n)]>> \notin lines'}
      /\ UNCHANGED <<wakeAt, misses, bytes, outgoing, last_updated, lastSeen, misread>>
      /\ lines' \subseteq whole /\ (~ short' => lines' = whole)
  BY Numbers DEF ReadCounters, timeVars
<1>2. ASSUME NEW n \in Listed \ misread, NEW l \in lines', l[1] = client[n].ip
      PROVE  l[2] = bytes[KeyOf(n)]
  <2>1. PICK k \in IP \X MAC : bytes[k] >= 0 /\ l = <<k[1], bytes[k]>>
    BY <1>1
  <2>2. PICK m \in Listed : KeyOf(m) = k
    BY <2>1 DEF TInv, CountersOwned
  <2>3. client[m].ip = client[n].ip
    BY <1>2, <2>1, <2>2 DEF KeyOf
  <2>4. m = n
    BY <2>3 DEF TInv, Apart
  <2> QED
    BY <2>1, <2>2, <2>4
<1>3. ASSUME NEW n \in Listed, bytes[KeyOf(n)] >= 0, ~ short'
      PROVE  \E l \in lines' : l[1] = client[n].ip /\ l[2] = bytes[KeyOf(n)]
  <2>1. KeyOf(n) \in IP \X MAC /\ KeyOf(n)[1] = client[n].ip
    BY KeysOfListed DEF TInv, KeyOf
  <2>2. <<KeyOf(n)[1], bytes[KeyOf(n)]>> \in lines'
    BY <1>1, <1>3, <2>1
  <2> QED
    BY <2>1, <2>2
<1> HIDE DEF whole
<1>4. ASSUME NEW n \in Listed \ misread, NoticedFor(n)
      PROVE  NoticedFor(n)'
  <2>0. n \in Node /\ outgoing[n] \in Nat /\ bytes[KeyOf(n)] \in Int
    BY Numbers
  <2>1. /\ bytes[KeyOf(n)] > outgoing[n]
        /\ \A l \in lines' : l[1] = client[n].ip => bytes[KeyOf(n)] > l[2]
        => short' /\ wakeAt <= lastSeen[n] + Periods(misses)
    BY <1>1, <1>3, <1>4, <2>0, Numbers DEF NoticedFor
  <2>2. \A l \in lines' : l[1] = client[n].ip /\ l[2] > outgoing[n] =>
           wakeAt <= lastSeen[n] + Periods(misses)
    BY <1>1, <1>2, <1>4, Numbers DEF NoticedFor
  <2>3. last_updated[n] <= lastSeen[n] + Lateness
    BY <1>4 DEF NoticedFor
  <2> QED
    BY <1>0, <1>1, <2>1, <2>2, <2>3 DEF NoticedFor, Lateness, Behind, Periods, Period
<1>5. ASSUME NEW n \in Listed \ misread, CreditedFor(n)
      PROVE  CreditedFor(n)'
  <2>0. n \in Node /\ outgoing[n] \in Nat /\ bytes[KeyOf(n)] \in Int
    BY Numbers
  <2>1. outgoing[n] <= bytes[KeyOf(n)] \/ outgoing[n] = 0
    BY <1>5 DEF CreditedFor
  <2>2. \A l \in lines' : l[1] = client[n].ip => l[2] <= bytes[KeyOf(n)]
    BY <1>2, <2>0
  <2>3. n \in unread' => /\ bytes[KeyOf(n)] > outgoing[n]
                        /\ \A l \in lines' : l[1] # client[n].ip
    <3> SUFFICES ASSUME n \in unread'
                 PROVE  /\ bytes[KeyOf(n)] > outgoing[n]
                        /\ \A l \in lines' : l[1] # client[n].ip
      OBVIOUS
    <3>1. n \in unread /\ <<client[n].ip, bytes[KeyOf(n)]>> \notin lines'
      BY <1>1
    <3>2. \A l \in lines' : l = <<l[1], l[2]>>
      BY <1>1 DEF whole
    <3> QED
      BY <1>2, <1>5, <3>1, <3>2 DEF CreditedFor
  <2>4. \/ lastSeen[n] <= last_updated[n]
        \/ n \in unread'
        \/ \E l \in lines' : l[1] = client[n].ip /\ l[2] > outgoing[n]
    <3>1. CASE n \in unread
      <4>1. bytes[KeyOf(n)] > outgoing[n]
        BY <1>5, <3>1 DEF CreditedFor
      <4>2. CASE <<client[n].ip, bytes[KeyOf(n)]>> \in lines'
        BY <4>1, <4>2
      <4>3. CASE <<client[n].ip, bytes[KeyOf(n)]>> \notin lines'
        BY <1>1, <3>1, <4>3
      <4> QED
        BY <4>2, <4>3
    <3>2. CASE n \notin unread
      BY <1>1, <1>5, <3>2 DEF CreditedFor
    <3> QED
      BY <3>1, <3>2
  <2> QED
    BY <1>0, <1>1, <2>1, <2>2, <2>3, <2>4 DEF CreditedFor
<1> QED
  BY <1>0, <1>1, <1>4, <1>5 DEF Noticed, Credited

\* A line raises the recorded counter of the client that has its ip.
LEMMA ApplyLineKeeps ==
    ASSUME TInv, ApplyLine
    PROVE  (Noticed => Noticed') /\ (Credited => Credited')
<1>0. Listed' = Listed /\ client' = client /\ \A m : KeyOf(m)' = KeyOf(m)
  BY ListKept DEF TInv, ApplyLine
<1>1. /\ phase = "lines" /\ phase' = "lines"
      /\ UNCHANGED <<short, wakeAt, misses, bytes, unread, misread, lastSeen>>
  BY DEF ApplyLine, trafficVars
<1>2. PICK l \in lines :
         /\ lines' = lines \ {l}
         /\ LET n == client_list_find_by_ip(l[1]) IN
            IF n # NULL THEN Credit(n, l[2]) ELSE UNCHANGED <<outgoing, last_updated>>
  BY DEF ApplyLine
<1> DEFINE Raised(n) == client[n].ip = l[1] /\ outgoing[n] < l[2]
<1>3. \A n \in Listed \ misread :
                        /\ outgoing'[n] = IF Raised(n) THEN l[2] ELSE outgoing[n]
                        /\ last_updated'[n] = IF Raised(n) THEN now ELSE last_updated[n]
  <2> DEFINE M == {n \in Node : client[n].ip = l[1]}
             c == client_list_find_by_ip(l[1])
  <2>0. list \in Seq(Node) /\ M \in SUBSET Node /\ Listed \subseteq Node
        /\ outgoing \in [Node -> 0 .. MaxBytes] /\ last_updated \in [Node -> Time]
    BY Numbers DEF TInv, IInv, TypeOK, TTypeOK
  <2>1. \/ c = NULL /\ Listed \cap M = {}
        \/ c \in Listed \cap M
    BY <2>0, FirstMatchFinds DEF client_list_find_by_ip
  <2>2. c # NULL => Credit(c, l[2])
    BY <1>2
  <2>3. c = NULL => UNCHANGED <<outgoing, last_updated>>
    BY <1>2
  <2> HIDE DEF c
  <2>4. CASE c = NULL
    <3>1. \A n \in Listed : client[n].ip # l[1]
      BY <2>0, <2>1, <2>4, NullAssumption
    <3> QED
      BY <2>3, <2>4, <3>1
  <2>5. CASE c # NULL
    <3>1. /\ c \in Listed /\ client[c].ip = l[1]
          /\ \A n \in Listed \ misread : client[n].ip = l[1] => n = c
      BY <2>1, <2>5 DEF TInv, Apart
    <3>2. CASE outgoing[c] < l[2]
      <4>1. outgoing' = [outgoing EXCEPT ![c] = l[2]] /\ last_updated' = [last_updated EXCEPT ![c] = now]
        BY <2>2, <2>5, <3>2 DEF Credit
      <4> QED
        BY <2>0, <3>1, <3>2, <4>1
    <3>3. CASE ~ (outgoing[c] < l[2])
      BY <2>2, <2>5, <3>1, <3>3 DEF Credit
    <3> QED
      BY <3>2, <3>3
  <2> QED
    BY <2>4, <2>5
<1>4. ASSUME NEW n \in Listed \ misread, client[n].ip # l[1]
      PROVE  (NoticedFor(n) => NoticedFor(n)') /\ (CreditedFor(n) => CreditedFor(n)')
  <2>1. outgoing'[n] = outgoing[n] /\ last_updated'[n] = last_updated[n]
    BY <1>3, <1>4
  <2>2. {k \in lines' : k[1] = client[n].ip} = {k \in lines : k[1] = client[n].ip}
    BY <1>2, <1>4
  <2> QED
    BY <1>0, <1>1, <2>1, <2>2 DEF NoticedFor, CreditedFor, Lateness, Behind, Periods, Period
<1>5. ASSUME NEW n \in Listed \ misread, client[n].ip = l[1]
      PROVE  (NoticedFor(n) => NoticedFor(n)') /\ (CreditedFor(n) => CreditedFor(n)')
  <2> DEFINE b == bytes[KeyOf(n)]
             own == {k \in lines : k[1] = client[n].ip}
             rest == {k \in lines' : k[1] = client[n].ip}
  <2>0. /\ l \in own /\ rest = own \ {l} /\ \A k \in own : k[2] \in Nat
        /\ b \in Int /\ outgoing[n] \in Nat /\ last_updated[n] \in Nat /\ lastSeen[n] \in Nat
        /\ now \in Nat /\ wakeAt \in Nat /\ MaxDelay \in Nat /\ now <= wakeAt + MaxDelay
        /\ Periods(misses) \in Nat /\ Lateness \in Nat /\ Periods(misses) + MaxDelay <= Lateness
        /\ lastSeen[n] <= now /\ Behind \in Nat
    BY <1>2, <1>5, Numbers
  <2>1. /\ outgoing'[n] >= outgoing[n] /\ outgoing'[n] >= l[2] /\ outgoing'[n] \in Nat
        /\ \/ outgoing'[n] = outgoing[n] /\ last_updated'[n] = last_updated[n]
           \/ outgoing'[n] = l[2] /\ l[2] > outgoing[n] /\ last_updated'[n] = now
    BY <1>3, <1>5, <2>0
  <2>2. client'[n].ip = client[n].ip /\ bytes'[KeyOf(n)'] = b
    BY <1>0, <1>1
  <2> HIDE DEF b, own, rest
  <2>3. ASSUME NoticedFor(n) PROVE NoticedFor(n)'
    <3>1. /\ last_updated[n] <= lastSeen[n] + Lateness
          /\ b > outgoing[n] /\ (\A k \in own : b > k[2]) => wakeAt <= lastSeen[n] + Behind
          /\ \A k \in own : k[2] > outgoing[n] => wakeAt <= lastSeen[n] + Periods(misses)
      BY <1>1, <2>3 DEF NoticedFor, b, own
    <3>2. last_updated'[n] <= lastSeen[n] + Lateness
      BY <2>0, <2>1, <3>1
    <3>3. b > outgoing'[n] /\ (\A k \in rest : b > k[2]) => wakeAt <= lastSeen[n] + Behind
      BY <2>0, <2>1, <3>1
    <3>4. \A k \in rest : k[2] > outgoing'[n] => wakeAt <= lastSeen[n] + Periods(misses)
      BY <2>0, <2>1, <3>1
    <3> QED
      BY <1>1, <2>2, <3>2, <3>3, <3>4 DEF NoticedFor, rest, Lateness, Behind, Periods, Period
  <2>4. ASSUME CreditedFor(n) PROVE CreditedFor(n)'
    <3>1. /\ outgoing[n] <= b \/ outgoing[n] = 0
          /\ \A k \in own : k[2] <= b
          /\ n \in unread => b > outgoing[n] /\ \A k \in own : k[2] < b
          /\ \/ lastSeen[n] <= last_updated[n]
             \/ n \in unread
             \/ \E k \in own : k[2] > outgoing[n]
      BY <2>4 DEF CreditedFor, b, own
    <3>2. outgoing'[n] <= b \/ outgoing'[n] = 0
      BY <2>0, <2>1, <3>1
    <3>3. n \in unread => b > outgoing'[n] /\ \A k \in rest : k[2] < b
      BY <2>0, <2>1, <3>1
    <3>4. \/ lastSeen[n] <= last_updated'[n]
          \/ n \in unread
          \/ \E k \in rest : k[2] > outgoing'[n]
      BY <2>0, <2>1, <3>1
    <3> QED
      BY <1>1, <2>0, <2>2, <3>1, <3>2, <3>3, <3>4 DEF CreditedFor, rest
  <2> QED
    BY <2>3, <2>4
<1> QED
  BY <1>0, <1>1, <1>4, <1>5 DEF Noticed, Credited

\* The other steps of a pass.
LEMMA PassKeeps ==
    ASSUME TInv, Tick \/ MissCounters \/ StartScan \/ EndScan \/ UNCHANGED vars
    PROVE  (Noticed => Noticed') /\ (Credited => Credited')
<1>0. Listed' = Listed /\ client' = client /\ \A m : KeyOf(m)' = KeyOf(m)
  BY ListKept DEF TInv, Tick, MissCounters, StartScan, EndScan, vars
<1>1. UNCHANGED <<lines, bytes, unread, misread, outgoing, last_updated, lastSeen>>
  BY DEF Tick, MissCounters, StartScan, EndScan, vars, timeVars, passVars, trafficVars
<1>2. Credited => Credited'
  BY <1>0, <1>1 DEF Credited, CreditedFor
<1>3. CASE Tick \/ UNCHANGED vars
  <2>1. UNCHANGED <<phase, short, wakeAt, misses>>
    BY <1>3 DEF Tick, vars, passVars
  <2> QED
    BY <1>0, <1>1, <1>2, <2>1 DEF Noticed, NoticedFor, Lateness, Behind, Periods, Period
<1>4. CASE MissCounters \/ EndScan
  <2>1. /\ lines = {} /\ phase' = "asleep" /\ wakeAt' = now + checkinterval
        /\ misses' = misses + 1 \/ (phase = "scan" /\ misses' = misses)
    BY <1>4, Numbers DEF MissCounters, EndScan
  <2>2. SUFFICES ASSUME NEW n \in Listed \ misread, NoticedFor(n) PROVE NoticedFor(n)'
    BY <1>0, <1>1, <1>2 DEF Noticed
  <2>3. /\ last_updated[n] <= lastSeen[n] + Lateness
        /\ bytes[KeyOf(n)] > outgoing[n] => wakeAt <= lastSeen[n] + Behind
    BY <2>1, <2>2 DEF NoticedFor
  <2>4. Behind + Period <= Periods(misses') /\ Periods(misses') \in Nat
    <3>1. \A p, m \in Nat : p * m + p = p * (1 + m) /\ p * m \in Nat
      OBVIOUS
    <3>2. phase = "scan" => Behind + Period = Periods(misses)
      BY <3>1, Numbers DEF Behind, Periods
    <3>3. phase # "scan" => Behind <= Periods(misses)
      BY Numbers DEF Behind
    <3>4. Period \in Nat
      BY Numbers
    <3> QED
      BY <2>1, <3>2, <3>3, <3>4, Numbers
  <2>5. bytes[KeyOf(n)] > outgoing[n] => wakeAt' <= lastSeen[n] + Periods(misses')
    <3>1. n \in Node /\ lastSeen[n] \in Nat
      BY Numbers
    <3> QED
      BY <2>1, <2>3, <2>4, <3>1, Numbers
  <2> QED
    BY <1>0, <1>1, <2>1, <2>3, <2>5 DEF NoticedFor, Lateness, Behind, Periods, Period
<1>5. CASE StartScan
  <2>1. /\ phase = "lines" /\ phase' = "scan" /\ wakeAt' = wakeAt /\ lines = {}
        /\ misses' = IF short THEN misses + 1 ELSE 0
    BY <1>5 DEF StartScan
  <2>2. Behind' = Behind
    <3>1. \A p, m \in Nat : p * (m + 1) = p * (1 + m) /\ p * 0 = 0
      OBVIOUS
    <3>2. Behind = IF short THEN Periods(misses) ELSE 0
      BY <2>1 DEF Behind
    <3>3. Behind' = Period * misses'
      BY <2>1 DEF Behind, Period
    <3> QED
      BY <2>1, <3>1, <3>2, <3>3, Numbers DEF Periods
  <2> QED
    BY <1>0, <1>1, <1>2, <2>1, <2>2 DEF Noticed, NoticedFor, Lateness, Period
<1> QED
  BY <1>2, <1>3, <1>4, <1>5

LEMMA ScanKeeps ==
    ASSUME TInv, ScanClient
    PROVE  (Noticed => Noticed') /\ (Credited => Credited')
<1>0. cursor \in Listed /\ UNCHANGED <<phase, lines, short, wakeAt, misses>>
  BY DEF TInv, Clock, ScanClient
<1>1. CASE Removed(cursor)
  BY <1>0, <1>1, RemovedKeeps
<1>2. CASE UNCHANGED <<clientVars, timeVars, trafficVars>>
  <2>1. Listed' = Listed /\ client' = client /\ \A m : KeyOf(m)' = KeyOf(m)
    BY <1>2, ListKept DEF TInv
  <2>2. UNCHANGED <<bytes, unread, misread, outgoing, last_updated, lastSeen>>
    BY <1>2 DEF timeVars, trafficVars
  <2> QED
    BY <1>0, <2>1, <2>2 DEF Noticed, NoticedFor, Credited, CreditedFor, Lateness, Behind, Periods, Period
<1> QED
  BY <1>1, <1>2 DEF ScanClient

LEMMA StepKeeps ==
    TInv /\ [TNext]_vars => (Noticed => Noticed') /\ (Credited => Credited')
<1> SUFFICES ASSUME TInv, [TNext]_vars
             PROVE  (Noticed => Noticed') /\ (Credited => Credited')
  OBVIOUS
<1>1. ASSUME NEW n \in Node, Deauthenticate(n)
      PROVE  (Noticed => Noticed') /\ (Credited => Credited')
  BY <1>1, RemovedKeeps DEF Deauthenticate, passVars
<1> QED
  BY <1>1, ArriveKeeps, AuthenticateKeeps, TrafficKeeps, ReadCountersKeeps, ApplyLineKeeps,
     PassKeeps, ScanKeeps DEF TNext

\* An inactive client is gone after the idle time and twice the lateness of a
\* pass, for any intervals, delays and missed or short passes, unless lines of
\* another client were credited to it (they name no MAC).
THEOREM IdleOutInTime ==
    ASSUME clienttimeout > 0 \/ MaxDelay > 0
    PROVE  TSpec => []IdleOut
<1>1. TInit => Due(last_updated, IdleLimit) /\ Noticed
  BY InitDue
<1>2. TInv /\ [TNext]_vars /\ Due(last_updated, IdleLimit) => Due(last_updated, IdleLimit)'
  BY StepIdleDue
<1>3. TInv /\ [TNext]_vars /\ Noticed => Noticed'
  BY StepKeeps
<1>4. TInv /\ Due(last_updated, IdleLimit) /\ Noticed => IdleOut
  <2> SUFFICES ASSUME TInv, Due(last_updated, IdleLimit), Noticed, NEW n \in Listed \ misread
               PROVE  now < lastSeen[n] + IdleLimit + 2 * Lateness
    BY DEF IdleOut
  <2>1. last_updated \in [Node -> Nat]
    BY DEF TInv, TTypeOK, Time
  <2>2. now < last_updated[n] + IdleLimit + Lateness
    BY <2>1, DueInTime, ConstantTypes
  <2>3. last_updated[n] <= lastSeen[n] + Lateness
    BY DEF Noticed, NoticedFor
  <2>4. /\ n \in Node /\ last_updated[n] \in Nat /\ lastSeen[n] \in Nat /\ Lateness \in Nat
        /\ IdleLimit \in Nat /\ now \in Nat
    BY Numbers, ConstantTypes
  <2> QED
    BY <2>2, <2>3, <2>4
<1> QED
  BY <1>1, <1>2, <1>3, <1>4, TimeoutsInvariance, PTL DEF TSpec

\* And nobody is removed as idle before its time: whom the scan removes with
\* force-out time left was inactive for the idle time, was active only since
\* its counter was last read, or got lines of another client; whatever lines the
\* listings lack, whoever shares an ip and whoever comes during a pass.
THEOREM IdleOnlyIfIdle == TSpec => IdleMeansIdle
<1>1. TInit => Credited
  BY InitDue
<1>2. TInv /\ [TNext]_vars /\ Credited => Credited'
  BY StepKeeps
<1>3. TInv /\ Credited /\ [TNext]_vars =>
         [\A n \in Listed \ Listed' :
             phase = "scan" /\ ~ Forced(n) =>
                 lastSeen[n] + IdleLimit <= now \/ n \in unread \cup misread]_vars
  <2> SUFFICES ASSUME TInv, Credited, TNext, NEW n \in Listed \ Listed',
                      phase = "scan", ~ Forced(n), n \notin unread \cup misread
               PROVE  lastSeen[n] + IdleLimit <= now
    BY Zenon
  <2>1. ScanClient
    <3>1. ASSUME UNCHANGED clientVars PROVE FALSE
      BY <3>1 DEF clientVars, Listed
    <3>2. ~ (Tick \/ ReadCounters \/ MissCounters \/ ApplyLine \/ StartScan \/ EndScan)
      BY <3>1 DEF Tick, ReadCounters, MissCounters, ApplyLine, StartScan, EndScan
    <3>3. \A m \in Node : ~ Traffic(m) /\ ~ Deauthenticate(m)
      BY <3>1 DEF Traffic, Deauthenticate
    <3>4. \A ip \in IP, mac \in MAC : ~ Arrive(ip, mac) /\ ~ Authenticate(ip, mac)
      BY DEF Arrive, Authenticate
    <3> QED
      BY <3>2, <3>3, <3>4 DEF TNext
  <2>2. cursor \in Listed /\ (Idle(cursor) \/ Forced(cursor)) /\ n = cursor
    <3>1. cursor \in Listed
      BY <2>1 DEF ScanClient, TInv, Clock
    <3>2. Idle(cursor) \/ Forced(cursor)
      BY <2>1, ListKept DEF ScanClient, TInv
    <3>3. Listed' = Listed \ {cursor}
      BY <2>1, <3>1, <3>2, DeleteEffect DEF ScanClient, Removed, TInv
    <3> QED
      BY <3>1, <3>2, <3>3
  <2>3. last_updated[n] + IdleLimit <= now
    BY <2>2 DEF Idle
  <2>4. lastSeen[n] <= last_updated[n]
    BY Numbers DEF Credited, CreditedFor
  <2>5. n \in Node /\ last_updated[n] \in Nat /\ lastSeen[n] \in Nat /\ IdleLimit \in Nat /\ now \in Nat
    BY Numbers, ConstantTypes
  <2> QED
    BY <2>3, <2>4, <2>5
<1> QED
  BY <1>1, <1>2, <1>3, TimeoutsInvariance, PTL DEF TSpec, IdleMeansIdle
============================================================================
