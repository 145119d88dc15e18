------------------------------ MODULE Timeouts ------------------------------
(***************************************************************************)
(* When clients time out.  The thread of auth.c:63 wakes every             *)
(* checkinterval seconds, reads the byte counters of the kernel's rules,   *)
(* credits them to the clients line by line, and removes the clients that  *)
(* were inactive for clienttimeout intervals or listed for clientforceout  *)
(* of them.  Here a client's rules change together with its list entry     *)
(* (Gateway takes the two apart), and time, traffic and the reading of the *)
(* counters are explicit: the listing names no MAC, clients come and go    *)
(* while its lines are applied, and it may lack lines without a sign.      *)
(***************************************************************************)
EXTENDS ClientList

CONSTANTS
    checkinterval, clienttimeout, clientforceout,   \* config
    MaxDelay,           \* how late a pass may run or end
    MaxMisses,          \* passes in a row without all the counters
    MaxTime, MaxBytes   \* bounds of the model

ASSUME TimeAssumption ==
    /\ checkinterval \in Nat \ {0}
    /\ {clienttimeout, clientforceout, MaxDelay, MaxMisses, MaxTime, MaxBytes} \subseteq Nat

VARIABLES
    now,
    added_time, last_updated, outgoing,     \* fields of each client
    bytes,              \* byte counter of the ndsOUT rule of <<ip, mac>>, -1 if none
    phase,              \* of the thread: asleep, applying lines, scanning the list
    lines,              \* lines of iptables' output still to be applied
    cursor,             \* cp1 of the scan
    short,              \* the listing lacks lines; nothing in the code knows
    wakeAt, misses,
    lastSeen,           \* when each client really was last active
    unread,             \* those active since their counter was last read
    misread             \* those that lines of another client may be credited to

timeVars == <<added_time, last_updated, outgoing>>
passVars == <<phase, lines, short, cursor, wakeAt, misses>>
trafficVars == <<bytes, lastSeen, unread, misread>>
vars == <<clientVars, timeVars, passVars, trafficVars, now>>

IdleLimit == checkinterval * clienttimeout
ForceLimit == checkinterval * clientforceout

TInit == /\ client_list_init
         /\ now = 0
         /\ added_time = [n \in Node |-> 0]
         /\ last_updated = [n \in Node |-> 0]
         /\ outgoing = [n \in Node |-> 0]
         /\ bytes = [k \in IP \X MAC |-> -1]
         /\ phase = "asleep"
         /\ lines = {}
         /\ short = FALSE
         /\ cursor = NULL
         /\ wakeAt = 0
         /\ misses = 0
         /\ lastSeen = [n \in Node |-> 0]
         /\ unread = {}
         /\ misread = {}

KeyOf(n) == <<client[n].ip, client[n].mac>>

\* A field of a structure just filled in, and of one that was freed.
Fresh(f, v) == [n \in Node |-> IF n \in Listed' \ Listed THEN v
                               ELSE IF n \notin Listed' THEN 0 ELSE f[n]]

\* A line has only an ip: it goes wrong where two clients have that ip, or the
\* client that has it now came after the lines were read.
MixedUp == {n \in Listed' :
               \/ \E m \in Listed' \ {n} : client'[m].ip = client'[n].ip
               \/ n \notin Listed /\ \E l \in lines : l[1] = client'[n].ip}

----------------------------------------------------------------------------
(* Clients come, are authenticated, are active, and leave; all of it under  *)
(* the mutex, which the scan of a pass does not give away.                  *)

Arrive(ip, mac) ==
    /\ phase # "scan"
    /\ client_list_add_client(ip, mac)
    /\ added_time' = Fresh(added_time, now)
    /\ last_updated' = Fresh(last_updated, now)
    /\ lastSeen' = Fresh(lastSeen, now)
    /\ outgoing' = Fresh(outgoing, 0)
    /\ misread' = misread \cup MixedUp
    /\ UNCHANGED <<passVars, now, bytes, unread>>

Authenticate(ip, mac) ==
    /\ phase # "scan"
    /\ MakeAuthenticated(ip, mac)
    /\ bytes' = [bytes EXCEPT ![<<ip, mac>>] = 0]
    /\ UNCHANGED <<passVars, timeVars, now, lastSeen, unread, misread>>

\* The rule goes with the client, whichever it is.
Removed(n) ==
    /\ client_list_delete(n)
    /\ bytes' = [bytes EXCEPT ![KeyOf(n)] = -1]
    /\ added_time' = Fresh(added_time, 0)
    /\ last_updated' = Fresh(last_updated, 0)
    /\ lastSeen' = Fresh(lastSeen, 0)
    /\ outgoing' = Fresh(outgoing, 0)
    /\ unread' = unread \ {n}
    /\ misread' = misread \ {n}

Deauthenticate(n) ==
    /\ phase # "scan"
    /\ n \in Listed
    /\ Removed(n)
    /\ UNCHANGED <<passVars, now>>

Traffic(n) ==
    /\ n \in Listed
    /\ bytes[KeyOf(n)] \in 0 .. MaxBytes - 1
    /\ bytes' = [bytes EXCEPT ![KeyOf(n)] = @ + 1]
    /\ lastSeen' = [lastSeen EXCEPT ![n] = now]
    /\ unread' = unread \cup {n}
    /\ UNCHANGED <<clientVars, passVars, timeVars, now, misread>>

----------------------------------------------------------------------------
(* A pass of the thread. *)

\* The pass that is due runs, and ends, within MaxDelay.
Tick == /\ now < MaxTime
        /\ now < wakeAt + MaxDelay
        /\ now' = now + 1
        /\ UNCHANGED <<clientVars, timeVars, passVars, trafficVars>>

\* iptables -L prints one line for each rule, with its ip but not its mac; or
\* fewer, when it fails or dies: pclose()'s status is not looked at, and those
\* without a line look inactive.
ReadCounters ==
    /\ phase = "asleep" /\ now >= wakeAt
    /\ LET whole == {<<k[1], bytes[k]>> : k \in {k \in IP \X MAC : bytes[k] >= 0}}
       IN  /\ lines' \in SUBSET whole
           /\ short' = (lines' # whole)
    /\ short' => misses < MaxMisses
    /\ unread' = {n \in unread : <<client[n].ip, bytes[KeyOf(n)]>> \notin lines'}
    /\ phase' = "lines"
    /\ UNCHANGED <<clientVars, timeVars, now, bytes, lastSeen, misread, cursor, wakeAt, misses>>

\* popen() fails, for the outgoing counters or, when those have been applied,
\* for the incoming ones (which time nobody out): the pass ends here and no
\* client is looked at.
MissCounters ==
    /\ (phase = "asleep" /\ now >= wakeAt) \/ (phase = "lines" /\ lines = {})
    /\ misses < MaxMisses
    /\ misses' = misses + 1
    /\ short' = FALSE
    /\ phase' = "asleep"
    /\ wakeAt' = now + checkinterval
    /\ UNCHANGED <<clientVars, timeVars, now, trafficVars, lines, cursor>>

\* Wrong versions of Credit: any line counts as activity, or none does, or
\* the counter is added up.
CreditAlways(n, counter) ==
    /\ outgoing' = [outgoing EXCEPT ![n] = counter]
    /\ last_updated' = [last_updated EXCEPT ![n] = now]
CreditBytesOnly(n, counter) ==
    /\ outgoing' = [outgoing EXCEPT ![n] = counter]
    /\ UNCHANGED last_updated
CreditAdds(n, counter) ==
    /\ outgoing' = [outgoing EXCEPT ![n] = @ + counter]
    /\ last_updated' = [last_updated EXCEPT ![n] = now]

Credit(n, counter) ==
    IF outgoing[n] < counter
    THEN /\ outgoing' = [outgoing EXCEPT ![n] = counter]
         /\ last_updated' = [last_updated EXCEPT ![n] = now]
    ELSE UNCHANGED <<outgoing, last_updated>>

\* Each line takes and gives back the mutex, and is credited to the first
\* client on the list that has the ip.
ApplyLine ==
    /\ phase = "lines"
    /\ \E l \in lines :
         /\ lines' = lines \ {l}
         /\ LET n == client_list_find_by_ip(l[1]) IN
            IF n # NULL THEN Credit(n, l[2]) ELSE UNCHANGED <<outgoing, last_updated>>
    /\ UNCHANGED <<clientVars, added_time, now, trafficVars, phase, short, cursor, wakeAt, misses>>

StartScan ==
    /\ phase = "lines" /\ lines = {}
    /\ phase' = "scan"
    /\ cursor' = IF list = <<>> THEN NULL ELSE list[1]
    /\ misses' = IF short THEN misses + 1 ELSE 0
    /\ short' = FALSE
    /\ UNCHANGED <<clientVars, timeVars, now, trafficVars, lines, wakeAt>>

NextOf(n) == LET i == CHOOSE i \in DOMAIN list : list[i] = n
            IN IF i = Len(list) THEN NULL ELSE list[i + 1]

Idle(n) == last_updated[n] + IdleLimit <= now
ForcedFromLastUse(n) == last_updated[n] + ForceLimit <= now     \* a wrong Forced
Forced(n) == added_time[n] + ForceLimit <= now

ScanClient ==
    /\ phase = "scan" /\ cursor # NULL
    /\ cursor' = NextOf(cursor)
    /\ IF Idle(cursor) \/ Forced(cursor)
       THEN Removed(cursor)
       ELSE UNCHANGED <<clientVars, timeVars, trafficVars>>
    /\ UNCHANGED <<now, phase, lines, short, wakeAt, misses>>

EndScan ==
    /\ phase = "scan" /\ cursor = NULL
    /\ phase' = "asleep"
    /\ wakeAt' = now + checkinterval
    /\ UNCHANGED <<clientVars, timeVars, now, trafficVars, lines, short, cursor, misses>>

TNext == \/ \E ip \in IP, mac \in MAC : Arrive(ip, mac) \/ Authenticate(ip, mac)
         \/ \E n \in Node : Deauthenticate(n) \/ Traffic(n)
         \/ Tick \/ ReadCounters \/ MissCounters \/ ApplyLine
         \/ StartScan \/ ScanClient \/ EndScan

TSpec == TInit /\ [][TNext]_vars

----------------------------------------------------------------------------
Time == 0 .. MaxTime

TTypeOK ==
    /\ TypeOK
    /\ now \in Time
    /\ added_time \in [Node -> Time] /\ last_updated \in [Node -> Time]
    /\ lastSeen \in [Node -> Time] /\ unread \subseteq Node
    /\ misread \subseteq Node
    /\ outgoing \in [Node -> 0 .. MaxBytes]
    /\ bytes \in [IP \X MAC -> -1 .. MaxBytes]
    /\ phase \in {"asleep", "lines", "scan"}
    /\ cursor \in Node \cup {NULL}
    /\ lines \subseteq IP \X (0 .. MaxBytes) /\ short \in BOOLEAN
    /\ wakeAt \in 0 .. MaxTime + checkinterval /\ misses \in 0 .. MaxMisses

\* How long after the moment it was needed a client may still wait for a pass
\* to look at it with its counter in hand: it was passed over just before, that
\* pass ends late, and the next ones are late or miss.
Lateness == MaxDelay + (checkinterval + MaxDelay) * (1 + MaxMisses)

\* "the desired number of minutes before a user is automatically
\* 'deauthenticated', whether active or not" (wificat.conf:237-238): nobody
\* stays listed longer than that and the lateness of a pass.
ForcedOut ==
    \A n \in Listed : now < added_time[n] + ForceLimit + Lateness

\* "the desired of number of minutes of inactivity before a user is
\* automatically 'deauthenticated'" (wificat.conf:229-230): an inactive client
\* is gone after that time, the lateness of the pass that noticed its last
\* activity and the lateness of the pass that removes it; but one that lines of
\* another client were credited to may stay on their account.
IdleOut ==
    \A n \in Listed \ misread : now < lastSeen[n] + IdleLimit + 2 * Lateness

\* And it is not removed before: a client that a pass removes while it has
\* force-out time left was inactive for that long, was active only since its
\* counter was last read (the last listing may have come without its line), or
\* got lines of another client, after which its own activity may not show.
IdleMeansIdle ==
    [][\A n \in Listed \ Listed' :
          phase = "scan" /\ ~ Forced(n) =>
              lastSeen[n] + IdleLimit <= now \/ n \in unread \cup misread]_vars
============================================================================
