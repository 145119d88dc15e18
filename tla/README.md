# wifi-cat: specifications and proofs

wifi-cat is a captive-portal gateway. A client that opens a web page is
redirected to the gateway, put on the *client list*, and shown a splash page;
when it comes back with a token that the authentication server accepts, three
`iptables` mangle rules mark its packets as authenticated. A thread removes
clients that are idle or have been connected for too long, and an operator can
add and remove clients, and block, allow and trust MAC addresses, with `ndsctl`.

This directory holds TLA+ modules that model it, TLC configurations that
model-check them on small instances, and proofs that TLAPS checks. Source lines
below are those of `src/src/`.

## The system

| part | state | operations | talks to |
|---|---|---|---|
| client list (`client_list.c`) | linked list, `client_arr` (who holds which index), `client_count` | add, four lookups, delete | everything below, under `client_list_mutex` |
| authentication actions (`auth.c`) | state of a client | `auth_client_action()`; the loop of the time-out thread | list, firewall |
| firewall (`firewall.c`, `fw_iptables.c`) | the kernel's chains and rules, the marks | init, destroy, a client's access, MAC rules, byte counters, the time-out pass | `iptables` commands through `util.c`, list, configuration |
| traffic control (`tc.c`) | queueing disciplines, a class and two filters per client index | init, attach, detach, destroy | `tc` commands |
| HTTP handlers (`http.c`, `httpd_thread.c`) | none of their own; a thread per request | splash, auth, deny, status | list, auth, authentication server |
| ndsctl server (`ndsctl_thread.c`) | a thread per command | status, clients, stop, auth, deauth, block/unblock, allow/unallow, trust/untrust, loglevel, password, username | list, auth, configuration, firewall |
| configuration (`conf.c`) | one structure, MAC lists, rule sets | read a file, read from the server, add and remove MACs | everything, partly under `config_mutex` |
| authentication server client (`centerserver.c`) | none | resolve, connect, one request and its answer | HTTP handlers, configuration |
| start, main loop, signals (`gateway.c`) | thread counts, signal handlers | accept and hand to a thread; reap children; clean up and exit | all threads |
| commands (`util.c`) | the process-wide SIGCHLD disposition | fork, exec, wait | firewall, traffic control |
| embedded web server (`../libhttpd/`) | content tree, the request of each thread, `strtok()`'s pointer | accept, read, clean the path, find the entry, answer, close | HTTP handlers |
| `ndsctl` (`ndsctl.c`) | none | one command line, one request, its answer | ndsctl server |

What is hard here is the concurrency of one detached thread per request and per
command, the time-out thread, and signal handlers, over one list and one
kernel: the list mutex is released between finding a client and acting on it;
each change of a client is three commands that can each fail; counters are read
by one process and applied line by line; limits are tested only when a pass runs.
`PROJECT.json` lists these hazards one by one, at their lines, with the
properties that cover them.

What makes the parts correct:

- *client list*: list, array and counter agree, no more than `maxclients`
  entries, one entry per ip and mac, an index is never shared.
- *access*: the kernel has exactly the rules of the authenticated clients
  whenever nobody is changing them, never rules without a session, and two
  clients never carry one mark; requests end and the mutex is never lost.
- *time-outs*: nobody stays longer than the limits and the lateness of the
  passes allow, nobody is removed as idle whose activity was read.
- *firewall chains and MAC lists*: the verdict a packet gets is the one its MAC
  and session call for; clean-up leaves nothing behind.
- *termination, commands*: clean-up happens once, ends, and is not undone.
- *authentication server*: a request is let through only on a positive answer;
  the configuration in force is one that was accepted, not half of a refused one.
- *web server*: a request reaches the handler of its own path, with its own
  token, and its connection is closed once its client has taken the answer.
- *ndsctl*: a command is carried out as it was asked for or not at all.

## The modules

| module | models | how |
|---|---|---|
| `ClientTable` | what the list promises | one session per ip and mac: absent, preauthenticated, authenticated; added only below `maxclients` |
| `ClientList` | `client_list.c` and what `auth.c` and `firewall.c` do to an entry | one step per operation, as under the mutex; nodes are addresses that `malloc()` may hand out again |
| `ClientListProofs` | | the theorems about `ClientList` |
| `Gateway` | `auth.c`, the handlers of `http.c` and `ndsctl_thread.c`, `fw_refresh_client_list()` | extends `ClientList` with threads, the mutex, requests, thread-local pointers and the kernel's rules; split at every lock, unlock and command |
| `GatewayProofs` | | the theorems about `Gateway`; extends `ClientListProofs` |
| `Timeouts` | the time-out thread with its clock, the byte counters and their reading | extends `ClientList` with time, traffic and the lines of a counter listing |
| `TimeoutsProofs` | | the theorems about `Timeouts`; extends `ClientListProofs` |
| `MacRules` | the MAC lists of `conf.c`, the six `ndsctl` commands on them, the chains and marks of `fw_iptables.c` | a module of its own: lists and two chains as state, the verdict on a packet as an operator |
| `MacRulesProofs` | | the theorems about `MacRules` |
| `FwChains` | `iptables_fw_init()`, `iptables_fw_destroy()`, `iptables_fw_access()`, `tc.c` | the sequences of commands they run in a configuration, and what the kernel does with a command; no state of its own |
| `Lifecycle` | `gateway.c`: start, threads, signals, end, and starting again | runs the sequences of `FwChains`, one command at a time, over a kernel that outlives the process |
| `Execute` | `execute()` of `util.c`, `popen()`, `sigchld_handler()` | threads that share children and the treatment of SIGCHLD |
| `LifecycleProofs` | | the theorems about `Lifecycle` and about `Execute` |
| `AuthServer` | `centerserver.c`, `config_from_server()` of `conf.c`, `token_verify()` of `http.c` | one request at a time, with an environment that fails and recovers |
| `AuthServerProofs` | | the theorems about `AuthServer` |
| `HttpRequest` | what `libhttpd` makes of the text of a request | operators, with a reference definition of the token |
| `Httpd` | the accept loop, `httpd_thread.c`, `libhttpd`'s reading, lookup and dispatch | extends `HttpRequest` with threads, their counts and `strtok()`'s pointer |
| `HttpdProofs` | | the theorems about `Httpd` |
| `NdsctlProtocol` | `ndsctl.c` and the socket side of `ndsctl_thread.c` | runs of `ndsctl`, a handler thread each, and the pipe between them |
| `NdsctlProofs` | | the theorems about `NdsctlProtocol` |
| `MC...` | | instances for TLC |

### ClientList

`list` is the chain from `firstclient`; `client` the structure at each address,
with the fields the list operations read; `client_arr` and `client_count` as in
the code. `client_list_add_client(ip, mac)` is the function with `mac` the
answer of the ARP cache: it does nothing when the ip is malformed, when there is
no ARP entry, or when the pair is listed; otherwise it appends if the count is
below `maxclients`, taking the first free index by the loop of lines 146-150
(`FreeSlot` ranges up to `maxclients`, one past the end, as that loop does).
`client_list_delete(n)` unlinks, gives the slot back only if it is the node's
own (line 323) and counts down. A freed structure is `Blank`: the code may not
read it any more. Tokens are not modelled: nothing reads them but the splash
page. `client_list_find_by_token()` is never called.

### Gateway

`pc`, `req`, `ptr` are each thread's place, request and `t_client` pointer;
`todo` holds the commands that the holder of the mutex has still to run and
`rules` counts the copies of each rule in the kernel, so that `-A` and `-D` act
as they do (a second `-A` makes a second copy, `-D` removes one).

| request | steps |
|---|---|
| first contact (splash) | `AddClient`, `ServeSplash` |
| auth page | `AddClient`, `Lookup`, `Verify`, `Act`, `Command` three times, `FinishAct`, `Reply` |
| deny page | `Lookup`, `Verify`, `Act`, ... |
| `ndsctl auth` | `AddClient`, `Act`, ... |
| `ndsctl deauth` | `Search`, `Act`, ... |
| time-out thread | `Wake`, `StartPass`, then `KeepClient` or `TimeOutClient` (`Command` three times, `FinishTimeOut`) for each entry, `EndPass` |

The ARP cache may answer anything at any time. `Verify` stands for the token
check over the network, without the mutex, and allows either outcome. When a
client counts as idle or connected for too long is left open here (`Expire`);
`Timeouts` says when. Traffic control is off, as by default, so a client's
access is three commands. A request thread that finds its client gone answers as
if it had acted (`auth_client_action()` returns nothing), as in the code.

### Timeouts

`now` counts ticks. A pass reads the counters into `lines`, one per rule with
its ip and bytes, applies them one by one to the *first* entry with that ip
(`ApplyLine`), then scans the list. Only the scan keeps the mutex, so clients
come and go between the lines. `Credit` is
lines 918-921 with `outgoing_history`, which the code never sets, equal to 0.
`MissCounters` is a `popen()` that fails for the outgoing or the incoming
counters; the incoming bytes time nobody out and are not modelled. A listing may
also lack any of its lines, all of them included (`short`): the shell runs, but
`iptables -L` fails or dies in the middle; `pclose()` is not asked and the scan goes
on. `lastSeen`, `unread` and `misread` record what really happened, for the
properties; `misread` are the clients that shared their ip or came when a line for it
was waiting. A line cut within its numbers or its address is not modelled.

### MacRules

The program first reads its configuration (`ListLine`, `MechanismLine`, in any
order, as lines may stand in the file), then `fw_init` builds the chains from the
lists, then commands come in: `ndsctl_add(l, mac)` is trust, block or allow by
the list `l`, `ndsctl_remove(l, mac)` its opposite. Each is one step, because the
handlers hold `config_mutex` from the test of the list to the answer. A command
that `iptables` refuses leaves the list changed, the kernel as it was, and answers
"No" (`Fails`); `failed` remembers it for the properties. The order of a list
is left out, so `fw_init` appends or inserts a list's rules in any order.

`chainBlocked` and `chainTrusted` are sequences, since order decides: allowed MACs
are inserted before the rule that marks everyone. `CHAIN_OUTGOING` is the set of
authenticated MACs, one client (and one ip) per MAC. A mark is the set of its
nonzero parts: the three state bits and `"index"`, the digits of `idx + 10` printed
before those of the state. `Marked` and `Matches` follow the two options that
`_iptables_check_mark_masking()` finds the kernel to have, in all four
combinations. `PREROUTING` is the order of the three jumps; `natOutgoing`,
`ToRouter` and `ToInternet` are the rules that compare marks, with a name in place
of each rule set of the configuration; `WebVerdict` and `Verdict` send a packet
through them.

### FwChains and Lifecycle

A rule is its target; chains are sequences of rules, because rules are inserted at
and deleted by numbers. A device of traffic control is a "chain" whose rules are
its classes and filters. Each command says whether its failure counts (`must`) and
how many commands its failure skips. `Lifecycle` gives every thread a program, the
name of such a sequence, and a place in it; `LOCK_CONFIG()` and `UNLOCK_CONFIG()`
stand in the sequences as commands of their own. The names of other programs' rules
(`OtherRule`) are not those of wifi-cat's own (`OwnRule`); `Used(c)` are the devices that
get a qdisc under configuration `c`.

| code | actions |
|---|---|
| `main()`, `main_loop()` | `FailToStart`, `StartLoop`, `FinishClean`, `FinishInit`, `CreateThreads`, `Exit` |
| requests, `ndsctl` | `Authenticate`, `Deauthenticate`, `MacCommand`, `FinishRequest` |
| a command | `Succeed`, `Refuse` (the kernel cannot), `Fault` (anything else), `Shortage` (code 4, retried), `LockConfig`, `UnlockConfig` |
| `iptables_fw_destroy_mention()` | `ListMention`, then `DeleteMention` by the number read (`found`); `MentionFails` |
| a command whose thread a signal took away | `Land`, at any later time, also after the end of the process |
| `termination_handler()` | `Deliver` (a signal, in any thread), `GiveUp` (called by the code), `Exit`, `AllGone` |
| a crash and a new start | `Restart` |

Rules appended to one chain in a row, whatever the configuration, are one
command. Other programs do not change the kernel's chains while the gateway runs.

A command is a process of its own, for which `execute()` waits. A signal runs
`termination_handler()` in the thread that waits, and nothing stops the command: `Deliver`
puts what the thread had running, or nothing if it had not forked yet, into `inFlight`,
and `Land` is the moment the kernel carries it out, before, between or after the
commands of the clean-up. Two history variables name the chains where that mattered:
`disturbed`, the kernel's chains that such a command changed, and `addedLate`, those to which
it added something, or a jump to which. A crash needs no such treatment:
the process is started again only when the commands in flight are through (`Restart`), and
until then a command that still takes effect is the same as one that did before the crash.

### Execute

One step per system call that matters: the two `sigaction()` calls, `fork()`,
`waitpid()`, a child's end, the handler. `overlap` is a history variable: which
threads were inside `execute()` together. A `waitpid()` that finds no child counts
as success, as in the code.

### AuthServer

A configuration is a sequence of keys with values or lists and a closing part; the
buffer has room for `BufLen` parts. `applied` counts the keys already in force, so
that `Refuse` leaves half a configuration behind as line 1000 of `conf.c` does. A list
takes its well-formed elements only, `blockedMACList` nothing under the mechanism
"allow" (`conf.c`:1571), and `freeDomainList` puts the addresses of those names into
`freeIPList` whose lookup does not fail (`Takes`); lookups may fail while the net is not
well. The configuration is accepted all the same. `unresolved` remembers, for the
property, the names whose last lookup failed. `Verify` returns anything when the answer has no blank line, since the function then
returns without a value.

### HttpRequest and Httpd

A path is its text split at the slashes (`<<"", "a", "b">>` is `/a/b`, `<<"..", "b">>`
is `../b`), a query the sequence of its parameters. `_httpd_sanitiseUrl` cleans only what stands
between two slashes, as lines 755 and 774 of `protocol.c` do: what comes before the
first slash and the entry are copied as they are; it keeps the one place that the code
can go back to. `_httpd_storeData` the buffer for names that is not cleared. In `Httpd` a call of
`strtok()` is a step and `save` the pointer all threads share: `FindNext` reads from the
buffer saved last, and once the thread that owns it has left the function, anything.
Handlers are in `Gateway`; here only their kind of answer. An answer is written with a
blocking `write()` without a time limit (`protocol.c`:70-80), so `httpdEndRequest` waits
until the client has taken it (`Written`); up to `MaxStalled` clients at a time stop
reading (`StopReading`), for ever or until they go on or close (`ReadOn`).

### NdsctlProtocol

A line is the command's name, the characters of its parameter and two terminators;
writes and reads move any number of these. `RunCommand` carries a command out in one
step: what it does is in `Gateway` and `MacRules`. Its parameter ends at the first
terminator read (`Param`), since lines 182-185 overwrite each with a zero. A peer that is gone before the
line's end leaves its handler in `Spin`, as the loop of line 176 does.

## The runs

| run | instance | shows |
|---|---|---|
| `clientlist` | 2 ips, 2 macs, 4 addresses, 3 slots | `TypeOK`, `CountMatchesList`, `SlotsMatchList`, `ClientsDistinct`; refinement of `ClientTable` |
| `gateway` | 1 ip shared by 2 macs, 3 addresses, 2 slots, 2 request threads and the time-out thread; commands succeed | `RulesMatchList`, `NoAccessWithoutSession`, `MarksDistinct`; the interleaved critical sections still refine `ClientTable` |
| `gateway_live` | 1 client, 2 request threads, commands may fail | `TimedOutRemoved`, `RequestsFinish` |
| `timeouts` | 2 macs that share an ip, check every tick, idle after 1, forced after 4, one pass in a row may miss or lack lines, 8 ticks | `ForcedOut`, `IdleOut`, `IdleMeansIdle` |
| `macs` | 2 macs, up to 3 rules in a chain, both mechanisms, all four kernels, commands may fail | `ChainsMatchLists`, `AccessIsGranted`, `GrantedHasAccess`, `YesHolds` |
| `lifecycle` | main and one other thread, 2 configurations, others' rules in 3 chains, 1 request, 2 troubles; commands in flight after a signal | `ServesFreshChains`, `OthersKept`, `ExitLeavesNoJump`, `OneCleanUp`, `CleanUpEnds` |
| `execute` | 3 threads, 4 calls, success and failure | `StatusReported`, `NoZombies`, `CallsReturn` |
| `server` | 2 values, 2 lists, 5 configurations (two good, refused half way, of the wrong type, too long), 2 outages, 2 tokens | `AcceptedApplied`, `LetInOnlyOnYes`, `StartsOnceUp` |
| `httpd` | 2 threads, 3 connections, 10 first lines, 1 client that stops reading | `ThreadsAccounted`, `OwnDirectory`, `PlainNames`, `FirstTokenUsed`, `ConnectionsClosed` |
| `ndsctl` | 2 runs with any of 5 command lines, 2 troubles | `CommandWhole`, `RunsEnd` |
| `splash_pointer` | as `gateway` | *violation* of `PointerToListEntry` |
| `blocked_client` | as `macs` | *violation* of `BlockedIsDropped` |

Why the bounds are enough. In `clientlist` four keys exceed three slots, so the
list is full with a key outside, and every hole in the array can be made and
reused; the fourth address makes the choice of `malloc()` matter. In `gateway`
two threads can act on one client and the third removes it; two macs on one ip
share a counter rule, the case in which `-D` of one copy must not take the
other's; the second slot makes index reuse visible. `MaxCopies` bounds the copies
of a rule: with the commands succeeding two are never exceeded (the run would
report it), in `gateway_live` a command at the bound may only fail. Symmetry
among threads, addresses and nodes is used in the safety runs only. In `timeouts`
the limits are chosen so that `IdleOut` bites before `ForcedOut` and both before
`MaxTime`; both bounds are reached to within one tick. The run may stop, because time
ends: its cfg turns the deadlock check off. `MaxDelay`, how late a pass may be or
how long it may take, is 0 there. One ip is enough for clients that are alone on it,
that share it, and that come while its line is waiting; that clients on
different ips do not touch each other is left to the proofs. `MaxMisses` also bounds the
listings in a row that lack lines: without it no bound on the idle time would hold.

In `macs` the commands are about one MAC while the other stands by, blocked,
trusted, allowed or authenticated; three rules are both MACs and the rule for
everyone. A command at that bound may only fail, which needs a rule left over from
a command that failed.

In `lifecycle` the two troubles are any two of a crash and new start, a signal,
and a failing command, at any place: two crashes in a row, a crash over a
start that itself followed a crash, a signal during the clean-up of another, a failed
command in the clean-up after a crash, a signal while the first clean-up deletes a rule
by its number. One limited device, which comes up, is enough for leftovers of traffic
control; one that does not come up is left to the proofs. The two configurations differ in rule sets,
MACs and traffic control, so that leftovers of one meet the start of the other.
`Tries` is 2 in place of 5: one retry that helps and one that does not. In `execute`
two overlapping calls suffice to bring the handler back under one that is inside; the
third thread has a child that the handler may reap in place of the one it was for. In `httpd` the threshold is 1, so the accept loop
sleeps and finds another number of threads afterwards; the third connection reuses a
thread whose buffer `strtok()` may still point to. `MaxStalled` is one less than the
model's threads: the program makes as many as it has connections, so that a stalled one
does not keep it from making another. In `ndsctl` every place to cut a line
occurs, and the parameter of one command line is longer than the room for it. In
`server` the buffer just holds the configuration that is refused half way and cuts the
one that is too long.
These runs may stop, since the process exits or its clients are finitely many.

**Fairness.** Threads are scheduled by the system, so each that can run does. In
`gateway_live`: weak fairness of a thread's steps and of its commands, which all
return. Mutexes are not granted in order, but a thread that waits while the
mutex is released again and again gets it in the end: strong fairness of the
steps that take it. The counters become readable in the end, so `Wake` is fair. In
`execute` and `ndsctl` each thread's and run's own steps are weakly fair; new calls,
killed runs and failures are not assumed. In `lifecycle` and `httpd` requests,
troubles and connections are finitely many, so that weak fairness of all threads
together is enough: one that waits is in the end the only one left. That a client takes
what is sent to it is assumed of none. In `server` the
gateway's steps are weakly fair and `StartsOnceUp` has the recovery as a premise.

## What the violations show

1. `http_nodogsplash_add_client()` returns "the client list entry for this
   client" (http.c:399-405) after releasing the mutex, and
   `http_nodogsplash_first_contact()` reads the token from it. `ndsctl deauth` or a
   time-out in between frees it.
2. "MAC addresses who will be completely blocked from the GatewayInterface"
   (wificat.conf:266-267): on a kernel with `--or-mark` and masks the packets of an
   authenticated client whose MAC is blocked carry both bits, match neither state
   and are treated as those of a client not yet authenticated. `AccessIsGranted`
   shows that they never get the rules of authenticated users.

## What the properties leave open

The models contain these behaviours of the code, and the properties are stated so
as not to deny them.

- A failed `iptables` command leaves list and kernel apart, because nobody reads the
  return code of `iptables_fw_access()`. `RulesMatchList` is checked with commands
  that succeed, `gateway_live` with commands that may fail.
- A listing of the counters that fails after a successful `popen()` credits nobody
  and is not noticed: the scan removes active clients as idle. `IdleMeansIdle` allows it
  for a client whose line was missing, and for no other.
- Of two entries with one ip only the first is credited with traffic, and a counter
  line read for a client that was removed and added again goes to the new
  entry. From then on such an entry's own traffic may go unseen, or it may live on the
  other's; `IdleMeansIdle` and `IdleOut` except it, by `misread`, until it is removed.
- Overlapping calls of `execute()` may report a failed command as a success.
- A signal that hits a thread which holds `config_mutex` waits for itself in
  `fw_destroy()`: `CleanUpEnds` is about the other threads. A second signal may end
  the thread that cleans up. Requests that go on during the clean-up may leave a
  mangle chain behind (`ExitLeavesNoJump` says which, and that nothing jumps to it).
- Nothing waits for the command that a thread had running when the signal took it away. It
  may delete another program's rule, because it was given a number that the handler's own
  deletions have made stale, or it may make stale the number that the handler
  has just read; a start-up command may insert a jump after the clean-up has looked for it,
  which then stays. `OthersKept` is about the chains in which no such command took
  effect, `ExitLeavesNoJump` about those to which none added anything late.
- A device that the configuration does not use may keep the qdisc of an earlier process
  with another configuration, since `tc_destroy_tc()` does not look at results;
  `ServesFreshChains` is about the chains and the devices in use.
- A crash while the kernel is tried out leaves the test rule in a built-in chain.
- Detaching a client keeps its filters, so the kernel may refuse to delete its class.
- Threads share the pointer of `strtok()`, so a request may get the 404 page in place
  of its own; `OwnDirectory` says that it never gets another's handler.
- A "." or ".." before the first slash of a path that begins without one is not cleaned
  and looked up; `PlainNames` says that it is the only one. No directory has such a
  name, so the answer is the 404 page.
- A client that stops reading its answer keeps its thread and its connection as long as
  it likes. `ConnectionsClosed` excludes that thread, and only that one: the others are
  served and connections accepted. (`Gateway`'s `Reply` is the end of its request there; the
  write is only in `Httpd`.)
- A parameter without "=" before the last one may take the rest of an earlier, longer
  name; `FirstTokenUsed` is about the other queries.
- `token_verify()` returns without a value when an answer has no blank line.
- A configuration is accepted although elements of its lists are dropped: malformed
  ones, every MAC to block under the mechanism "allow", every domain name whose lookup
  failed. Nothing tries them again. `AcceptedApplied` is about the other elements
  (`ListInForce`), about the scalar values and about keys that are not known.
- The `ndsctl` handler spins for ever on a connection closed before the line's end,
  and after a failed read its position is off by one.

## The proofs

`ClientListProofs` proves, for all `IP`, `MAC`, `Node` and every natural
`maxclients`:

- `Invariance`: `Spec => []IInv`;
- `TypeCorrect`, `CountCorrect`, `SlotsCorrect`, `DistinctCorrect`, `LimitKept`:
  the invariants that the run `clientlist` checks on its instance;
- `Refinement`: `Spec => Table!Spec`, every step of the list adds, authenticates
  or removes one session or changes none.

Assumptions: `maxclients` is a natural number, `NULL` is no address. None of the invariants is inductive alone. That a free slot exists
needs the count to match the list *and* the slots to match it: the occupied slots
are the images of the listed nodes under `idx`, an injection because the array
gives each slot one holder, so fewer than `maxclients` nodes leave a slot free
(lemma `FreeSlotIsFree`, by cardinality). That deletion leaves no second link to a
freed node needs `ListInjective`; that a node's session is well defined needs
`ClientsDistinct`, and that it has a key `ListedHaveKeys`. `IInv` is their
conjunction. Its preservation is proved for the three changes an operation can
make (`AppendIInv`, `DeleteIInv`, `AuthenticateIInv`), to which `StepCases` reduces
every disjunct of `Next`; the refinement follows the same three.

`GatewayProofs` extends the proofs about the list to any number of threads that
interleave at every lock, unlock and command. `GIInv` joins `IInv` with the threads'
places, with the mutex (held by exactly the thread whose place says so, `MutexHeld`)
and with the commands left to run (`CommandsLeft`: the last ones of
`iptables_fw_access()` for a client that is listed and authenticated until they are
done). The last one is why a critical section never acts on a node that another thread
has freed, and it needs the mutex to survive the steps of the others.
`GatewayInvariance`, `GatewayTypes`, `MutualExclusion` and `GatewayRefinement` hold
whether commands fail or not. The kernel is followed by `RulesExact`: each rule is there
as often as authenticated clients use it, less one where the holder of the mutex has it
still to add or has just deleted it. From it come `RulesCorrect`, `AccessCorrect` and
`MarksCorrect`, under `~CommandsMayFail`; with failing commands they are false, since
nobody reads the return codes. Counting is by cardinality, because two clients
behind one ip share the rule that counts their download.

`TimeoutsProofs` proves the bounds for all intervals, delays and numbers of missed
or short listings. `TInv` adds the clock, the time stamps, the owners of counters and
that two clients of one ip are in `misread` (`Apart`) to `IInv`.
`ForcedOut` and `IdleOut` need more: `Due(f, L)` says of every listed client how far its
deadline may be over between two scans, and of those the scan has left behind that
theirs was not over when the pass began. It is proved once for `f` the time of adding
and once for the time of the last update. `Noticed` says how old the activity is
that a counter, or a line not applied yet, tells of, by the time for which it can have
gone unread (`Behind`); `Credited` that activity is credited, about to be, or not read
yet, both for the clients outside `misread`. `IdleOnlyIfIdle` has no hypothesis. The
bounds have one:

- `ForcedOutInTime`: `clientforceout > 0` or `MaxDelay > 0`, and `IdleOutInTime`
  likewise with `clienttimeout`. With a limit of 0, which `conf.c` accepts, and passes
  without delay a client is met on the bound and not before it.

`MacRulesProofs` proves `MacRulesTypes`, `ChainsFollowLists`, `AnswersTrue`,
`AccessOnlyIfGranted` and `GrantedGetsAccess` for any set of MACs, bounds, both mechanisms
and all kernels, with commands that fail. `MInv` holds what they rest on: each listed MAC's
rule is in its chain exactly once (`RulesOnce`, `Cardinality` follows from it), the rule
for everyone stays behind those of the allowed MACs (`EveryoneLast`), and the last answer
agrees with the list (`AnswerMatchesList`). The order of the other rules is free, so the
verdicts are proved from the first rule that applies.

`AuthServerProofs` proves `AcceptedInForce` and `LetInOnYes` for any configurations and
buffer. `AcceptedApplied` is about the end of a loop; `Applying` is its invariant:
the first `applied` keys of the answer are in force, the last value where a key came
twice, the lists as far as `ListInForce` says (`ListTaken`: what a key adds takes
nothing away that an earlier one put there). That the loop ends with the last key needs the answer to be a configuration and
its end (`Answered`), and asking again needs a path that is served (`PathKnown`).
Assumptions: a configuration is a sequence in which its end does not occur, and the
server answers every path it has given out with a configuration.

`HttpdProofs` proves `CountExact` and `DirectoryOwned` for any set of threads, finite or
not. `Own` says of each thread that, while it searches, the directory found is the first
name of its own path and it has no handler yet. Whatever `strtok()` then returns from
another's buffer only decides between this directory and the 404 page. The
count is the cardinality of the threads inside.

`PlainNamesOnly` and `TokenOfFirst` are about the text itself, for paths and queries of
any length. `Asked`, in `TextInv`, says that a thread's request is one of the first lines,
its path cleaned, and that its variables are those of its query while it is processed.
What `_httpd_sanitiseUrl` and `_httpd_storeData` compute is proved by following their
recursive functions name by name and parameter by parameter, with a set of numbers that
is closed under successor (lemma `UpTo`) in place of induction. `CleanSoFar` is what
holds between two names: all that was copied is plain, but for the first name, which is
the one that the text began with or, after a "/../" that went back to the start, empty.
Assumption: paths are sequences of names, not of one (a text without a slash is no
path), and queries sequences of parameters.

`NdsctlProofs` proves `CommandsWhole` for any runs, commands and lengths. `OnItsWay` is
the invariant: what is taken, on its way and unsent make up the line, as long as no read
failed. When a terminator has come the whole request is before the first one, so the
name and the parameter cut out there are those that were asked for. Assumption:
terminators occur in no name and no parameter.

`LifecycleProofs` proves all safety invariants of the run `lifecycle`, for any threads,
configurations, rules of other programs and numbers of requests and troubles. The
programs are concatenations that depend on the configuration, so the proofs rest on
lemmas that say, of each, of which commands it is made and in which order.

- `OneCleansUp`. `Control`: what a thread runs follows from its job, it is at a command of
  that program or behind its end, and until the main thread serves the others have no job.
- `OthersStay`. A rule is deleted by its number, so what is at that place must be known:
  the test rule (`TestOnTop`: between its insertion and its deletion it is the first, as
  nobody else inserts then) or the mention found by the command before (`NumbersStay`: at
  that place there is still a rule of wifi-cat's, because nobody else changes the built-in
  chains then, or an interrupted command has changed this one and it is among
  `disturbed`). `HeldInHandler` says that commands are in flight only when a thread has
  begun the clean-up.
- `ExitsClean`. `Sound`: a jump or a rule is only in a chain that exists, a jump only to
  one. `CleanSoFar`: while a thread cleans up and no command failed, the commands behind
  it have achieved what they are for, and what other threads do in the meantime does not
  undo it, except that requests add rules of clients and MACs and that interrupted
  commands add what `addedLate` names (`AchievedIn`, `NoMore`). A chain is deleted when it
  is empty and nothing jumps to it; that both hold is achieved by its flush, by the
  removal of its mentions and by the flush of the chains that jump to it, all of them
  before (`CleansUp`). `RequestsCounted` says that such rules are there only if there were
  requests.
- `ServesAsOnFirstStart`. `fw_init()` is put together from pieces each of which finds what its
  commands need (`Ready`, `Ordered`, `Piece`). `FreshAt(c, i)` is the kernel of a first start
  after `i` commands. `Building`: over any leftovers, as long as no command failed that
  counts, every chain made so far has the rules it has in `FreshAt`, and each built-in chain
  begins with the same jumps, behind which leftovers lead to no chain of wifi-cat's that was
  made (`Alike`, `Aligned`); a device that does not come up is left out in both. A `-N` succeeds only for
  a chain that does not exist, and by `Sound` nothing jumps to it then. At the end all chains
  are made, so no leftover is looked at any more, and from then on requests add and
  remove only what `Skeleton` leaves out.

Assumptions: `NULL` and `Main` are no workers, `Conf` are configurations, `Others` are rules
of other programs, and these have names of their own.

The same module proves, for every set of threads, number of calls and set of outcomes
that contains 0, what the run `execute` checks on three threads: `ExecuteTypes`,
`ExecuteReportsStatus` and `ExecuteLeavesNoZombies`. `StatusReported` is not inductive:
that a call which met no other reports its own child needs `AloneSafe` (SIGCHLD has
the default treatment and none is pending, so the handler cannot take the child),
and for that to survive the steps of other threads `OverlapKnown` (two calls inside
together both know it, so no other call restores the handler behind the back of one
that believes to be alone); `NoZombies` needs `ChildPlaced`, the place of a child by the
place of its thread. `ExecuteInvariant` is their conjunction with the types, proved step by
step in one lemma per conjunct.

Each inductive invariant, and each part that needs a hypothesis, was model-checked on
the instance of its run before it was proved. For `Lifecycle` that was also done with
an instance that differs from the run's: with four configurations, of which one limits
two devices and one has a device that does not come up, the four safety invariants were
checked on 2003143 states. An earlier form of `ServesFreshChains` that looked at every
device was found to be false there.

Only model-checked: liveness under fairness and `ENABLED`, which are out of the
prover's reach (`TimedOutRemoved`, `RequestsFinish`, `CallsReturn`, `CleanUpEnds`,
`StartsOnceUp`, `ConnectionsClosed`, `RunsEnd`). Every other property of the passing runs is
a theorem.

## Plan

Lemmas that several proof modules state for themselves (`UpTo`, `LeastNumber`, a removal
from a list) could move to one module. A run of `Lifecycle` with more configurations
would show more leftovers meeting a start, at a cost of more than a million states.

## Not modelled

- `jsmn.c`, a vendored parser: `AuthServer` tells text that parses from text that does
  not. `libhttpd/ip_acl.c`: no access list is ever set.
- Option parsing, reading the configuration file, logging, allocation (a failure ends
  the process), HTML, templates and the status texts of `util.c`: parsing, formatting or
  pure input and output. Values of the file are constants of the models.
- Headers, cookies and logs of `libhttpd`'s answers; preload functions, of which none is
  registered; `http_nodogsplash_check_userpass()`, which is never called.
- The rates of traffic control.
- The data race of the status page (util.c:590) with commands that free nodes of the
  MAC lists: `MacRules` has the lists as sets.
- Changes of the kernel's chains by other programs while the gateway runs.
