----------------------------- MODULE Lifecycle -----------------------------
(***************************************************************************)
(* The life of the process over the kernel's chains: main_loop() cleans    *)
(* up, builds the chains, and serves; requests and ndsctl commands change  *)
(* rules; a signal makes the thread it hits run termination_handler(); a   *)
(* crash leaves the kernel as it is; and the process is started again,     *)
(* perhaps with another configuration.                                     *)
(*                                                                         *)
(* Every thread runs a program of commands, split at each command and each *)
(* use of config_mutex.  A command is a process of its own: a signal takes *)
(* its thread away from it, and it still takes effect, at a time of its    *)
(* own.  Other programs' rules are in the kernel's chains too and stay in  *)
(* place while wifi-cat runs.                                              *)
(***************************************************************************)
EXTENDS FwChains

CONSTANTS Main, Worker,     \* the main thread; the others once they run
          NULL,
          Conf,             \* the configurations the process may be started with
          MacChain,         \* the chains that ndsctl commands change
          Others,           \* other programs' rules in the kernel's chains
          MaxRequests,      \* bounds of the model: clients let in and MAC commands;
          MaxTroubles,      \* restarts, signals and failing commands together
          Tries             \* how often a command is run when the kernel is short
                            \* of resources: 5 in iptables_do_command()

ASSUME ThreadAssumption == NULL \notin Worker \cup {Main} /\ Main \notin Worker
ASSUME ConfAssumption == /\ Conf \subseteq Configuration
                         /\ MacChain \subseteq {"mangle BLOCKED", "mangle TRUSTED"}
ASSUME OthersAssumption == Others \in [BuiltIn -> Seq(OtherRule)]
ASSUME BoundsAssumption == {MaxRequests, MaxTroubles, Tries} \subseteq Nat

VARIABLES
    conf,           \* the configuration of this process
    kernel,         \* the chains, which outlive the process
    status,         \* the process: running, exited, or gone thread by thread
    job,            \* per thread, what it is doing
    prog, at,       \* per thread, the commands it runs and the number of the next
    found,          \* per thread, the number it read in a listing, 0 if none
    tries,          \* per thread, how often that one was run
    inFlight,       \* commands whose thread was interrupted: <<when, command>>
    disturbed,      \* the kernel's chains in which one took effect after that
    addedLate,      \* the chains to which, or a jump to which, this process's added
    rc,             \* iptables_fw_init() has seen a failure
    config_mutex, sigterm_mutex,    \* the holder
    authenticated,  \* a client is authenticated
    troubles, faults, requests  \* counts: restarts, signals and faults together;
                    \* of this process, commands that failed; requests

progVars == <<prog, at, found>>
threadVars == <<job, progVars, tries>>
lateVars == <<inFlight, disturbed, addedLate>>
mutexVars == <<config_mutex, sigterm_mutex>>
countVars == <<troubles, faults, requests>>
vars == <<conf, kernel, status, threadVars, lateVars, rc, mutexVars, authenticated, countVars>>

Thread == Worker \cup {Main}

Running == status = "running"

Trouble == troubles < MaxTroubles /\ troubles' = troubles + 1

\* The programs that threads run, by name; under each configuration.
CommandsOf(c) ==
    [none |-> <<>>, destroy |-> fw_destroy(c), init |-> fw_init(c),
     authenticate |-> fw_authenticate(c), deauthenticate |-> fw_deauthenticate(c),
     block |-> ndsctl_mac("mangle BLOCKED"), trust |-> ndsctl_mac("mangle TRUSTED")]
PerConf(F(_)) == [c \in Conf |-> F(c)]
Commands == PerConf(CommandsOf)

Ended(t) == at[t] > Len(Commands[conf][prog[t]])
Cmd(t) == Commands[conf][prog[t]][at[t]]

\* Thread t goes on with job j, running program p.
Do(t, j, p) == /\ job' = [job EXCEPT ![t] = j]
               /\ prog' = [prog EXCEPT ![t] = p]
               /\ at' = [at EXCEPT ![t] = 1]
               /\ found' = [found EXCEPT ![t] = 0]

\* Thread t goes on to the n-th command from here.
GoOn(t, n) == /\ at' = [at EXCEPT ![t] = @ + n]
              /\ found' = [found EXCEPT ![t] = 0]
              /\ UNCHANGED prog

----------------------------------------------------------------------------
(* Start: main() up to the first clean-up of main_loop().  Before          *)
(* init_signals() a signal just ends the process (Restart).  *)

JobsAtStart == [t \in Thread |-> IF t = Main THEN "boot" ELSE "none"]

Init == /\ kernel = EmptyKernel(Others)
        /\ conf \in Conf
        /\ status = "running"
        /\ job = JobsAtStart
        /\ prog = [t \in Thread |-> "none"] /\ at = [t \in Thread |-> 1]
        /\ found = [t \in Thread |-> 0]
        /\ tries = [t \in Thread |-> 0]
        /\ inFlight = {} /\ disturbed = {} /\ addedLate = {}
        /\ rc = 0
        /\ config_mutex = NULL /\ sigterm_mutex = NULL
        /\ authenticated = FALSE
        /\ troubles = 0 /\ faults = 0 /\ requests = 0

\* No address of the interface, or no web server: exit(1).
FailToStart ==
    /\ Running /\ job[Main] = "boot"
    /\ status' = "exited"
    /\ UNCHANGED <<conf, kernel, threadVars, lateVars, rc, mutexVars, authenticated, countVars>>

StartLoop ==
    /\ Running /\ job[Main] = "boot"
    /\ Do(Main, "clean", "destroy")
    /\ UNCHANGED <<conf, kernel, status, tries, lateVars, rc, mutexVars, authenticated, countVars>>

\* What the main thread does at the end of each of its programs.
FinishClean ==
    /\ Running /\ job[Main] = "clean" /\ Ended(Main)
    /\ Do(Main, "init", "init")
    /\ UNCHANGED <<conf, kernel, status, tries, lateVars, rc, mutexVars, authenticated, countVars>>

FinishInitIgnoresFailure ==                         \* a wrong FinishInit
    /\ Running /\ job[Main] = "init" /\ Ended(Main)
    /\ Do(Main, "create", "none")
    /\ UNCHANGED <<conf, kernel, status, tries, lateVars, rc, mutexVars, authenticated, countVars>>

FinishInit ==
    /\ Running /\ job[Main] = "init" /\ Ended(Main)
    /\ IF rc = 0 THEN Do(Main, "create", "none") ELSE Do(Main, "undo", "destroy")
    /\ UNCHANGED <<conf, kernel, status, tries, lateVars, rc, mutexVars, authenticated, countVars>>

\* The time-out and the ndsctl thread; requests make threads of their own.
CreateThreads ==
    /\ Running /\ job[Main] = "create"
    /\ job' = [t \in Thread |-> IF t = Main THEN "serve" ELSE "idle"]
    /\ UNCHANGED <<conf, kernel, status, progVars, tries, lateVars, rc, mutexVars, authenticated, countVars>>

\* The end of the process: exit(1) after a failed start; exit() of the handler, or
\* the SIGKILL that it sends to the time-out thread before.
Exit(t) ==
    /\ Running /\ job[t] \in {"undo", "terminate"} /\ Ended(t)
    /\ status' = "exited"
    /\ UNCHANGED <<conf, kernel, threadVars, lateVars, rc, mutexVars, authenticated, countVars>>

----------------------------------------------------------------------------
(* Requests: a client is authenticated or deauthenticated, a MAC blocked   *)
(* or trusted.  *)

Serve(w, j, p) ==
    /\ Running /\ job[w] = "idle"
    /\ Do(w, j, p)
    /\ UNCHANGED <<conf, kernel, status, tries, lateVars, rc, mutexVars, troubles, faults>>

CountRequest == requests < MaxRequests /\ requests' = requests + 1

\* client_list_mutex keeps two threads from doing this at the same time.
Authenticate(w) ==
    /\ CountRequest
    /\ ~authenticated /\ \A v \in Worker : job[v] # "access"
    /\ authenticated' = TRUE
    /\ Serve(w, "access", "authenticate")
Deauthenticate(w) ==
    /\ authenticated /\ \A v \in Worker : job[v] # "access"
    /\ authenticated' = FALSE
    /\ Serve(w, "access", "deauthenticate")
    /\ UNCHANGED requests
MacCommand(w, chain) ==
    /\ CountRequest
    /\ UNCHANGED authenticated
    /\ Serve(w, "mac", IF chain = "mangle BLOCKED" THEN "block" ELSE "trust")

FinishRequest(w) ==
    /\ Running /\ job[w] \in {"access", "mac"} /\ Ended(w)
    /\ Do(w, "idle", "none")
    /\ UNCHANGED <<conf, kernel, status, tries, lateVars, rc, mutexVars, authenticated, countVars>>

----------------------------------------------------------------------------
(* Commands. *)

CanRun(t) == Running /\ job[t] \notin {"none", "dead"} /\ ~Ended(t)

LockConfig(t) ==
    /\ CanRun(t) /\ Cmd(t).op = "lock"
    /\ config_mutex = NULL
    /\ config_mutex' = t
    /\ GoOn(t, 1)
    /\ UNCHANGED <<conf, kernel, status, job, tries, lateVars, rc, sigterm_mutex, authenticated, countVars>>

UnlockConfig(t) ==
    /\ CanRun(t) /\ Cmd(t).op = "unlock"
    /\ config_mutex' = NULL
    /\ GoOn(t, 1)
    /\ UNCHANGED <<conf, kernel, status, job, tries, lateVars, rc, sigterm_mutex, authenticated, countVars>>

\* What the kernel makes of a command.
RunCommand(k, cmd) == IF Accepts(k, cmd) THEN Effect(k, cmd) ELSE k

Execs(t) == CanRun(t) /\ Cmd(t).op \notin {"lock", "unlock", "mention"}

Succeed(t) ==
    /\ Execs(t) /\ Accepts(kernel, Cmd(t))
    /\ kernel' = Effect(kernel, Cmd(t))
    /\ GoOn(t, 1)
    /\ tries' = [tries EXCEPT ![t] = 0]
    /\ UNCHANGED <<conf, status, job, lateVars, rc, mutexVars, authenticated, countVars>>

\* The command returns something else than 0, and than 4 but the last time.
Failed(t) ==
    LET cmd == Cmd(t)
    IN /\ GoOn(t, cmd.skip + 1)
       /\ rc' = IF job[t] = "init" /\ cmd.must THEN 1 ELSE rc
       /\ tries' = [tries EXCEPT ![t] = 0]
       /\ UNCHANGED <<conf, kernel, status, job, lateVars, mutexVars, authenticated, requests>>

Refuse(t) ==
    /\ Execs(t) /\ ~Accepts(kernel, Cmd(t))
    /\ Failed(t)
    /\ UNCHANGED <<troubles, faults>>

\* Something else goes wrong with the command.
Fault(t) ==
    /\ Execs(t) /\ Cmd(t).op \notin {"link", "no link"}
    /\ Trouble /\ faults' = faults + 1
    /\ Failed(t)

\* iptables returns 4, and is run again after a second, or not any more;
\* tc is run once.
LastTry(t) == tries[t] + 1 = Tries

Shortage(t) ==
    /\ Execs(t) /\ Cmd(t).on \notin Imq
    /\ Trouble /\ faults' = faults + 1
    /\ \/ /\ ~LastTry(t)
          /\ tries' = [tries EXCEPT ![t] = @ + 1]
          /\ UNCHANGED <<conf, kernel, status, job, progVars, lateVars, rc, mutexVars, authenticated, requests>>
       \/ /\ LastTry(t)
          /\ Failed(t)

\* iptables_fw_destroy_mention(): the chain is listed, the first rule with
\* the target is deleted by the number that the listing gave it, and the
\* function calls itself until there is none.
Mentions(t) == CanRun(t) /\ Cmd(t).op = "mention"
Deletes(t) == Mentions(t) /\ found[t] > 0
Deletion(t) == DeleteNth(Cmd(t).on, found[t])

ListMention(t) ==
    LET n == Mention(kernel, Cmd(t).on, Cmd(t).to)
    IN /\ Mentions(t) /\ found[t] = 0
       /\ IF n = 0 THEN GoOn(t, 1)
                   ELSE found' = [found EXCEPT ![t] = n] /\ UNCHANGED <<prog, at>>
       /\ UNCHANGED <<conf, kernel, status, job, tries, lateVars, rc, mutexVars, authenticated, countVars>>

DeleteMention(t) ==
    /\ Deletes(t)
    /\ kernel' = RunCommand(kernel, Deletion(t))
    /\ GoOn(t, 0)
    /\ UNCHANGED <<conf, status, job, tries, lateVars, rc, mutexVars, authenticated, countVars>>

\* The deletion fails and the chain is listed again, whatever its code; or the
\* listing cannot be made, and the rule stays.
MentionFails(t) ==
    /\ Mentions(t)
    /\ Trouble /\ faults' = faults + 1
    /\ GoOn(t, IF Deletes(t) THEN 0 ELSE 1)
    /\ UNCHANGED <<conf, kernel, status, job, tries, lateVars, rc, mutexVars, authenticated, requests>>

\* A command whose thread waits for it no more takes effect, at any time, also
\* after the end of the process.
Additions == {"-N", "-I", "-A"}
Landed(cmd) ==
    /\ kernel' = Effect(kernel, cmd)
    /\ disturbed' = disturbed \cup ({cmd.on} \cap BuiltIn)
    /\ addedLate' = addedLate \cup IF cmd.op \in Additions THEN {cmd.on, cmd.to} \cap Chain ELSE {}
Land ==
    \E run \in inFlight :
        /\ inFlight' = inFlight \ {run}
        /\ IF Accepts(kernel, run[2]) THEN Landed(run[2])
                                     ELSE UNCHANGED <<kernel, disturbed, addedLate>>
        /\ UNCHANGED <<conf, status, threadVars, rc, mutexVars, authenticated, countVars>>

RunProgram(t) ==
    \/ LockConfig(t) \/ UnlockConfig(t) \/ Succeed(t) \/ Refuse(t)
    \/ ListMention(t) \/ DeleteMention(t)

----------------------------------------------------------------------------
(* termination_handler(): the first thread in it cleans up and ends the    *)
(* process, any other ends itself, with whatever it holds.                 *)

BeginAlways(t) ==                                   \* a wrong Begin
    /\ sigterm_mutex' = t
    /\ Do(t, "terminate", "destroy")
Begin(t) ==
    IF sigterm_mutex = NULL
    THEN /\ sigterm_mutex' = t
         /\ Do(t, "terminate", "destroy")
    ELSE /\ UNCHANGED sigterm_mutex
         /\ Do(t, "dead", "none")

termination_handler(t) ==
    /\ Begin(t)
    /\ tries' = [tries EXCEPT ![t] = 0]
    /\ UNCHANGED <<conf, kernel, status, disturbed, addedLate, rc, config_mutex, authenticated, requests>>

\* The command that thread t is about to fork, or waits for.
Child(t) == IF Execs(t) THEN {Cmd(t)} ELSE IF Deletes(t) THEN {Deletion(t)} ELSE {}

\* SIGTERM, SIGINT or SIGQUIT, handled by any thread.  The handlers are
\* installed with an empty mask, so a thread in the handler of one signal
\* handles another.  Nothing stops the command that the thread waits for:
\* it goes on beside those of the handler.  ndsctl stop sends SIGINT.
Deliver(t) ==
    /\ Running /\ job[t] \notin {"none", "dead"}
    /\ Trouble
    /\ \E running \in SUBSET Child(t) :
           inFlight' = inFlight \cup {<<troubles, cmd>> : cmd \in running}
    /\ termination_handler(t)
    /\ UNCHANGED faults

\* A thread that cannot be created, a web server that fails.
GiveUp(t) ==
    /\ Running /\ job[t] \in {"create", "serve", "idle"}
    /\ Trouble /\ faults' = faults + 1
    /\ termination_handler(t)
    /\ UNCHANGED inFlight

\* The process ends with its last thread.
AllGone ==
    /\ Running /\ \A t \in Thread : job[t] \in {"none", "dead"}
    /\ status' = "gone"
    /\ UNCHANGED <<conf, kernel, threadVars, lateVars, rc, mutexVars, authenticated, countVars>>

\* The process has ended, or is ended by SIGKILL or a fault of its own, at
\* any moment, and is started again; not before the commands that are still
\* in flight are through.
Restart ==
    /\ Trouble
    /\ inFlight = {}
    /\ conf' \in Conf
    /\ status' = "running"
    /\ job' = JobsAtStart
    /\ prog' = [t \in Thread |-> "none"] /\ at' = [t \in Thread |-> 1]
    /\ found' = [t \in Thread |-> 0] /\ tries' = [t \in Thread |-> 0]
    /\ rc' = 0
    /\ config_mutex' = NULL /\ sigterm_mutex' = NULL
    /\ authenticated' = FALSE
    /\ addedLate' = {} /\ faults' = 0
    /\ UNCHANGED <<kernel, inFlight, disturbed, requests>>

Next ==
    \/ FailToStart \/ StartLoop \/ FinishClean \/ FinishInit \/ CreateThreads
    \/ \E t \in Thread : RunProgram(t) \/ Exit(t)
    \/ \E t \in Thread : Fault(t) \/ Shortage(t) \/ MentionFails(t) \/ GiveUp(t)
    \/ \E t \in Thread : Deliver(t)
    \/ \E w \in Worker : \/ Authenticate(w) \/ Deauthenticate(w) \/ FinishRequest(w)
                         \/ \E c \in MacChain : MacCommand(w, c)
    \/ Land \/ AllGone \/ Restart

\* The system does not stay idle while a thread can run.  That is enough:
\* programs are finite, and so a thread that waits for config_mutex is in
\* the end the only one left.
Fairness == WF_vars(\E t \in Thread : RunProgram(t) \/ Exit(t) \/ FinishRequest(t))

Spec == Init /\ [][Next]_vars /\ Fairness

----------------------------------------------------------------------------
(* Properties *)

\* What is left of sequence s without the entries outside S.
Only(s, S) ==
    LET f[i \in 0 .. Len(s)] ==
            IF i = 0 THEN <<>> ELSE IF s[i] \in S THEN Append(f[i - 1], s[i]) ELSE f[i - 1]
    IN  f[Len(s)]
Without(s, S) == Only(s, Rule \ S)

Jumps(k, c) == Only(k.rules[c], OwnChain)

\* The chain without what requests add to it.
Skeleton(k, c) == Without(k.rules[c], {"client", "mac", "filter"})

\* What a start over a kernel without leftovers gives: each command that
\* the kernel accepts takes effect, and those that prepare a device that
\* does not come up are passed over.
PassedOver(cmds, i) ==
    \E j \in 1 .. i - 1 : cmds[j].op = "no link" /\ i <= j + cmds[j].skip
FreshKernel(c) ==
    LET cmds == fw_init(c)
        run[i \in 0 .. Len(cmds)] ==
            IF i = 0 THEN EmptyKernel(Others)
            ELSE IF PassedOver(cmds, i) THEN run[i - 1]
            ELSE RunCommand(run[i - 1], cmds[i])
    IN  run[Len(cmds)]

\* The devices that get a qdisc under configuration c.
Used(c) == IF c.traffic_control THEN c.limited \cap c.up ELSE {}

\* While the process serves and no clean-up has begun, the chains and the
\* jumps to them, and the devices that it uses, are exactly those of a first
\* start with this configuration, whatever earlier processes left in the
\* kernel and wherever they crashed, and whichever commands failed:
\* main_loop() cleans up first, and does not serve when a command of
\* fw_init() failed.  A device that it does not use may still have the
\* qdisc of an earlier process: tc_destroy_tc() does not look at results.
ServesFreshChains ==
    (Running /\ job[Main] \in {"create", "serve"} /\ sigterm_mutex = NULL) =>
        LET fresh == FreshKernel(conf)
            looked == OwnChain \cup Used(conf)
        IN /\ kernel.chains \cap looked = fresh.chains \cap looked
           /\ \A c \in looked : Skeleton(kernel, c) = Skeleton(fresh, c)
           /\ \A c \in BuiltIn : Jumps(kernel, c) = Jumps(fresh, c)

\* Rules of other programs are never deleted and keep their order, though
\* wifi-cat inserts before them and deletes rules by their number; but where
\* an interrupted command took effect late, it may have had another number
\* in mind, or have made one stale that a clean-up had just read.
OthersKept ==
    \A c \in BuiltIn \ disturbed :
        Without(kernel.rules[c], OwnChain \cup {"test"}) = Others[c]

\* A process that ended by itself, with no command failing for reasons of
\* its own, left no jump to its chains, and no chain either unless a request
\* wrote to it while the chains were flushed and deleted; then it holds
\* nothing but what requests wrote there.  Where an interrupted command added
\* something late, it may stay.
ExitLeavesNoJump ==
    (status = "exited" /\ faults = 0 /\ job[Main] # "boot") =>
        /\ \A c \in BuiltIn \ addedLate : Jumps(kernel, c) = <<>>
        /\ \A c \in (OwnChain \cap kernel.chains) \ addedLate :
              /\ requests > 0 /\ c \in MacChain \cup {"mangle OUTGOING", "mangle INCOMING"}
              /\ Skeleton(kernel, c) = <<>>

\* Only the thread that got sigterm_mutex cleans up in termination_handler(),
\* and it does so for the rest of the process: no two threads delete rules
\* by numbers that the other makes stale.
OneCleanUp ==
    \A t \in Thread : job[t] = "terminate" => t = sigterm_mutex

\* A clean-up begun in a thread that does not hold config_mutex ends the
\* process, also when commands fail and others hold the mutex at first,
\* unless a second call of the handler ends a thread before.
CleanUpEnds ==
    (Running /\ sigterm_mutex # NULL /\ config_mutex # sigterm_mutex)
        ~> \/ ~Running \/ sigterm_mutex = NULL
           \/ \E u \in Thread : job[u] = "dead"
============================================================================
