------------------------------ MODULE Execute ------------------------------
(***************************************************************************)
(* Running commands: execute() for iptables and tc, popen() and pclose()   *)
(* for their listings, from several threads of one process, whose children *)
(* and whose way of treating SIGCHLD they share.                           *)
(*                                                                         *)
(* execute() sets the default treatment, forks, waits for its child and    *)
(* puts back what it found.  sigchld_handler(), set by init_signals(),     *)
(* reaps any child.  A signal with the default treatment is discarded.     *)
(***************************************************************************)
EXTENDS Integers

CONSTANTS Caller,       \* the threads that run commands
          Outcome,      \* what a child can end with: exit codes, -1 for a signal
          MaxCalls      \* bound of the model: commands run in all

ASSUME OutcomeAssumption == 0 \in Outcome
ASSUME CallsAssumption == MaxCalls \in Nat

VARIABLES
    process,        \* the process: running or exited
    disposition,    \* of SIGCHLD: "handler" or "default"
    sigchld,        \* a SIGCHLD is pending for the handler
    pc,             \* where each thread is
    how,            \* how it runs its command: execute() or popen()
    oldsa,          \* what execute() found and will put back
    child,          \* the thread's child
    outcome,        \* what that child ended with
    retval,         \* what execute() returns
    overlap,        \* history: the threads whose last execute() met another one
    calls           \* the commands run so far

xvars == <<process, disposition, sigchld, pc, how, oldsa, child, outcome, retval,
          overlap, calls>>

ProcessRuns == process = "running"
Disposition == {"handler", "default"}

\* Inside execute(), between its two calls of sigaction().
Inside(t) == how[t] = "execute" /\ pc[t] # "idle"

\* The calls known to overlap once t has called execute() too.
OverlapOf(t) ==
    LET inside == {u \in Caller \ {t} : Inside(u)}
    IN  IF inside = {} THEN overlap \ {t} ELSE overlap \cup inside \cup {t}

XInit ==
    /\ process = "running"
    /\ disposition = "handler" /\ sigchld = FALSE
    /\ pc = [t \in Caller |-> "idle"]
    /\ how = [t \in Caller |-> "execute"]
    /\ oldsa = [t \in Caller |-> "handler"]
    /\ child = [t \in Caller |-> "none"]
    /\ outcome = [t \in Caller |-> 0] /\ retval = [t \in Caller |-> 0]
    /\ overlap = {}
    /\ calls = 0

----------------------------------------------------------------------------
\* A wrong SetDefault: the handler stays in place.
SetDefaultMissed(t) ==
    /\ ProcessRuns /\ pc[t] = "idle" /\ calls < MaxCalls
    /\ calls' = calls + 1
    /\ how' = [how EXCEPT ![t] = "execute"]
    /\ pc' = [pc EXCEPT ![t] = "fork"]
    /\ oldsa' = [oldsa EXCEPT ![t] = disposition]
    /\ overlap' = OverlapOf(t)
    /\ child' = [child EXCEPT ![t] = "none"]
    /\ UNCHANGED <<process, disposition, sigchld, outcome, retval>>

\* execute() begins; SIG_DFL also discards a pending signal.
SetDefault(t) ==
    /\ ProcessRuns /\ pc[t] = "idle" /\ calls < MaxCalls
    /\ calls' = calls + 1
    /\ how' = [how EXCEPT ![t] = "execute"]
    /\ pc' = [pc EXCEPT ![t] = "fork"]
    /\ oldsa' = [oldsa EXCEPT ![t] = disposition]
    /\ disposition' = "default" /\ sigchld' = FALSE
    /\ overlap' = OverlapOf(t)
    /\ child' = [child EXCEPT ![t] = "none"]
    /\ UNCHANGED <<process, outcome, retval>>

\* popen() leaves SIGCHLD as it is.
Popen(t) ==
    /\ ProcessRuns /\ pc[t] = "idle" /\ calls < MaxCalls
    /\ calls' = calls + 1
    /\ how' = [how EXCEPT ![t] = "popen"]
    /\ pc' = [pc EXCEPT ![t] = "fork"]
    /\ child' = [child EXCEPT ![t] = "none"]
    /\ UNCHANGED <<process, disposition, sigchld, oldsa, outcome, retval, overlap>>

Fork(t) ==
    /\ ProcessRuns /\ pc[t] = "fork"
    /\ pc' = [pc EXCEPT ![t] = "wait"]
    /\ child' = [child EXCEPT ![t] = "running"]
    /\ UNCHANGED <<process, disposition, sigchld, how, oldsa, outcome, retval, overlap, calls>>

\* safe_fork() ends the process, popen() returns NULL.
ForkFails(t) ==
    /\ ProcessRuns /\ pc[t] = "fork"
    /\ IF how[t] = "execute" THEN process' = "exited" /\ UNCHANGED pc
       ELSE pc' = [pc EXCEPT ![t] = "idle"] /\ UNCHANGED process
    /\ UNCHANGED <<disposition, sigchld, how, oldsa, child, outcome, retval, overlap, calls>>

\* The child of t ends and the process gets a SIGCHLD.
ChildEnds(t) ==
    /\ ProcessRuns /\ child[t] = "running"
    /\ child' = [child EXCEPT ![t] = "ended"]
    /\ outcome' \in {[outcome EXCEPT ![t] = o] : o \in Outcome}
    /\ sigchld' = (sigchld \/ disposition = "handler")
    /\ UNCHANGED <<process, disposition, pc, how, oldsa, retval, overlap, calls>>

\* waitpid(-1, ..., WNOHANG): any child that has ended, if there is one.
sigchld_handler ==
    /\ ProcessRuns /\ sigchld
    /\ sigchld' = FALSE
    /\ \/ \E t \in Caller : child[t] = "ended" /\ child' = [child EXCEPT ![t] = "reaped"]
       \/ (\A t \in Caller : child[t] # "ended") /\ UNCHANGED child
    /\ UNCHANGED <<process, disposition, pc, how, oldsa, outcome, retval, overlap, calls>>

\* A wrong WaitPid: waitpid() is called with WNOHANG, once.
WaitPidNoHang(t) ==
    /\ ProcessRuns /\ pc[t] = "wait"
    /\ retval' = [retval EXCEPT ![t] = IF child[t] = "ended" THEN outcome[t] ELSE 0]
    /\ child' = [child EXCEPT ![t] = IF @ = "ended" THEN "reaped" ELSE @]
    /\ pc' = [pc EXCEPT ![t] = IF how[t] = "execute" THEN "restore" ELSE "idle"]
    /\ UNCHANGED <<process, disposition, sigchld, how, oldsa, outcome, overlap, calls>>

\* A wrong WaitPid: the status is returned as it is, without WEXITSTATUS().
WaitPidRaw(t) ==
    /\ ProcessRuns /\ pc[t] = "wait" /\ child[t] \in {"ended", "reaped"}
    /\ retval' = IF how[t] = "execute"
                 THEN [retval EXCEPT ![t] = IF child[t] = "ended" THEN 256 * outcome[t] ELSE 0]
                 ELSE retval
    /\ child' = [child EXCEPT ![t] = "reaped"]
    /\ pc' = [pc EXCEPT ![t] = IF how[t] = "execute" THEN "restore" ELSE "idle"]
    /\ UNCHANGED <<process, disposition, sigchld, how, oldsa, outcome, overlap, calls>>

\* A wrong WaitPid: a child that is gone is waited for again.
WaitPidRetries(t) ==
    /\ ProcessRuns /\ pc[t] = "wait" /\ child[t] = "ended"
    /\ retval' = IF how[t] = "execute" THEN [retval EXCEPT ![t] = outcome[t]] ELSE retval
    /\ child' = [child EXCEPT ![t] = "reaped"]
    /\ pc' = [pc EXCEPT ![t] = IF how[t] = "execute" THEN "restore" ELSE "idle"]
    /\ UNCHANGED <<process, disposition, sigchld, how, oldsa, outcome, overlap, calls>>

\* waitpid(): the child's outcome, or ECHILD when the handler was faster, which
\* execute() takes for success; nobody looks at what pclose() returns.
WaitPid(t) ==
    /\ ProcessRuns /\ pc[t] = "wait" /\ child[t] \in {"ended", "reaped"}
    /\ retval' = IF how[t] = "execute"
                 THEN [retval EXCEPT ![t] = IF child[t] = "ended" THEN outcome[t] ELSE 0]
                 ELSE retval
    /\ child' = [child EXCEPT ![t] = "reaped"]
    /\ pc' = [pc EXCEPT ![t] = IF how[t] = "execute" THEN "restore" ELSE "idle"]
    /\ UNCHANGED <<process, disposition, sigchld, how, oldsa, outcome, overlap, calls>>

Restore(t) ==
    /\ ProcessRuns /\ pc[t] = "restore"
    /\ disposition' = oldsa[t]
    /\ sigchld' = (sigchld /\ oldsa[t] = "handler")
    /\ pc' = [pc EXCEPT ![t] = "idle"]
    /\ UNCHANGED <<process, how, oldsa, child, outcome, retval, overlap, calls>>

Step(t) == SetDefault(t) \/ Popen(t) \/ Fork(t) \/ ForkFails(t) \/ WaitPid(t) \/ Restore(t)
XNext == sigchld_handler \/ \E t \in Caller : Step(t) \/ ChildEnds(t)

\* A thread inside a call goes on and a command comes to its end.
XSpec == /\ XInit /\ [][XNext]_xvars
         /\ \A t \in Caller : WF_xvars(Fork(t) \/ ForkFails(t) \/ ChildEnds(t) \/ WaitPid(t)
                                       \/ Restore(t))

----------------------------------------------------------------------------
(* Properties. *)

\* Types; what execute() returns is a command's outcome.
XTypeOK ==
    /\ process \in {"running", "exited"}
    /\ disposition \in Disposition /\ sigchld \in BOOLEAN
    /\ pc \in [Caller -> {"idle", "fork", "wait", "restore"}]
    /\ how \in [Caller -> {"execute", "popen"}]
    /\ oldsa \in [Caller -> Disposition]
    /\ child \in [Caller -> {"none", "running", "ended", "reaped"}]
    /\ outcome \in [Caller -> Outcome] /\ retval \in [Caller -> Outcome]
    /\ overlap \subseteq Caller
    /\ calls \in Nat

\* "returns the child's exit() value" (util.c): true of a call that no other execute()
\* overlapped, such as those of fw_init(), which run before the threads are created.
\* Overlapping calls may turn a failure into a success, never a success into a failure,
\* and never one call's failure into another's.
StatusReported ==
    \A t \in Caller :
        (how[t] = "execute" /\ pc[t] \in {"restore", "idle"}) =>
            retval[t] = outcome[t] \/ (t \in overlap /\ retval[t] = 0)

\* No child is left behind, whoever reaps it and whatever SIGCHLD's treatment is
\* left at: a thread that is not running a command has no zombie.
NoZombies ==
    \A t \in Caller : pc[t] = "idle" => child[t] \in {"none", "reaped"}

\* Every call returns, also when another thread's handler took its child.
CallsReturn ==
    \A t \in Caller : pc[t] # "idle" ~> (pc[t] = "idle" \/ ~ProcessRuns)
============================================================================
