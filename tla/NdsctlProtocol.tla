-------------------------- MODULE NdsctlProtocol --------------------------
(***************************************************************************)
(* ndsctl and the gateway's side of the control socket.  A run of ndsctl   *)
(* connects, writes one line and reads until the peer closes; the acceptor *)
(* thread gives each connection a handler thread, which reads up to the    *)
(* end of the line, carries the command out and closes.                    *)
(*                                                                         *)
(* A line is the command's name, the characters of its parameter and the   *)
(* terminator: two Ends, for "\r\n\r\n".  Writes and reads move any number *)
(* of these.  What a command does to clients and MAC lists is in Gateway   *)
(* and MacRules; here it is carried out in one step, under its mutex.      *)
(***************************************************************************)
EXTENDS Naturals, Sequences, SequencesExt

CONSTANTS
    Run,            \* runs of ndsctl
    CommandLine,    \* what they may be told: a name and a parameter or NULL
    NULL, End,
    MaxParam,       \* room for the parameter in ndsctl's request
    MaxTroubles     \* bound of the model: killed runs, failing reads and threads

Setting == {"loglevel", "password", "username"}
\* Commands with a parameter, answered Yes or No; and those without.
Action == Setting \cup {"block", "unblock", "allow", "unallow", "trust", "untrust",
                        "auth", "deauth"}
Listing == {"status", "clients", "stop"}

ASSUME CommandAssumption ==
    \A c \in CommandLine :
        /\ c.name # End
        /\ c.param # NULL => c.param \in Seq(ToSet(c.param)) /\ End \notin ToSet(c.param)
ASSUME NullAssumption == NULL \notin {"Yes", "No"}
ASSUME NdsctlBounds == {MaxParam, MaxTroubles} \subseteq Nat

VARIABLES
    status,         \* the gateway: running, terminating, deaf (terminating, and nobody
                    \* accepts) or exited
    listening,      \* its control socket
    argv,           \* per run of ndsctl, its command line,
    client,         \* where it is, and then what it reports,
    unsent,         \* and what it has still to write
    pipe,           \* what is written and not read
    handler,        \* the connection's thread in the gateway,
    taken,          \* the part of the line it has read,
    reply,          \* what it has sent
    carried,        \* and what it has carried out
    settings,       \* log level, password and user name in force
    faulty,         \* a read of the handler failed
    troubles

vars == <<status, listening, argv, client, unsent, pipe, handler, taken, reply, carried,
          settings, faulty, troubles>>

Alive == status # "exited"
MayTrouble == troubles < MaxTroubles

\* ndsctl_action() cuts the request to its buffer; the terminator always fits.
Request(c) ==
    <<c.name>> \o IF c.name \in Action
                  THEN SubSeq(c.param, 1, Min({Len(c.param), MaxParam})) ELSE <<>>

Init ==
    /\ status = "running" /\ listening \in BOOLEAN
    /\ argv \in [Run -> CommandLine]
    /\ client = [r \in Run |-> "parse"]
    /\ unsent = [r \in Run |-> <<>>] /\ pipe = [r \in Run |-> <<>>]
    /\ handler = [r \in Run |-> "none"]
    /\ taken = [r \in Run |-> <<>>]
    /\ reply = [r \in Run |-> NULL]
    /\ carried = [r \in Run |-> <<>>]
    /\ settings = [s \in Setting |-> NULL]
    /\ faulty = [r \in Run |-> FALSE]
    /\ troubles = 0

serverVars == <<status, listening, taken, reply, carried, settings, faulty>>
clientVars == <<argv, client, unsent>>

----------------------------------------------------------------------------
(* ndsctl.  *)

\* An unknown command, or one without the parameter it needs: usage and exit(1).
parse_commandline(r) ==
    /\ client[r] = "parse"
    /\ client' = [client EXCEPT ![r] =
                    IF argv[r].name \in Listing \/ (argv[r].name \in Action /\ argv[r].param # NULL)
                    THEN "connect" ELSE "error"]
    /\ UNCHANGED <<serverVars, argv, unsent, pipe, handler, troubles>>

\* Without a listener: exit(1).
connect_to_server(r) ==
    /\ client[r] = "connect"
    /\ \/ /\ Alive /\ listening
          /\ client' = [client EXCEPT ![r] = "send"]
          /\ unsent' = [unsent EXCEPT ![r] = Request(argv[r]) \o <<End, End>>]
          /\ handler' = [handler EXCEPT ![r] = "waiting"]
       \/ /\ ~(Alive /\ listening)
          /\ client' = [client EXCEPT ![r] = "error"]
          /\ UNCHANGED <<unsent, handler>>
    /\ UNCHANGED <<serverVars, argv, pipe, troubles>>

\* write() takes a part of the line or all of it.  Once the gateway has closed the
\* run is ended by SIGPIPE.
send_request(r) ==
    /\ client[r] = "send"
    /\ \/ /\ Alive /\ handler[r] # "closed"
          /\ \E n \in 1 .. Len(unsent[r]) :
               /\ pipe' = [pipe EXCEPT ![r] = @ \o SubSeq(unsent[r], 1, n)]
               /\ unsent' = [unsent EXCEPT ![r] = SubSeq(@, n + 1, Len(@))]
               /\ client' = [client EXCEPT ![r] = IF n = Len(unsent[r]) THEN "read" ELSE "send"]
       \/ /\ ~Alive \/ handler[r] = "closed"
          /\ client' = [client EXCEPT ![r] = "killed"]
          /\ UNCHANGED <<unsent, pipe>>
    /\ UNCHANGED <<serverVars, argv, handler, troubles>>

\* All has been read once the gateway closes, or ends.  ndsctl_print() prints what came.
ReadReply(r) ==
    /\ client[r] = "read"
    /\ handler[r] = "closed" \/ ~Alive
    /\ client' = [client EXCEPT ![r] =
                    CASE argv[r].name \in Listing -> "printed"
                      [] reply[r] \in {"Yes", "No"} /\ argv[r].name \in Action -> reply[r]
                      [] OTHER -> "abnormal"]
    /\ UNCHANGED <<serverVars, argv, unsent, pipe, handler, troubles>>

Kill(r) ==
    /\ client[r] \in {"send", "read"} /\ MayTrouble
    /\ client' = [client EXCEPT ![r] = "killed"]
    /\ troubles' = troubles + 1
    /\ UNCHANGED <<serverVars, argv, unsent, pipe, handler>>

----------------------------------------------------------------------------
(* thread_ndsctl() and thread_ndsctl_handler().  A failing accept() changes *)
(* nothing and is tried again.  *)

Accept(r) ==
    /\ status \in {"running", "terminating"} /\ handler[r] = "waiting"
    /\ handler' = [handler EXCEPT ![r] = "read"]
    /\ UNCHANGED <<clientVars, serverVars, pipe, troubles>>

\* pthread_create() fails: termination_handler(0) in the acceptor, which is lost.
AcceptFails(r) ==
    /\ status \in {"running", "terminating"} /\ handler[r] = "waiting" /\ MayTrouble
    /\ status' = "deaf"
    /\ troubles' = troubles + 1
    /\ UNCHANGED <<clientVars, listening, pipe, handler, taken, reply, carried, settings, faulty>>

Reading(r) == Alive /\ handler[r] = "read"

\* A wrong Read: whatever came first is taken for the command.
ReadOnce(r) ==
    /\ Reading(r) /\ pipe[r] # <<>>
    /\ \E n \in 1 .. Len(pipe[r]) :
         /\ taken' = [taken EXCEPT ![r] = @ \o SubSeq(pipe[r], 1, n)]
         /\ pipe' = [pipe EXCEPT ![r] = SubSeq(@, n + 1, Len(@))]
    /\ handler' = [handler EXCEPT ![r] = "run"]
    /\ UNCHANGED <<clientVars, status, listening, reply, carried, settings, faulty, troubles>>

\* The loop goes on until a terminator has come.
Read(r) ==
    /\ Reading(r) /\ pipe[r] # <<>>
    /\ \E n \in 1 .. Len(pipe[r]) :
         LET got == SubSeq(pipe[r], 1, n)
         IN  /\ taken' = [taken EXCEPT ![r] = @ \o got]
             /\ pipe' = [pipe EXCEPT ![r] = SubSeq(@, n + 1, Len(@))]
             /\ handler' = [handler EXCEPT ![r] = IF End \in ToSet(got) THEN "run" ELSE "read"]
    /\ UNCHANGED <<clientVars, status, listening, reply, carried, settings, faulty, troubles>>

\* The peer is gone and the line is not complete: read() returns 0 for ever.
Spin(r) ==
    /\ Reading(r) /\ pipe[r] = <<>> /\ client[r] = "killed"
    /\ handler' = [handler EXCEPT ![r] = "spin"]
    /\ UNCHANGED <<clientVars, serverVars, pipe, troubles>>

\* read() returns -1 and the position goes back by one: the last character is
\* overwritten by what comes.  At the start it becomes negative, which the comparison
\* takes for a full buffer: the loop ends, with no command.
ReadFails(r) ==
    /\ Reading(r) /\ MayTrouble
    /\ troubles' = troubles + 1
    /\ faulty' = [faulty EXCEPT ![r] = TRUE]
    /\ \/ /\ taken[r] = <<>>
          /\ handler' = [handler EXCEPT ![r] = "close"]
          /\ UNCHANGED taken
       \/ /\ taken[r] # <<>>
          /\ taken' = [taken EXCEPT ![r] = Front(@)]
          /\ UNCHANGED handler
    /\ UNCHANGED <<clientVars, status, listening, pipe, reply, carried, settings>>

Name(r) == Head(taken[r])
\* Terminators are overwritten by zeros: the parameter ends at the first one.
Param(r) ==
    LET Ends == {i \in 1 .. Len(taken[r]) : taken[r][i] = End} \cup {Len(taken[r]) + 1}
    IN  SubSeq(taken[r], 2, Min(Ends) - 1)

\* set_log_level(), set_password() and set_username() refuse nothing.
Set(r) ==
    /\ reply' = [reply EXCEPT ![r] = "Yes"]
    /\ settings' = [settings EXCEPT ![Name(r)] = Param(r)]

\* The command is looked up by its name and carried out; an unknown one gets no answer.
RunCommand(r) ==
    /\ Alive /\ handler[r] = "run" /\ Name(r) # "stop"
    /\ carried' = [carried EXCEPT ![r] = <<Name(r)>> \o Param(r)]
    /\ \/ Name(r) \in Setting /\ Set(r)
       \/ /\ Name(r) \notin Setting
          /\ \E a \in CASE Name(r) \in Action -> {"Yes", "No", NULL}
                        [] Name(r) \in Listing -> {"text"}
                        [] OTHER -> {NULL} :
               reply' = [reply EXCEPT ![r] = a]
          /\ UNCHANGED settings
    /\ handler' = [handler EXCEPT ![r] = "close"]
    /\ UNCHANGED <<clientVars, status, listening, pipe, taken, faulty, troubles>>

\* ndsctl_stop() sends the process a SIGINT, which hits this thread, the acceptor or
\* another; how the process then ends is in Lifecycle.
ndsctl_stop(r) ==
    /\ Alive /\ handler[r] = "run" /\ Name(r) = "stop"
    /\ carried' = [carried EXCEPT ![r] = <<"stop">>]
    /\ LET stopping == IF status = "deaf" THEN "deaf" ELSE "terminating"
       IN  \/ /\ status' \in {stopping, "deaf"}
              /\ handler' = [handler EXCEPT ![r] = "close"]
           \/ /\ status' = stopping
              /\ handler' = [handler EXCEPT ![r] = "lost"]
    /\ UNCHANGED <<clientVars, listening, pipe, taken, reply, settings, faulty, troubles>>

\* A wrong Close: a command that got no answer leaves the connection open.
CloseAnswered(r) ==
    /\ Alive /\ handler[r] = "close" /\ reply[r] # NULL
    /\ handler' = [handler EXCEPT ![r] = "closed"]
    /\ UNCHANGED <<clientVars, serverVars, pipe, troubles>>

Close(r) ==
    /\ Alive /\ handler[r] = "close"
    /\ handler' = [handler EXCEPT ![r] = "closed"]
    /\ UNCHANGED <<clientVars, serverVars, pipe, troubles>>

Exit ==
    /\ status \in {"terminating", "deaf"}
    /\ status' = "exited"
    /\ UNCHANGED <<clientVars, listening, pipe, handler, taken, reply, carried, settings, faulty,
                   troubles>>

Ndsctl(r) == parse_commandline(r) \/ connect_to_server(r) \/ send_request(r) \/ ReadReply(r)
Handler(r) == Accept(r) \/ Read(r) \/ Spin(r) \/ RunCommand(r) \/ ndsctl_stop(r) \/ Close(r)
Next == Exit \/ \E r \in Run : Ndsctl(r) \/ Handler(r) \/ Kill(r) \/ AcceptFails(r) \/ ReadFails(r)

\* Every run of ndsctl and every handler goes on while it can.
Spec == Init /\ [][Next]_vars /\ \A r \in Run : WF_vars(Ndsctl(r)) /\ WF_vars(Handler(r))

----------------------------------------------------------------------------
(* Properties. *)

\* A command is carried out only as it was asked for, to the end of its parameter,
\* however writes and reads cut the line up and wherever its sender was killed (a
\* read that fails apart); when ndsctl reports success it was this one; and a setting
\* in force is one that some run asked for as a whole.
CommandWhole ==
    /\ \A r \in Run : ~faulty[r] =>
         /\ carried[r] # <<>> => carried[r] = Request(argv[r])
         /\ client[r] = "Yes" => carried[r] = Request(argv[r])
    /\ \A s \in Setting :
         settings[s] # NULL => \E r \in Run :
             faulty[r] \/ (carried[r] # <<>> /\ Request(argv[r]) = <<s>> \o settings[s])

\* While the process is not stopped, every run of ndsctl ends, with an answer if it was
\* connected, and every handler thread closes its connection, unless its sender left
\* before the end of the line: then it spins.
RunsEnd ==
    \A r \in Run :
        /\ client[r] = "parse"
             ~> (client[r] \in {"error", "Yes", "No", "abnormal", "printed", "killed"}
                 \/ status # "running")
        /\ (handler[r] \in {"waiting", "read", "run", "close"})
             ~> (handler[r] = "closed" \/ status # "running"
                 \/ (handler[r] = "spin" /\ client[r] = "killed"))
===========================================================================
