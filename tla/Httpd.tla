------------------------------- MODULE Httpd -------------------------------
(***************************************************************************)
(* The embedded web server: main_loop() accepts connections and makes a    *)
(* thread for each, which reads the request, looks its path up in the      *)
(* content tree and calls the handler found there.                         *)
(*                                                                         *)
(* The tree is the one main_loop() builds: the index at the root, and one  *)
(* directory each for images, pages, authentication and denial, whose      *)
(* entry matches any name.  _httpd_findContentDir() walks it with          *)
(* strtok(), which keeps the place it has come to in one static pointer    *)
(* for all threads.  A call of strtok() is one step.                       *)
(***************************************************************************)
EXTENDS HttpRequest, FiniteSets, TLC

CONSTANTS
    Thread,             \* bound of the model: threads at the same time
    NULL,
    FirstLine,          \* the first lines that clients send: method, path, query
    AuthDir, DenyDir, ImagesDir, PagesDir,
    Tok,                \* the name "tok"
    decongest_httpd_threads, httpd_thread_threshold,
    MaxConnections,     \* bounds of the model: connections in all,
    MaxLines,           \* lines in one request,
    MaxStalled          \* and clients that take no more of their answers

Dir == {AuthDir, DenyDir, ImagesDir, PagesDir}

\* What the server makes of each first line.
Requests == [f \in FirstLine |-> [f EXCEPT !.path = _httpd_sanitiseUrl(@)]]
Variables == [q \in {f.query : f \in FirstLine} \cup {<<>>} |-> _httpd_storeData(q)]

\* A path is names, a query is parameters; no name has the terminating 0 in it.  A
\* text without a slash is no path.
ASSUME LineAssumption ==
    \A f \in FirstLine :
        /\ f \in [method : STRING, path : Seq(STRING), query : Seq(Parameter)]
        /\ Len(f.path) # 1
ASSUME DirAssumption == Cardinality(Dir) = 4 /\ Dir \cap {"", ".", ".."} = {}
ASSUME NullAssumption == NULL \notin {"auth", "deny", "file", "index"}
ASSUME HttpdBounds ==
    {httpd_thread_threshold, MaxConnections, MaxLines, MaxStalled} \subseteq Nat
ASSUME DecongestAssumption == decongest_httpd_threads \in BOOLEAN

VARIABLES
    status,             \* of the process
    waiting, accepted,  \* connections not accepted yet, and accepted so far
    main,               \* where the accept loop is
    socket,             \* the connection main has accepted last
    created_httpd_threads, current_httpd_threads,
    thread,             \* what each thread knows of its connection
    save                \* strtok()'s pointer: whose buffer, and the names left in it

vars == <<status, waiting, accepted, main, socket,
          created_httpd_threads, current_httpd_threads, thread, save>>

\* A thread: pc, its socket, the lines read, the request, the variables of its
\* query, the directory found so far, the handler called, the token it was
\* called with, the answer sent, and whether the client takes what is sent.
NoRequest == [method |-> "none", path |-> NoPath, query |-> <<>>]
NoThread == [pc |-> "none", socket |-> NULL, lines |-> 0, request |-> NoRequest,
             variables |-> <<>>, dir |-> NULL, handler |-> NULL, token |-> NULL,
             answer |-> NULL, reads |-> TRUE]

Running == status = "running"
At(t, pc) == Running /\ thread[t].pc = pc
\* Thread t goes on with the fields of its record that f gives.
With(w, f) == [k \in DOMAIN w |-> IF k \in DOMAIN f THEN f[k] ELSE w[k]]
Become(t, f) == thread' = [thread EXCEPT ![t] = With(@, f)]

mainVars == <<status, waiting, accepted, main, socket, created_httpd_threads>>

HInit ==
    /\ status = "running"
    /\ waiting = 0 /\ accepted = 0
    /\ main = "accept" /\ socket = NULL
    /\ created_httpd_threads = 0 /\ current_httpd_threads = 0
    /\ thread = [t \in Thread |-> NoThread]
    /\ save = [owner |-> NULL, rest |-> <<>>]

Connect ==
    /\ Running
    /\ waiting + accepted < MaxConnections
    /\ waiting' = waiting + 1
    /\ UNCHANGED <<status, accepted, main, socket, created_httpd_threads,
                   current_httpd_threads, thread, save>>

----------------------------------------------------------------------------
(* The accept loop.  An interrupted select() starts it again and changes   *)
(* nothing.  *)

\* The number of threads is read without httpd_mutex, before a sleep.
httpdGetConnection ==
    /\ Running /\ main = "accept" /\ waiting > 0
    /\ waiting' = waiting - 1
    /\ accepted' = accepted + 1
    /\ socket' \in {"open", "bad"}      \* nobody looks whether accept() failed
    /\ main' = IF decongest_httpd_threads /\ current_httpd_threads >= httpd_thread_threshold
               THEN "asleep" ELSE "create"
    /\ UNCHANGED <<status, created_httpd_threads, current_httpd_threads, thread, save>>

Awake ==
    /\ Running /\ main = "asleep"
    /\ main' = "create"
    /\ UNCHANGED <<status, waiting, accepted, socket, created_httpd_threads,
                   current_httpd_threads, thread, save>>

CreateThread(t) ==
    /\ Running /\ main = "create" /\ thread[t].pc = "none"
    /\ main' = "accept" /\ socket' = NULL
    /\ created_httpd_threads' = created_httpd_threads + 1
    /\ Become(t, [NoThread EXCEPT !.pc = "new", !.socket = socket])
    /\ UNCHANGED <<status, waiting, accepted, current_httpd_threads, save>>

\* No memory for the request, or no thread: termination_handler(0).
Terminate ==
    /\ Running
    /\ \/ main = "accept" /\ waiting > 0
       \/ main = "create"
    /\ status' = "terminated"
    /\ created_httpd_threads' = created_httpd_threads + (IF main = "create" THEN 1 ELSE 0)
    /\ UNCHANGED <<waiting, accepted, main, socket, current_httpd_threads, thread, save>>

----------------------------------------------------------------------------
(* thread_httpd() and httpdReadRequest().  *)

Enter(t) ==
    /\ At(t, "new")
    /\ current_httpd_threads' = current_httpd_threads + 1
    /\ Become(t, [pc |-> "read"])
    /\ UNCHANGED <<mainVars, save>>

ReadFirstLine(t) ==
    /\ At(t, "read") /\ thread[t].socket = "open" /\ thread[t].lines = 0
    /\ \E f \in FirstLine :
         Become(t, IF f.method \in {"GET", "POST"}
                   THEN [lines |-> 1, request |-> Requests[f]]
                   ELSE [pc |-> "end", answer |-> "method error"])
    /\ UNCHANGED <<mainVars, current_httpd_threads, save>>

\* Any number of headers: the code has no bound, MaxLines is the model's.
ReadHeader(t) ==
    /\ At(t, "read") /\ thread[t].socket = "open"
    /\ thread[t].lines \in 1 .. MaxLines - 1
    /\ Become(t, [lines |-> thread[t].lines + 1])
    /\ UNCHANGED <<mainVars, current_httpd_threads, save>>

\* A wrong ReadEnd: without a first line the thread goes on waiting for one.
ReadEndWaits(t) ==
    /\ At(t, "read") /\ thread[t].lines > 0
    /\ Become(t, [pc |-> "process", variables |-> Variables[thread[t].request.query]])
    /\ UNCHANGED <<mainVars, current_httpd_threads, save>>

\* The blank line, or no line: the peer closed, an error, or nothing came for
\* ten seconds.  Either way the request is processed.
ReadEnd(t) ==
    /\ At(t, "read")
    /\ Become(t, [pc |-> "process", variables |-> Variables[thread[t].request.query]])
    /\ UNCHANGED <<mainVars, current_httpd_threads, save>>

----------------------------------------------------------------------------
(* httpdProcessRequest().  *)

\* The directories to look for: all names of the path but the last.
Wanted(t) == Lookups(thread[t].request.path)

\* A path without a slash: nothing is answered.
InvalidPath(t) ==
    /\ At(t, "process") /\ thread[t].request.path = NoPath
    /\ Become(t, [pc |-> "end"])
    /\ UNCHANGED <<mainVars, current_httpd_threads, save>>

\* strtok(buffer, "/"), with a buffer of this thread's own.
FindFirst(t) ==
    /\ At(t, "process") /\ thread[t].request.path # NoPath
    /\ IF Wanted(t) = <<>>
       THEN /\ save' = [owner |-> t, rest |-> <<>>]
            /\ Become(t, [pc |-> "entry", dir |-> ""])
       ELSE /\ save' = [owner |-> t, rest |-> Tail(Wanted(t))]
            /\ Become(t, IF Head(Wanted(t)) \in Dir
                         THEN [pc |-> "next", dir |-> Head(Wanted(t))]
                         ELSE [pc |-> "handle", handler |-> "404"])
    /\ UNCHANGED <<mainVars, current_httpd_threads>>

\* A wrong FindNext: the search goes on among the root's directories.
FindNextAtRoot(t) ==
    /\ At(t, "next")
    /\ IF save.rest = <<>> THEN Become(t, [pc |-> "entry"])
       ELSE Become(t, IF Head(save.rest) \in Dir THEN [dir |-> Head(save.rest)]
                      ELSE [pc |-> "handle", handler |-> "404"])
    /\ save' = [save EXCEPT !.rest = IF @ = <<>> THEN @ ELSE Tail(@)]
    /\ UNCHANGED <<mainVars, current_httpd_threads>>

\* strtok(NULL, "/"): the next name of the buffer that was saved last.  Once its
\* thread has left the function the buffer holds anything.  The directories
\* have no children.
FindNext(t) ==
    /\ At(t, "next")
    /\ LET alive == thread[save.owner].pc = "next"
           more == IF alive THEN {save.rest # <<>>} ELSE BOOLEAN
       IN \E m \in more :
            Become(t, IF m THEN [pc |-> "handle", handler |-> "404"] ELSE [pc |-> "entry"])
    /\ save' = [save EXCEPT !.rest = IF @ = <<>> THEN @ ELSE Tail(@)]
    /\ UNCHANGED <<mainVars, current_httpd_threads>>

\* The stack of a thread that has ended may be gone.
FindFaults(t) ==
    /\ At(t, "next") /\ thread[save.owner].pc \in {"none", "new"}
    /\ status' = "crashed"
    /\ UNCHANGED <<waiting, accepted, main, socket, created_httpd_threads,
                   current_httpd_threads, thread, save>>

\* _httpd_findContentEntry(): at the root only the index.
FindEntry(t) ==
    /\ At(t, "entry")
    /\ Become(t, [pc |-> "handle",
                  handler |-> CASE thread[t].dir = AuthDir -> "auth"
                                [] thread[t].dir = DenyDir -> "deny"
                                [] thread[t].dir \in {ImagesDir, PagesDir} -> "file"
                                [] thread[t].dir = "" /\ Entry(thread[t].request.path) = "" -> "index"
                                [] OTHER -> "404"])
    /\ UNCHANGED <<mainVars, current_httpd_threads, save>>

\* The file is sent, or there is none: _httpd_send404().
_httpd_sendFile(t) ==
    /\ At(t, "handle") /\ thread[t].handler = "file"
    /\ \/ Become(t, [pc |-> "end", answer |-> "page"])
       \/ Become(t, [handler |-> "404"])
    /\ UNCHANGED <<mainVars, current_httpd_threads, save>>

\* What the handlers can answer.  A page whose file cannot be opened is not sent;
\* for the splash page there is an information page then.
http_redirect == {"redirect"}
serve_info == {"page", NULL}
serve_splash == {"page"} \cup serve_info \cup http_redirect

\* The splash page, or the way to the authentication server; nothing when the
\* client cannot be added.
first_contact(t) ==
    /\ At(t, "handle") /\ thread[t].handler \in {"index", "404"}
    /\ \E a \in IF thread[t].request.method # "GET" THEN {"405"} ELSE serve_splash \cup {NULL} :
         Become(t, [pc |-> "end", answer |-> a])
    /\ UNCHANGED <<mainVars, current_httpd_threads, save>>

\* http_nodogsplash_callback_auth() and _deny(): an information page, nothing,
\* or for auth the way to the page the client came for.
callback_action(t) ==
    /\ At(t, "handle") /\ thread[t].handler \in {"auth", "deny"}
    /\ \E a \in serve_info \cup (IF thread[t].handler = "auth" THEN http_redirect ELSE {}) :
         Become(t, [pc |-> "end", answer |-> a,
                    token |-> decode_authtarget(thread[t].variables, Tok)])
    /\ UNCHANGED <<mainVars, current_httpd_threads, save>>

----------------------------------------------------------------------------
(* The answer is sent, and the thread ends.  write() blocks, without a     *)
(* limit, once the socket's buffer is full and the client takes nothing.   *)

StopReading(t) ==
    /\ At(t, "end") /\ thread[t].answer # NULL /\ thread[t].reads
    /\ Cardinality({u \in Thread : ~thread[u].reads}) < MaxStalled
    /\ Become(t, [reads |-> FALSE])
    /\ UNCHANGED <<mainVars, current_httpd_threads, save>>

\* The client goes on, or closes and write() fails.
ReadOn(t) ==
    /\ At(t, "end") /\ ~thread[t].reads
    /\ Become(t, [reads |-> TRUE])
    /\ UNCHANGED <<mainVars, current_httpd_threads, save>>

\* Every write() has returned; nobody looks whether one failed.
Written(t) == At(t, "end") /\ thread[t].reads

\* A wrong httpdEndRequest: without a valid request the thread returns at once.
httpdEndRequestEarly(t) ==
    /\ Written(t)
    /\ Become(t, IF thread[t].answer = "method error" THEN NoThread
                 ELSE [NoThread EXCEPT !.pc = "leave"])
    /\ UNCHANGED <<mainVars, current_httpd_threads, save>>

httpdEndRequest(t) ==
    /\ Written(t)
    /\ Become(t, [NoThread EXCEPT !.pc = "leave"])
    /\ UNCHANGED <<mainVars, current_httpd_threads, save>>

Leave(t) ==
    /\ At(t, "leave")
    /\ current_httpd_threads' = current_httpd_threads - 1
    /\ Become(t, NoThread)
    /\ UNCHANGED <<mainVars, save>>

MainStep == httpdGetConnection \/ Awake \/ Terminate \/ \E t \in Thread : CreateThread(t)
thread_httpd(t) ==
    \/ Enter(t) \/ ReadFirstLine(t) \/ ReadHeader(t) \/ ReadEnd(t)
    \/ InvalidPath(t) \/ FindFirst(t) \/ FindNext(t) \/ FindFaults(t) \/ FindEntry(t)
    \/ _httpd_sendFile(t) \/ first_contact(t) \/ callback_action(t)
    \/ httpdEndRequest(t) \/ Leave(t)
Client(t) == StopReading(t) \/ ReadOn(t)

HNext == Connect \/ MainStep \/ \E t \in Thread : thread_httpd(t) \/ Client(t)

\* Threads that can run do: a read ends after ten seconds at the latest, a write
\* when the client takes the answer, which nothing says it does.  The model's
\* connections are finitely many, so that no thread is passed over for ever under
\* fairness of them all together.
HSpec == HInit /\ [][HNext]_vars /\ WF_vars(MainStep \/ \E t \in Thread : thread_httpd(t))

----------------------------------------------------------------------------
(* Properties. *)

\* The number the accept loop's congestion test reads is exact whenever it is
\* read: every thread between Enter and Leave counts once, however its request
\* ended, and no connection is lost between the loop and its thread.
ThreadsAccounted ==
    LET alive == {t \in Thread : thread[t].pc # "none"}
    IN /\ current_httpd_threads = Cardinality({t \in alive : thread[t].pc # "new"})
       /\ Running => accepted = created_httpd_threads + (IF main = "accept" THEN 0 ELSE 1)

\* Whatever other threads do to strtok()'s pointer, the handler of a directory
\* only serves requests whose own path starts with that directory: no request
\* is taken for another thread's authentication or denial.
OwnDirectory ==
    \A t \in Thread :
        LET h == thread[t].handler IN
        /\ h = "auth" => Head(Wanted(t)) = AuthDir
        /\ h = "deny" => Head(Wanted(t)) = DenyDir
        /\ h = "file" => Head(Wanted(t)) \in {ImagesDir, PagesDir}
        /\ h = "index" => Wanted(t) = <<>>

\* However empty names, "." and ".." are mixed in the path that the client sent, none
\* of them is looked up, but for a "." or ".." at the very start of a path that
\* begins without a slash.
PlainNames ==
    \A t \in Thread :
        LET path == thread[t].request.path IN
        path # NoPath =>
            \A i \in 1 .. Len(Wanted(t)) :
                Wanted(t)[i] \in {"", ".", ".."} =>
                    i = 1 /\ Wanted(t)[i] # "" /\ Wanted(t)[i] = Head(path)

\* The token that the callback verifies is the one of the first parameter "tok"
\* of the client's own query, when its parameters have a "=".
FirstTokenUsed ==
    \A t \in Thread :
        (thread[t].token # NULL /\ WellFormed(thread[t].request.query))
            => thread[t].token = FirstNamed(thread[t].request.query, Tok)

\* A waiting connection is accepted, whatever the clients of others do, and one with
\* a thread is closed and its thread ends, whatever its client sends or leaves out
\* (as long as its lines come to an end), unless that client stops reading its
\* answer or the process ends.
ConnectionsClosed ==
    /\ waiting > 0 ~> (waiting = 0 \/ ~Running)
    /\ \A t \in Thread :
         thread[t].pc # "none" ~> (thread[t].pc = "none" \/ ~Running \/ ~thread[t].reads)
============================================================================
