---------------------------- MODULE NdsctlProofs ----------------------------
(***************************************************************************)
(* Proofs about the control socket, for any number of runs of ndsctl and   *)
(* any commands and lengths: however writes and reads cut a line up, what  *)
(* is carried out is the command that was asked for.                       *)
(***************************************************************************)
EXTENDS NdsctlProtocol, SequenceTheorems, WellFoundedInduction, TLAPS

----------------------------------------------------------------------------
(* The inductive invariant. *)

\* What lines are made of.
Part == {End} \cup {c.name : c \in CommandLine}
        \cup UNION {ToSet(c.param) : c \in {d \in CommandLine : d.param # NULL}}

\* A command line that ndsctl sends to the gateway, and the line that it sends.
Complete(c) == c.name \in Listing \/ (c.name \in Action /\ c.param # NULL)
Line(c) == Request(c) \o <<End, End>>

Texts ==
    /\ argv \in [Run -> CommandLine]
    /\ unsent \in [Run -> Seq(Part)]
    /\ pipe \in [Run -> Seq(Part)]
    /\ taken \in [Run -> Seq(Part)]
    /\ DOMAIN client = Run /\ DOMAIN handler = Run /\ DOMAIN reply = Run
    /\ DOMAIN carried = Run /\ DOMAIN faulty = Run /\ DOMAIN settings = Setting

\* Nothing is on its way before the connection is there; then what was read, what is on
\* its way and what is still to be written are together the line.
OnItsWay(r) ==
    /\ client[r] \in {"parse", "connect", "error"} => handler[r] = "none"
    /\ client[r] = "connect" => Complete(argv[r])
    /\ handler[r] = "none" => taken[r] = <<>> /\ pipe[r] = <<>> /\ unsent[r] = <<>>
    /\ handler[r] # "none" =>
         /\ Complete(argv[r])
         /\ faulty[r] \/ taken[r] \o (pipe[r] \o unsent[r]) = Line(argv[r])
    /\ handler[r] = "run" => \E i \in 1 .. Len(taken[r]) : taken[r][i] = End

\* Who was answered was served, and served as asked.
Served(r) ==
    /\ ~faulty[r] /\ carried[r] # <<>> => carried[r] = Request(argv[r])
    /\ reply[r] # NULL => carried[r] # <<>>
    /\ client[r] = "Yes" => carried[r] # <<>>

AskedFor(s) ==
    settings[s] # NULL =>
        \E r \in Run : faulty[r] \/ (carried[r] # <<>> /\ Request(argv[r]) = <<s>> \o settings[s])

NInv ==
    /\ Texts
    /\ \A r \in Run : OnItsWay(r) /\ Served(r)
    /\ \A s \in Setting : AskedFor(s)

----------------------------------------------------------------------------
(* Lines and their parts. *)

\* Among the terminators of a line, and its end, there is a first one.
LEMMA LeastNumber ==
    ASSUME NEW T \in SUBSET Nat, T # {}
    PROVE  \E x \in T : \A y \in T : x =< y
<1>1. PICK x \in T : \A y \in T : ~ (<<y, x>> \in OpToRel(<, Nat))
      BY WFMin, NatLessThanWellFounded
<1>2. \A y \in T : ~ (y < x)
      BY <1>1 DEF OpToRel
<1> QED  BY <1>2

\* The request of a complete command line has a name, a text and no terminator in it.
LEMMA RequestText ==
    ASSUME NEW c \in CommandLine, Complete(c)
    PROVE  /\ Request(c) \in Seq(Part) /\ Len(Request(c)) >= 1
           /\ \A i \in 1 .. Len(Request(c)) : Request(c)[i] # End
           /\ Request(c)[1] = c.name
           /\ c.name \notin Action => Request(c) = <<c.name>>
<1>1. c.name \in Part /\ c.name # End
      BY CommandAssumption DEF Part
<1>2. <<c.name>> \in Seq(Part) /\ Len(<<c.name>>) = 1 /\ <<c.name>>[1] = c.name
      BY <1>1
<1>3. CASE c.name \notin Action
  <2>1. Request(c) = <<c.name>> \o <<>>
        BY <1>3 DEF Request
  <2>2. Request(c) = <<c.name>>
        BY <1>2, <2>1, ConcatEmptySeq
  <2> QED  BY <1>1, <1>2, <1>3, <2>2
<1>4. CASE c.name \in Action
  <2>1. c.name \notin Listing
        BY <1>4 DEF Action, Listing, Setting
  <2>2. c.param # NULL
        BY <2>1 DEF Complete
  <2>3. c.param \in Seq(ToSet(c.param)) /\ End \notin ToSet(c.param) /\ ToSet(c.param) \subseteq Part
        BY <2>2, CommandAssumption DEF Part
  <2>4. c.param \in Seq(Part) /\ Len(c.param) \in Nat
        BY <2>3
  <2> DEFINE m == Min({Len(c.param), MaxParam})
             p == SubSeq(c.param, 1, m)
  <2>5. MaxParam \in Nat
        BY NdsctlBounds
  <2>6. m \in Nat /\ m <= Len(c.param)
    <3>1. \E x \in {Len(c.param), MaxParam} : \A y \in {Len(c.param), MaxParam} : x =< y
          BY <2>4, <2>5
    <3>2. /\ m \in {Len(c.param), MaxParam}
          /\ \A y \in {Len(c.param), MaxParam} : m =< y
          BY <3>1 DEF Min
    <3> QED  BY <2>4, <2>5, <3>2
  <2>7. Request(c) = <<c.name>> \o p
        BY <1>4 DEF Request
  <2> HIDE DEF m
  <2>8. \A i \in 1 .. m : c.param[i] \in Part /\ c.param[i] # End
    <3>1. \A i \in 1 .. Len(c.param) : c.param[i] \in ToSet(c.param)
          BY <2>3, ElementOfSeq
    <3> QED  BY <2>3, <2>4, <2>6, <3>1
  <2>9. /\ p \in Seq(Part) /\ Len(p) = m
        /\ \A i \in 1 .. m : p[i] = c.param[i]
    <3>1. /\ p \in Seq(Part) /\ Len(p) = IF 1 <= m THEN m - 1 + 1 ELSE 0
          /\ \A i \in 1 .. m - 1 + 1 : p[i] = c.param[1 + i - 1]
          BY <2>6, <2>8, SubSeqProperties
    <3> QED  BY <2>6, <3>1
  <2> HIDE DEF p
  <2>10. /\ <<c.name>> \o p \in Seq(Part)
         /\ Len(<<c.name>> \o p) = 1 + m
         /\ \A i \in 1 .. 1 + m :
              (<<c.name>> \o p)[i] = IF i <= 1 THEN <<c.name>>[i] ELSE p[i - 1]
         BY <1>2, <2>6, <2>9, ConcatProperties
  <2>11. \A i \in 1 .. 1 + m : (<<c.name>> \o p)[i] # End
    <3> TAKE i \in 1 .. 1 + m
    <3>1. CASE i = 1
          BY <1>1, <1>2, <2>6, <2>10, <3>1
    <3>2. CASE i # 1
      <4>1. i - 1 \in 1 .. m /\ ~(i <= 1)
            BY <2>6, <3>2
      <4> QED  BY <2>8, <2>9, <2>10, <4>1
    <3> QED  BY <3>1, <3>2
  <2>12. (<<c.name>> \o p)[1] = c.name
         BY <1>2, <2>6, <2>10
  <2> QED  BY <1>4, <2>6, <2>7, <2>10, <2>11, <2>12
<1> QED  BY <1>3, <1>4

\* Three texts one after the other.
LEMMA Associative ==
    \A a, b, c \in Seq(Part) :
        a \o b \in Seq(Part) /\ (a \o b) \o c = a \o (b \o c)
<1> SUFFICES ASSUME NEW a \in Seq(Part), NEW b \in Seq(Part), NEW c \in Seq(Part)
             PROVE  a \o b \in Seq(Part) /\ (a \o b) \o c = a \o (b \o c)
    OBVIOUS
<1> QED  BY SMT

\* A part of one text moves to the end of the one before it.
LEMMA PartMoves ==
    ASSUME NEW a \in Seq(Part), NEW b \in Seq(Part), NEW n \in 1 .. Len(b)
    PROVE  /\ SubSeq(b, 1, n) \in Seq(Part) /\ SubSeq(b, n + 1, Len(b)) \in Seq(Part)
           /\ a \o SubSeq(b, 1, n) \in Seq(Part)
           /\ (a \o SubSeq(b, 1, n)) \o SubSeq(b, n + 1, Len(b)) = a \o b
<1>1. Len(b) \in Nat /\ \A i \in 1 .. Len(b) : b[i] \in Part
      BY LenProperties, ElementOfSeq
<1>2. SubSeq(b, 1, n) \in Seq(Part) /\ SubSeq(b, n + 1, Len(b)) \in Seq(Part)
  <2>1. \A i \in 1 .. n : b[i] \in Part
        BY <1>1
  <2>2. \A i \in n + 1 .. Len(b) : b[i] \in Part
        BY <1>1
  <2> QED  BY <1>1, <2>1, <2>2, SubSeqProperties
<1>3. SubSeq(b, 1, n) \o SubSeq(b, n + 1, Len(b)) = b
  <2>1. 1 \in 1 .. Len(b) + 1 /\ n \in 1 - 1 .. Len(b) /\ Len(b) \in n .. Len(b)
        BY <1>1
  <2>2. SubSeq(b, 1, n) \o SubSeq(b, n + 1, Len(b)) = SubSeq(b, 1, Len(b))
        BY <2>1, ConcatAdjacentSubSeq
  <2> QED  BY <2>2, SubSeqFull
<1>4. PICK x, y \in Seq(Part) : x = SubSeq(b, 1, n) /\ y = SubSeq(b, n + 1, Len(b))
      BY <1>2
<1>5. a \o x \in Seq(Part) /\ (a \o x) \o y = a \o (x \o y)
      BY Associative, SMTT(60)
<1>6. (a \o x) \o y = a \o b
      BY <1>3, <1>4, <1>5
<1> QED  BY <1>2, <1>4, <1>5, <1>6

\* A text that the line begins with and that has a terminator in it has the whole
\* request before the first one.
LEMMA WholeRequest ==
    ASSUME NEW S, End \in S, NEW q \in Seq(S), NEW k \in Seq(S), NEW rest \in Seq(S),
           Len(q) >= 1, \A i \in 1 .. Len(q) : q[i] # End,
           k \o rest = q \o <<End, End>>,
           \E i \in 1 .. Len(k) : k[i] = End
    PROVE  LET Ends == {i \in 1 .. Len(k) : k[i] = End} \cup {Len(k) + 1}
           IN  Head(k) = q[1] /\ <<Head(k)>> \o SubSeq(k, 2, Min(Ends) - 1) = q
<1> DEFINE N == Len(q)
           two == <<End, End>>
           e == N + 1
           Ends == {i \in 1 .. Len(k) : k[i] = End} \cup {Len(k) + 1}
<1>1. two \in Seq(S) /\ Len(two) = 2 /\ two[1] = End /\ two[2] = End
      OBVIOUS
<1>2. N \in Nat /\ N >= 1 /\ Len(k) \in Nat /\ Len(rest) \in Nat
      BY LenProperties
<1> HIDE DEF two
<1>3. /\ Len(q \o two) = N + 2
      /\ \A i \in 1 .. N + 2 : (q \o two)[i] = IF i <= N THEN q[i] ELSE two[i - N]
  <2>1. /\ Len(q \o two) = Len(q) + Len(two)
        /\ \A i \in 1 .. Len(q) + Len(two) :
             (q \o two)[i] = IF i <= Len(q) THEN q[i] ELSE two[i - Len(q)]
        BY <1>1, ConcatProperties, Zenon
  <2> QED  BY <1>1, <2>1
<1>4. /\ Len(k \o rest) = Len(k) + Len(rest)
      /\ \A i \in 1 .. Len(k) + Len(rest) :
           (k \o rest)[i] = IF i <= Len(k) THEN k[i] ELSE rest[i - Len(k)]
      BY ConcatProperties
<1>5. k \o rest = q \o two
      BY DEF two
<1>6. \A i \in 1 .. Len(k) : i \in 1 .. N + 2 /\ k[i] = IF i <= N THEN q[i] ELSE two[i - N]
  <2> TAKE i \in 1 .. Len(k)
  <2>1. Len(k) + Len(rest) = N + 2
        BY <1>3, <1>4, <1>5
  <2>2. i \in 1 .. Len(k) + Len(rest) /\ i <= Len(k) /\ i \in 1 .. N + 2
        BY <1>2, <2>1
  <2>3. (k \o rest)[i] = k[i]
        BY <1>4, <2>2
  <2>4. (q \o two)[i] = IF i <= N THEN q[i] ELSE two[i - N]
        BY <1>3, <2>2, Zenon
  <2> QED  BY <1>5, <2>2, <2>3, <2>4
<1>7. \A i \in 1 .. Len(k) : k[i] = End => i >= e
      BY <1>2, <1>6
<1>8. Len(k) >= e
      BY <1>2, <1>7
<1>9. k[e] = End /\ e \in 1 .. Len(k)
  <2>1. e \in 1 .. Len(k) /\ ~(e <= N) /\ e - N = 1
        BY <1>2, <1>8
  <2> QED  BY <1>1, <1>6, <2>1
<1>10. Min(Ends) = e
  <2>1. e \in Ends /\ \A j \in Ends : e <= j /\ j \in Nat
        BY <1>2, <1>7, <1>8, <1>9
  <2>2. Min(Ends) \in Ends /\ \A j \in Ends : Min(Ends) <= j
    <3>1. \E x \in Ends : \A y \in Ends : x =< y
          BY <2>1
    <3> HIDE DEF Ends
    <3> QED  BY <3>1 DEF Min
  <2> QED  BY <1>2, <2>1, <2>2
<1>11. Head(k) = k[1] /\ k[1] = q[1]
  <2>1. 1 \in 1 .. Len(k) /\ 1 <= N
        BY <1>2, <1>8
  <2>2. k[1] = q[1]
        BY <1>6, <2>1
  <2>3. Head(k) = k[1]
        BY <2>1
  <2> QED  BY <2>2, <2>3
<1>12. SubSeq(k, 1, N) = <<k[1]>> \o SubSeq(k, 1 + 1, N)
  <2>1. 1 \in 1 .. Len(k) /\ N \in 1 .. Len(k)
        BY <1>2, <1>8
  <2> QED  BY <2>1, SubSeqRecursiveFirst
<1>13. SubSeq(k, 1, N) = q
  <2>1. 1 \in 1 .. Len(k) /\ N \in 1 .. Len(k) /\ 1 \in 1 .. N /\ N \in 1 .. N
        BY <1>2, <1>8
  <2>2. SubSeq(k \o rest, 1, N) = SubSeq(k, 1, N)
        BY <2>1, SubSeqOfConcat1
  <2>3. SubSeq(q \o two, 1, N) = SubSeq(q, 1, N)
        BY <1>1, <2>1, SubSeqOfConcat1
  <2>4. SubSeq(q, 1, N) = q
        BY SubSeqFull
  <2> QED  BY <1>5, <2>2, <2>3, <2>4
<1>14. e - 1 = N /\ 1 + 1 = 2
      BY <1>2
<1> QED  BY <1>10, <1>11, <1>12, <1>13, <1>14, Zenon

----------------------------------------------------------------------------
(* The steps. *)

LEMMA InitNInv == Init => NInv
<1> SUFFICES ASSUME Init PROVE NInv
    OBVIOUS
<1>0. <<>> \in Seq(Part)
      OBVIOUS
<1>1. Texts
      BY <1>0 DEF Init, Texts
<1>2. \A r \in Run : OnItsWay(r)
      BY DEF Init, OnItsWay
<1>3. \A r \in Run : Served(r)
      BY DEF Init, Served
<1>4. \A s \in Setting : AskedFor(s)
      BY DEF Init, AskedFor
<1> QED  BY <1>1, <1>2, <1>3, <1>4 DEF NInv

\* What a step of one run leaves alone: the other runs, and the command lines.
Others(r) ==
    /\ argv' = argv
    /\ \A u \in Run : u # r =>
         UNCHANGED <<client[u], unsent[u], pipe[u], handler[u], taken[u], reply[u],
                     carried[u], faulty[u]>>

LEMMA OthersKept ==
    ASSUME NInv, NEW r \in Run, Others(r), NEW u \in Run, u # r
    PROVE  OnItsWay(u)' /\ Served(u)'
<1>1. /\ argv' = argv
      /\ UNCHANGED <<client[u], unsent[u], pipe[u], handler[u], taken[u], reply[u],
                     carried[u], faulty[u]>>
      BY DEF Others
<1>2. OnItsWay(u) /\ Served(u)
      BY DEF NInv
<1>3. OnItsWay(u)'
      BY <1>1, <1>2 DEF OnItsWay
<1>4. Served(u)'
      BY <1>1, <1>2 DEF Served
<1> QED  BY <1>3, <1>4

\* A setting that was asked for stays so: commands are not taken back.
LEMMA SettingsKept ==
    ASSUME NInv, NEW r \in Run, Others(r), settings' = settings,
           faulty[r] => faulty'[r],
           carried[r] # <<>> => carried'[r] # <<>>
    PROVE  \A s \in Setting : AskedFor(s)'
<1> SUFFICES ASSUME NEW s \in Setting, settings[s] # NULL
             PROVE  \E u \in Run : \/ faulty'[u]
                                   \/ carried'[u] # <<>> /\ Request(argv[u]) = <<s>> \o settings[s]
    BY DEF AskedFor, Others
<1>1. PICK u \in Run : faulty[u] \/ (carried[u] # <<>> /\ Request(argv[u]) = <<s>> \o settings[s])
      BY DEF NInv, AskedFor
<1>2. CASE u = r
      BY <1>1, <1>2
<1>3. CASE u # r
  <2>1. faulty'[u] = faulty[u] /\ carried'[u] = carried[u]
        BY <1>3 DEF Others
  <2> QED  BY <1>1, <2>1
<1> QED  BY <1>2, <1>3

\* A step of the run r: what is to be shown of it.
LEMMA RunStep ==
    ASSUME NInv, NEW r \in Run, Others(r), Texts', OnItsWay(r)', Served(r)', settings' = settings,
           faulty[r] => faulty'[r],
           carried[r] # <<>> => carried'[r] # <<>>
    PROVE  NInv'
<1>1. \A s \in Setting : AskedFor(s)'
      BY SettingsKept
<1>2. \A u \in Run : OnItsWay(u)' /\ Served(u)'
      BY OthersKept
<1> QED  BY <1>1, <1>2 DEF NInv

LEMMA ParseStep ==
    ASSUME NInv, NEW r \in Run, parse_commandline(r)
    PROVE  NInv'
<1>1. Texts /\ OnItsWay(r) /\ Served(r)
      BY DEF NInv
<1>2. /\ client[r] = "parse" /\ UNCHANGED <<argv, unsent, pipe, handler, taken, reply, carried,
                                            settings, faulty>>
      /\ client' = [client EXCEPT ![r] = IF Complete(argv[r]) THEN "connect" ELSE "error"]
      BY DEF parse_commandline, serverVars, Complete
<1>3. /\ client'[r] = IF Complete(argv[r]) THEN "connect" ELSE "error"
      /\ DOMAIN client' = Run
      /\ \A u \in Run : u # r => client'[u] = client[u]
      BY <1>1, <1>2 DEF Texts
<1>4. Others(r) /\ Texts'
      BY <1>1, <1>2, <1>3 DEF Others, Texts
<1>5. OnItsWay(r)' /\ Served(r)'
      BY <1>1, <1>2, <1>3 DEF OnItsWay, Served
<1> QED  BY <1>2, <1>4, <1>5, RunStep

LEMMA ConnectStep ==
    ASSUME NInv, NEW r \in Run, connect_to_server(r)
    PROVE  NInv'
<1>1. Texts /\ OnItsWay(r) /\ Served(r)
      BY DEF NInv
<1>2. /\ client[r] = "connect"
      /\ UNCHANGED <<argv, pipe, taken, reply, carried, settings, faulty>>
      BY DEF connect_to_server, serverVars
<1>3. /\ Complete(argv[r]) /\ handler[r] = "none" /\ argv[r] \in CommandLine
      /\ taken[r] = <<>> /\ pipe[r] = <<>> /\ unsent[r] = <<>>
      BY <1>1, <1>2 DEF OnItsWay, Texts
<1>4. Line(argv[r]) \in Seq(Part)
  <2>1. Request(argv[r]) \in Seq(Part)
        BY <1>3, RequestText
  <2>2. <<End, End>> \in Seq(Part)
    <3>1. End \in Part
          BY DEF Part
    <3> QED  BY <3>1
  <2> QED  BY <2>1, <2>2, ConcatProperties DEF Line
<1>5. CASE Alive /\ listening
  <2>1. /\ client' = [client EXCEPT ![r] = "send"]
        /\ unsent' = [unsent EXCEPT ![r] = Line(argv[r])]
        /\ handler' = [handler EXCEPT ![r] = "waiting"]
        BY <1>5 DEF connect_to_server, Line
  <2>2. /\ client'[r] = "send" /\ unsent'[r] = Line(argv[r]) /\ handler'[r] = "waiting"
        /\ DOMAIN client' = Run /\ DOMAIN handler' = Run /\ unsent' \in [Run -> Seq(Part)]
        /\ \A u \in Run : u # r => UNCHANGED <<client[u], unsent[u], handler[u]>>
        BY <1>1, <1>4, <2>1 DEF Texts
  <2>3. Others(r) /\ Texts'
        BY <1>1, <1>2, <2>2 DEF Others, Texts
  <2>4. <<>> \o (<<>> \o Line(argv[r])) = Line(argv[r])
        BY <1>4, ConcatEmptySeq
  <2>5. OnItsWay(r)'
        BY <1>2, <1>3, <2>2, <2>4 DEF OnItsWay
  <2>6. Served(r)'
        BY <1>1, <1>2, <2>2 DEF Served
  <2> QED  BY <1>2, <2>3, <2>5, <2>6, RunStep
<1>6. CASE ~(Alive /\ listening)
  <2>1. client' = [client EXCEPT ![r] = "error"] /\ UNCHANGED <<unsent, handler>>
        BY <1>6 DEF connect_to_server
  <2>2. /\ client'[r] = "error" /\ DOMAIN client' = Run
        /\ \A u \in Run : u # r => client'[u] = client[u]
        BY <1>1, <2>1 DEF Texts
  <2>3. Others(r) /\ Texts'
        BY <1>1, <1>2, <2>1, <2>2 DEF Others, Texts
  <2>4. OnItsWay(r)' /\ Served(r)'
        BY <1>1, <1>2, <1>3, <2>1, <2>2 DEF OnItsWay, Served
  <2> QED  BY <1>2, <2>3, <2>4, RunStep
<1> QED  BY <1>5, <1>6

\* A step that only moves the client on, once it is connected.
LEMMA ClientMoves ==
    ASSUME NInv, NEW r \in Run, NEW c, client' = [client EXCEPT ![r] = c],
           UNCHANGED <<argv, unsent, pipe, handler, taken, reply, carried, settings, faulty>>,
           c \notin {"parse", "connect", "error"},
           c = "Yes" => carried[r] # <<>>
    PROVE  NInv'
<1>1. Texts /\ OnItsWay(r) /\ Served(r)
      BY DEF NInv
<1>2. /\ client'[r] = c /\ DOMAIN client' = Run
      /\ \A u \in Run : u # r => client'[u] = client[u]
      BY <1>1 DEF Texts
<1>3. Others(r) /\ Texts'
      BY <1>1, <1>2 DEF Others, Texts
<1>4. OnItsWay(r)' /\ Served(r)'
      BY <1>1, <1>2 DEF OnItsWay, Served
<1> QED  BY <1>3, <1>4, RunStep

\* A step that only moves the handler on, once the connection is there.
LEMMA HandlerMoves ==
    ASSUME NInv, NEW r \in Run, NEW h, handler' = [handler EXCEPT ![r] = h],
           UNCHANGED <<argv, client, unsent, pipe, taken, reply, carried, settings, faulty>>,
           handler[r] # "none", h \notin {"none", "run"}
    PROVE  NInv'
<1>1. Texts /\ OnItsWay(r) /\ Served(r)
      BY DEF NInv
<1>2. /\ handler'[r] = h /\ DOMAIN handler' = Run
      /\ \A u \in Run : u # r => handler'[u] = handler[u]
      BY <1>1 DEF Texts
<1>3. Others(r) /\ Texts'
      BY <1>1, <1>2 DEF Others, Texts
<1>4. OnItsWay(r)' /\ Served(r)'
      BY <1>1, <1>2 DEF OnItsWay, Served
<1> QED  BY <1>3, <1>4, RunStep
\* write(): a part of what is unsent is on its way.
LEMMA SendStep ==
    ASSUME NInv, NEW r \in Run, send_request(r)
    PROVE  NInv'
<1>1. Texts /\ OnItsWay(r) /\ Served(r)
      BY DEF NInv
<1>2. client[r] = "send" /\ UNCHANGED <<argv, handler, taken, reply, carried, settings, faulty>>
      BY DEF send_request, serverVars
<1>3. CASE UNCHANGED <<unsent, pipe>> /\ client' = [client EXCEPT ![r] = "killed"]
      BY <1>2, <1>3, ClientMoves
<1>4. CASE \E n \in 1 .. Len(unsent[r]) :
             /\ pipe' = [pipe EXCEPT ![r] = @ \o SubSeq(unsent[r], 1, n)]
             /\ unsent' = [unsent EXCEPT ![r] = SubSeq(@, n + 1, Len(@))]
             /\ client' = [client EXCEPT ![r] = IF n = Len(unsent[r]) THEN "read" ELSE "send"]
  <2>1. PICK n \in 1 .. Len(unsent[r]) :
             /\ pipe' = [pipe EXCEPT ![r] = @ \o SubSeq(unsent[r], 1, n)]
             /\ unsent' = [unsent EXCEPT ![r] = SubSeq(@, n + 1, Len(@))]
             /\ client' = [client EXCEPT ![r] = IF n = Len(unsent[r]) THEN "read" ELSE "send"]
        BY <1>4
  <2>2. taken[r] \in Seq(Part) /\ pipe[r] \in Seq(Part) /\ unsent[r] \in Seq(Part)
        BY <1>1 DEF Texts
  <2>3. /\ SubSeq(unsent[r], n + 1, Len(unsent[r])) \in Seq(Part)
        /\ pipe[r] \o SubSeq(unsent[r], 1, n) \in Seq(Part)
        /\ (pipe[r] \o SubSeq(unsent[r], 1, n)) \o SubSeq(unsent[r], n + 1, Len(unsent[r]))
             = pipe[r] \o unsent[r]
        BY <2>1, <2>2, PartMoves
  <2>4. /\ pipe'[r] = pipe[r] \o SubSeq(unsent[r], 1, n)
        /\ unsent'[r] = SubSeq(unsent[r], n + 1, Len(unsent[r]))
        /\ client'[r] \in {"read", "send"}
        /\ DOMAIN client' = Run /\ DOMAIN pipe' = Run /\ DOMAIN unsent' = Run
        /\ \A u \in Run : u # r => UNCHANGED <<client[u], pipe[u], unsent[u]>>
        BY <1>1, <2>1 DEF Texts
  <2>5. pipe' \in [Run -> Seq(Part)] /\ unsent' \in [Run -> Seq(Part)]
        BY <1>1, <2>1, <2>3 DEF Texts
  <2>6. Others(r) /\ Texts'
        BY <1>1, <1>2, <2>4, <2>5 DEF Others, Texts
  <2>7. pipe'[r] \o unsent'[r] = pipe[r] \o unsent[r]
        BY <2>3, <2>4
  <2>8. handler[r] # "none"
    <3>1. SUFFICES ASSUME handler[r] = "none" PROVE FALSE
          OBVIOUS
    <3>2. unsent[r] = <<>> /\ Len(<<>>) = 0
          BY <1>1, <3>1 DEF OnItsWay
    <3> QED  BY <2>1, <3>2
  <2>9. OnItsWay(r)'
        BY <1>1, <1>2, <2>4, <2>7, <2>8 DEF OnItsWay
  <2>10. Served(r)'
        BY <1>1, <1>2, <2>4 DEF Served
  <2> QED  BY <1>2, <2>6, <2>9, <2>10, RunStep
<1> QED  BY <1>3, <1>4 DEF send_request

\* The answer: "Yes" only comes after the command.
LEMMA ReplyStep ==
    ASSUME NInv, NEW r \in Run, ReadReply(r)
    PROVE  NInv'
<1> DEFINE c == CASE argv[r].name \in Listing -> "printed"
                  [] reply[r] \in {"Yes", "No"} /\ argv[r].name \in Action -> reply[r]
                  [] OTHER -> "abnormal"
<1>1. /\ client' = [client EXCEPT ![r] = c]
      /\ UNCHANGED <<argv, unsent, pipe, handler, taken, reply, carried, settings, faulty>>
      BY DEF ReadReply, serverVars
<1>2. c \in {"printed", "abnormal"} \/ (c = reply[r] /\ reply[r] \in {"Yes", "No"})
  <2>1. CASE argv[r].name \in Listing
    <3>1. argv[r].name \notin Action
          BY <2>1 DEF Listing, Action, Setting
    <3> QED  BY <2>1, <3>1
  <2>2. CASE argv[r].name \notin Listing /\ reply[r] \in {"Yes", "No"} /\ argv[r].name \in Action
        BY <2>2
  <2>3. CASE argv[r].name \notin Listing /\ ~(reply[r] \in {"Yes", "No"} /\ argv[r].name \in Action)
        BY <2>3
  <2> QED  BY <2>1, <2>2, <2>3
<1> HIDE DEF c
<1>3. c = "Yes" => carried[r] # <<>>
  <2>1. Served(r)
        BY DEF NInv
  <2> QED  BY <1>2, <2>1, NullAssumption DEF Served
<1> QED  BY <1>1, <1>2, <1>3, ClientMoves

\* read(): a part of what is on its way is taken.
LEMMA ReadStep ==
    ASSUME NInv, NEW r \in Run, Read(r)
    PROVE  NInv'
<1>1. Texts /\ OnItsWay(r) /\ Served(r)
      BY DEF NInv
<1>2. /\ handler[r] = "read"
      /\ UNCHANGED <<argv, client, unsent, reply, carried, settings, faulty>>
      BY DEF Read, Reading, clientVars
<1>3. PICK n \in 1 .. Len(pipe[r]) :
        /\ taken' = [taken EXCEPT ![r] = @ \o SubSeq(pipe[r], 1, n)]
        /\ pipe' = [pipe EXCEPT ![r] = SubSeq(@, n + 1, Len(@))]
        /\ handler' = [handler EXCEPT ![r] = IF End \in ToSet(SubSeq(pipe[r], 1, n))
                                             THEN "run" ELSE "read"]
      BY DEF Read
<1>4. taken[r] \in Seq(Part) /\ pipe[r] \in Seq(Part) /\ unsent[r] \in Seq(Part)
      BY <1>1 DEF Texts
<1> DEFINE got == SubSeq(pipe[r], 1, n)
           left == SubSeq(pipe[r], n + 1, Len(pipe[r]))
<1>5. /\ got \in Seq(Part) /\ left \in Seq(Part)
      /\ taken[r] \o got \in Seq(Part)
      /\ (taken[r] \o got) \o left = taken[r] \o pipe[r]
      BY <1>3, <1>4, PartMoves
<1>6. /\ taken' = [taken EXCEPT ![r] = taken[r] \o got]
      /\ pipe' = [pipe EXCEPT ![r] = left]
      /\ handler' = [handler EXCEPT ![r] = IF End \in ToSet(got) THEN "run" ELSE "read"]
      BY <1>3
<1> HIDE DEF got, left
<1>7. /\ taken'[r] = taken[r] \o got /\ pipe'[r] = left
      /\ handler'[r] = IF End \in ToSet(got) THEN "run" ELSE "read"
      /\ DOMAIN handler' = Run /\ taken' \in [Run -> Seq(Part)] /\ pipe' \in [Run -> Seq(Part)]
      /\ \A u \in Run : u # r => UNCHANGED <<handler[u], pipe[u], taken[u]>>
      BY <1>1, <1>5, <1>6 DEF Texts
<1>8. Others(r) /\ Texts'
      BY <1>1, <1>2, <1>7 DEF Others, Texts
<1>9. (taken[r] \o got) \o (left \o unsent[r]) = taken[r] \o (pipe[r] \o unsent[r])
  <2>1. PICK a, b, c, d \in Seq(Part) : a = taken[r] /\ b = got /\ c = left /\ d = unsent[r]
        BY <1>4, <1>5
  <2>2. (a \o b) \o (c \o d) = ((a \o b) \o c) \o d
    <3>1. PICK t \in Seq(Part) : t = a \o b
          BY Associative, Zenon
    <3>2. t \o (c \o d) = (t \o c) \o d
          BY Associative, Zenon
    <3> QED  BY <3>1, <3>2
  <2>3. PICK e \in Seq(Part) : e = pipe[r]
        BY <1>4
  <2>4. (a \o e) \o d = a \o (e \o d)
        BY Associative, SMTT(60)
  <2>5. (a \o b) \o c = a \o e
        BY <1>5, <2>1, <2>3
  <2> QED  BY <2>1, <2>2, <2>3, <2>4, <2>5
<1>10. End \in ToSet(got) => \E i \in 1 .. Len(taken'[r]) : taken'[r][i] = End
  <2> SUFFICES ASSUME End \in ToSet(got)
               PROVE  \E i \in 1 .. Len(taken[r] \o got) : (taken[r] \o got)[i] = End
      BY <1>7
  <2>1. PICK j \in 1 .. Len(got) : got[j] = End
        BY <1>5, LenProperties DEF ToSet
  <2>2. /\ Len(taken[r]) \in Nat /\ Len(got) \in Nat
        /\ Len(taken[r] \o got) = Len(taken[r]) + Len(got)
        BY <1>4, <1>5
  <2>3. Len(taken[r]) + j \in 1 .. Len(taken[r] \o got)
        BY <2>1, <2>2
  <2>4. (taken[r] \o got)[Len(taken[r]) + j] = got[j]
        BY <1>4, <1>5, <2>1, <2>2, <2>3
  <2> QED  BY <2>1, <2>3, <2>4
<1>11. OnItsWay(r)'
  <2>1. faulty[r] \/ taken'[r] \o (pipe'[r] \o unsent'[r]) = Line(argv[r])
        BY <1>1, <1>2, <1>7, <1>9 DEF OnItsWay
  <2>2. /\ handler'[r] \in {"run", "read"}
        /\ handler'[r] = "run" => \E i \in 1 .. Len(taken'[r]) : taken'[r][i] = End
        BY <1>7, <1>10
  <2>3. Complete(argv[r]) /\ client[r] \notin {"parse", "connect", "error"}
        BY <1>1, <1>2 DEF OnItsWay
  <2> QED  BY <1>2, <2>1, <2>2, <2>3 DEF OnItsWay
<1>12. Served(r)'
      BY <1>1, <1>2 DEF Served
<1> QED  BY <1>2, <1>8, <1>11, <1>12, RunStep

\* A failing read(): the last part taken is given up, or the handler closes.
LEMMA ReadFailsStep ==
    ASSUME NInv, NEW r \in Run, ReadFails(r)
    PROVE  NInv'
<1>1. Texts /\ OnItsWay(r) /\ Served(r)
      BY DEF NInv
<1>2. /\ handler[r] = "read" /\ faulty' = [faulty EXCEPT ![r] = TRUE]
      /\ UNCHANGED <<argv, client, unsent, pipe, reply, carried, settings>>
      BY DEF ReadFails, Reading, clientVars
<1>3. /\ faulty'[r] = TRUE /\ DOMAIN faulty' = Run
      /\ \A u \in Run : u # r => faulty'[u] = faulty[u]
      BY <1>1, <1>2 DEF Texts
<1>4. /\ taken' \in [Run -> Seq(Part)] /\ DOMAIN handler' = Run /\ handler'[r] \in {"read", "close"}
      /\ \A u \in Run : u # r => UNCHANGED <<taken[u], handler[u]>>
  <2>1. CASE handler' = [handler EXCEPT ![r] = "close"] /\ UNCHANGED taken
        BY <1>1, <2>1 DEF Texts
  <2>2. CASE taken[r] # <<>> /\ taken' = [taken EXCEPT ![r] = Front(@)] /\ UNCHANGED handler
    <3>1. Front(taken[r]) \in Seq(Part)
      <4>1. taken[r] \in Seq(Part) /\ Len(taken[r]) \in Nat
            BY <1>1 DEF Texts
      <4>2. \A i \in 1 .. Len(taken[r]) - 1 : taken[r][i] \in Part
            BY <4>1, ElementOfSeq
      <4> QED  BY <4>1, <4>2, SubSeqProperties DEF Front
    <3> QED  BY <1>1, <1>2, <2>2, <3>1 DEF Texts
  <2> QED  BY <2>1, <2>2 DEF ReadFails
<1>5. Others(r) /\ Texts'
      BY <1>1, <1>2, <1>3, <1>4 DEF Others, Texts
<1>6. OnItsWay(r)'
      BY <1>1, <1>2, <1>3, <1>4 DEF OnItsWay
<1>7. Served(r)'
      BY <1>1, <1>2, <1>3 DEF Served
<1> QED  BY <1>2, <1>3, <1>5, <1>6, <1>7, RunStep
\* The line that a handler runs is the request of its own run of ndsctl.
LEMMA RunsAsAsked ==
    ASSUME NInv, NEW r \in Run, handler[r] = "run", ~faulty[r]
    PROVE  /\ <<Name(r)>> \o Param(r) = Request(argv[r])
           /\ Name(r) = argv[r].name
           /\ Name(r) \notin Action => Request(argv[r]) = <<Name(r)>>
<1>1. Texts /\ OnItsWay(r)
      BY DEF NInv
<1>2. /\ argv[r] \in CommandLine
      /\ taken[r] \in Seq(Part) /\ pipe[r] \in Seq(Part) /\ unsent[r] \in Seq(Part)
      BY <1>1 DEF Texts
<1>3. /\ Complete(argv[r])
      /\ taken[r] \o (pipe[r] \o unsent[r]) = Request(argv[r]) \o <<End, End>>
      /\ \E i \in 1 .. Len(taken[r]) : taken[r][i] = End
      BY <1>1 DEF OnItsWay, Line
<1>4. /\ Request(argv[r]) \in Seq(Part) /\ Len(Request(argv[r])) >= 1
      /\ \A i \in 1 .. Len(Request(argv[r])) : Request(argv[r])[i] # End
      /\ Request(argv[r])[1] = argv[r].name
      /\ argv[r].name \notin Action => Request(argv[r]) = <<argv[r].name>>
      BY <1>2, <1>3, RequestText
<1>5. pipe[r] \o unsent[r] \in Seq(Part)
      BY <1>2, Associative, Zenon
<1>6. End \in Part
      BY DEF Part
<1>7. PICK q, k, rest \in Seq(Part) :
        q = Request(argv[r]) /\ k = taken[r] /\ rest = pipe[r] \o unsent[r]
      BY <1>2, <1>4, <1>5
<1>8. LET Ends == {i \in 1 .. Len(k) : k[i] = End} \cup {Len(k) + 1}
      IN  Head(k) = q[1] /\ <<Head(k)>> \o SubSeq(k, 2, Min(Ends) - 1) = q
  <2>1. Len(q) >= 1 /\ \A i \in 1 .. Len(q) : q[i] # End
        BY <1>4, <1>7
  <2>2. k \o rest = q \o <<End, End>>
        BY <1>3, <1>7
  <2>3. \E i \in 1 .. Len(k) : k[i] = End
        BY <1>3, <1>7
  <2> QED  BY <1>6, <2>1, <2>2, <2>3, WholeRequest, Zenon
<1>9. Name(r) = q[1] /\ <<Name(r)>> \o Param(r) = q
      BY <1>7, <1>8, Zenon DEF Name, Param
<1> QED  BY <1>4, <1>7, <1>9

\* Carrying a command out: the end of a handler's work.
LEMMA CommandStep ==
    ASSUME NInv, NEW r \in Run, handler[r] = "run",
           NEW did, did # <<>>, faulty[r] \/ did = Request(argv[r]),
           NEW h, h \in {"close", "lost"},
           carried' = [carried EXCEPT ![r] = did],
           handler' = [handler EXCEPT ![r] = h],
           DOMAIN reply' = Run, \A u \in Run : u # r => reply'[u] = reply[u],
           UNCHANGED <<argv, client, unsent, pipe, taken, faulty>>
    PROVE  /\ Others(r) /\ OnItsWay(r)' /\ Served(r)'
           /\ DOMAIN settings' = Setting => Texts'
           /\ carried'[r] = did
<1>1. Texts /\ OnItsWay(r) /\ Served(r)
      BY DEF NInv
<1>2. /\ carried'[r] = did /\ handler'[r] = h
      /\ DOMAIN carried' = Run /\ DOMAIN handler' = Run /\ DOMAIN reply' = Run
      /\ \A u \in Run : u # r => UNCHANGED <<carried[u], handler[u], reply[u]>>
      BY <1>1 DEF Texts
<1>3. Others(r)
      BY <1>2 DEF Others
<1>4. DOMAIN settings' = Setting => Texts'
      BY <1>1, <1>2 DEF Texts
<1>5. OnItsWay(r)'
      BY <1>1, <1>2 DEF OnItsWay
<1>6. Served(r)'
      BY <1>1, <1>2 DEF Served
<1> QED  BY <1>2, <1>3, <1>4, <1>5, <1>6

\* The command is the one asked for, and so is the setting that it makes.
LEMMA RunCommandStep ==
    ASSUME NInv, NEW r \in Run, RunCommand(r)
    PROVE  NInv'
<1> DEFINE did == <<Name(r)>> \o Param(r)
<1>1. /\ handler[r] = "run"
      /\ carried' = [carried EXCEPT ![r] = did]
      /\ handler' = [handler EXCEPT ![r] = "close"]
      /\ UNCHANGED <<argv, client, unsent, pipe, taken, faulty>>
      BY DEF RunCommand, clientVars
<1>2. faulty[r] \/ did = Request(argv[r])
      BY <1>1, RunsAsAsked
<1>3. Texts
      BY DEF NInv
<1>4. did # <<>>
  <2>1. taken[r] \in Seq(Part) /\ Len(taken[r]) \in Nat /\ \E i \in 1 .. Len(taken[r]) : TRUE
        BY <1>1, <1>3 DEF NInv, Texts, OnItsWay
  <2>2. Name(r) \in Part
        BY <2>1, HeadTailProperties DEF Name
  <2>3. Param(r) \in Seq(Part)
    <3> DEFINE Ends == {i \in 1 .. Len(taken[r]) : taken[r][i] = End} \cup {Len(taken[r]) + 1}
               m == Min(Ends)
    <3>1. \E i \in 1 .. Len(taken[r]) : taken[r][i] = End
          BY <1>1 DEF NInv, OnItsWay
    <3>2. m \in Ends
      <4>1. Len(taken[r]) + 1 \in Ends /\ Ends \subseteq 1 .. Len(taken[r]) + 1
            BY <2>1
      <4>2. \E x \in Ends : \A y \in Ends : x =< y
        <5> HIDE DEF Ends
        <5>1. Ends \subseteq Nat /\ Ends # {}
              BY <2>1, <4>1
        <5> QED  BY <5>1, LeastNumber
      <4> HIDE DEF Ends
      <4> QED  BY <4>2 DEF Min
    <3>3. m \in 1 .. Len(taken[r]) + 1
          BY <2>1, <3>2
    <3> HIDE DEF m
    <3>4. \A i \in 2 .. m - 1 : taken[r][i] \in Part
          BY <2>1, <3>3, ElementOfSeq
    <3>5. SubSeq(taken[r], 2, m - 1) \in Seq(Part)
          BY <3>3, <3>4, SubSeqProperties
    <3> QED  BY <3>5 DEF m, Param
  <2>4. Len(did) = 1 + Len(Param(r)) /\ Len(Param(r)) \in Nat
        BY <2>2, <2>3
  <2>5. Len(<<>>) = 0
        OBVIOUS
  <2> HIDE DEF did
  <2> QED  BY <2>4, <2>5
<1> HIDE DEF did
<1>5. CASE Name(r) \in Setting /\ Set(r)
  <2>1. /\ reply' = [reply EXCEPT ![r] = "Yes"]
        /\ settings' = [settings EXCEPT ![Name(r)] = Param(r)]
        BY <1>5 DEF Set
  <2>2. /\ DOMAIN settings' = Setting /\ DOMAIN reply' = Run
        /\ \A u \in Run : u # r => reply'[u] = reply[u]
        BY <1>3, <2>1 DEF Texts
  <2>3. Others(r) /\ OnItsWay(r)' /\ Served(r)' /\ Texts' /\ carried'[r] = did
        BY <1>1, <1>2, <1>4, <2>1, <2>2, CommandStep
  <2>4. ASSUME NEW s \in Setting PROVE AskedFor(s)'
    <3>1. CASE s = Name(r)
      <4>1. settings'[s] = Param(r)
            BY <1>3, <2>1, <3>1 DEF Texts
      <4>2. \/ faulty'[r]
            \/ carried'[r] # <<>> /\ Request(argv'[r]) = <<s>> \o settings'[s]
            BY <1>1, <1>2, <1>4, <2>3, <3>1, <4>1 DEF did
      <4> QED  BY <4>2 DEF AskedFor
    <3>2. CASE s # Name(r)
      <4>1. settings'[s] = settings[s]
            BY <1>3, <2>1, <3>2 DEF Texts
      <4>2. SUFFICES ASSUME settings[s] # NULL
                     PROVE  \E u \in Run :
                                \/ faulty'[u]
                                \/ carried'[u] # <<>> /\ Request(argv[u]) = <<s>> \o settings[s]
            BY <1>1, <4>1 DEF AskedFor
      <4>3. PICK u \in Run : faulty[u] \/ (carried[u] # <<>>
                                           /\ Request(argv[u]) = <<s>> \o settings[s])
            BY <4>2 DEF NInv, AskedFor
      <4>4. faulty'[u] = faulty[u]
            BY <1>1
      <4>5. carried[u] # <<>> => carried'[u] # <<>>
        <5>1. CASE u = r   BY <1>4, <2>3, <5>1
        <5>2. CASE u # r   BY <2>3, <5>2 DEF Others
        <5> QED  BY <5>1, <5>2
      <4>6. CASE faulty[u]
            BY <4>4, <4>6
      <4>7. CASE carried[u] # <<>> /\ Request(argv[u]) = <<s>> \o settings[s]
            BY <4>5, <4>7
      <4> QED  BY <4>3, <4>6, <4>7
    <3> QED  BY <3>1, <3>2
  <2>5. \A u \in Run : OnItsWay(u)' /\ Served(u)'
        BY <2>3, OthersKept
  <2> QED  BY <2>3, <2>4, <2>5 DEF NInv
<1>6. CASE UNCHANGED settings /\ \E a : reply' = [reply EXCEPT ![r] = a]
  <2>1. PICK a : reply' = [reply EXCEPT ![r] = a]
        BY <1>6
  <2>2. /\ DOMAIN settings' = Setting /\ DOMAIN reply' = Run
        /\ \A u \in Run : u # r => reply'[u] = reply[u]
        BY <1>3, <1>6, <2>1 DEF Texts
  <2>3. Others(r) /\ OnItsWay(r)' /\ Served(r)' /\ Texts' /\ carried'[r] = did
        BY <1>1, <1>2, <1>4, <2>2, CommandStep
  <2> QED  BY <1>1, <1>4, <1>6, <2>3, RunStep
<1>7. \/ Name(r) \in Setting /\ Set(r)
      \/ UNCHANGED settings /\ \E a : reply' = [reply EXCEPT ![r] = a]
      BY DEF RunCommand
<1> QED  BY <1>5, <1>6, <1>7

LEMMA StopStep ==
    ASSUME NInv, NEW r \in Run, ndsctl_stop(r)
    PROVE  NInv'
<1>1. /\ handler[r] = "run" /\ Name(r) = "stop"
      /\ carried' = [carried EXCEPT ![r] = <<"stop">>]
      /\ UNCHANGED <<argv, client, unsent, pipe, taken, reply, settings, faulty>>
      BY DEF ndsctl_stop, clientVars
<1>2. PICK h \in {"close", "lost"} : handler' = [handler EXCEPT ![r] = h]
      BY DEF ndsctl_stop
<1>3. Texts
      BY DEF NInv
<1>4. faulty[r] \/ <<"stop">> = Request(argv[r])
  <2>1. "stop" \notin Action
        BY DEF Action, Setting
  <2> QED  BY <1>1, <2>1, RunsAsAsked
<1>5. <<"stop">> # <<>>
      OBVIOUS
<1>6. Others(r) /\ OnItsWay(r)' /\ Served(r)' /\ Texts' /\ carried'[r] = <<"stop">>
      BY <1>1, <1>2, <1>3, <1>4, <1>5, CommandStep DEF Texts
<1> QED  BY <1>1, <1>5, <1>6, RunStep
\* What a step leaves alone that touches no run.
LEMMA NoRunStep ==
    ASSUME NInv, UNCHANGED <<argv, client, unsent, pipe, handler, taken, reply, carried,
                             settings, faulty>>
    PROVE  NInv'
<1>1. Texts'
      BY DEF NInv, Texts
<1>2. \A r \in Run : OnItsWay(r)'
      BY DEF NInv, OnItsWay
<1>3. \A r \in Run : Served(r)'
      BY DEF NInv, Served
<1>4. \A s \in Setting : AskedFor(s)'
      BY DEF NInv, AskedFor
<1> QED  BY <1>1, <1>2, <1>3, <1>4 DEF NInv

LEMMA NextNInv ==
    ASSUME NInv, [Next]_vars
    PROVE  NInv'
<1>1. CASE Exit
      BY <1>1, NoRunStep DEF Exit, clientVars
<1>2. CASE UNCHANGED vars
      BY <1>2, NoRunStep DEF vars
<1>3. ASSUME NEW r \in Run, Ndsctl(r)
      PROVE  NInv'
      BY <1>3, ParseStep, ConnectStep, SendStep, ReplyStep DEF Ndsctl
<1>4. ASSUME NEW r \in Run, Kill(r)
      PROVE  NInv'
  <2>1. /\ client' = [client EXCEPT ![r] = "killed"]
        /\ UNCHANGED <<argv, unsent, pipe, handler, taken, reply, carried, settings, faulty>>
        BY <1>4 DEF Kill, serverVars
  <2> QED  BY <2>1, ClientMoves
<1>5. ASSUME NEW r \in Run, Accept(r)
      PROVE  NInv'
  <2>1. /\ handler[r] # "none" /\ handler' = [handler EXCEPT ![r] = "read"]
        /\ "read" \notin {"none", "run"}
        /\ UNCHANGED <<argv, client, unsent, pipe, taken, reply, carried, settings, faulty>>
        BY <1>5 DEF Accept, serverVars, clientVars
  <2> QED  BY <2>1, HandlerMoves, Zenon
<1>6. ASSUME NEW r \in Run, Spin(r)
      PROVE  NInv'
  <2>1. /\ handler[r] # "none" /\ handler' = [handler EXCEPT ![r] = "spin"]
        /\ "spin" \notin {"none", "run"}
        /\ UNCHANGED <<argv, client, unsent, pipe, taken, reply, carried, settings, faulty>>
        BY <1>6 DEF Spin, Reading, serverVars, clientVars
  <2> QED  BY <2>1, HandlerMoves, Zenon
<1>7. ASSUME NEW r \in Run, Close(r)
      PROVE  NInv'
  <2>1. /\ handler[r] # "none" /\ handler' = [handler EXCEPT ![r] = "closed"]
        /\ "closed" \notin {"none", "run"}
        /\ UNCHANGED <<argv, client, unsent, pipe, taken, reply, carried, settings, faulty>>
        BY <1>7 DEF Close, serverVars, clientVars
  <2> QED  BY <2>1, HandlerMoves, Zenon
<1>8. ASSUME NEW r \in Run, AcceptFails(r)
      PROVE  NInv'
      BY <1>8, NoRunStep DEF AcceptFails, clientVars
<1>9. ASSUME NEW r \in Run, Handler(r)
      PROVE  NInv'
      BY <1>5, <1>6, <1>7, <1>9, ReadStep, RunCommandStep, StopStep DEF Handler
<1> QED  BY <1>1, <1>2, <1>3, <1>4, <1>8, <1>9, ReadFailsStep DEF Next

----------------------------------------------------------------------------
(* The theorems. *)

\* The inductive invariant holds: the parts of a line are never lost, repeated, reordered
\* or mixed with another run's.
THEOREM NdsctlInvariance == Spec => []NInv
<1>1. Init => NInv  BY InitNInv
<1>2. NInv /\ [Next]_vars => NInv'  BY NextNInv
<1> QED  BY <1>1, <1>2, PTL DEF Spec

\* thread_ndsctl_handler() carries out the command that was asked for and no other,
\* ndsctl reports success only for it, and a setting in force was asked for as a whole:
\* for any number of runs, of any lengths of their parameters.
THEOREM CommandsWhole == Spec => []CommandWhole
<1>1. ASSUME NInv PROVE CommandWhole
  <2>1. \A r \in Run : Served(r)
        BY <1>1 DEF NInv
  <2>2. \A s \in Setting : AskedFor(s)
        BY <1>1 DEF NInv
  <2> QED  BY <2>1, <2>2 DEF Served, AskedFor, CommandWhole
<1> QED  BY <1>1, NdsctlInvariance, PTL
=============================================================================
