---------------------------- MODULE HttpdProofs ----------------------------
(***************************************************************************)
(* Proofs about the embedded web server, for any number of threads: the    *)
(* count of the request threads is exact, and no thread takes another's    *)
(* directory, although all of them share the pointer of strtok().          *)
(***************************************************************************)
EXTENDS Httpd, FiniteSetTheorems, SequenceTheorems, WellFoundedInduction, TLAPS

----------------------------------------------------------------------------
(* Sequences, and the two loops of HttpRequest.  *)

\* A set of numbers from 0 that is closed under successor up to n has all of them.
LEMMA UpTo ==
    ASSUME NEW n \in Nat, NEW P \in SUBSET (0 .. n), 0 \in P,
           \A i \in 0 .. n - 1 : i \in P => i + 1 \in P
    PROVE  P = 0 .. n
<1> SUFFICES ASSUME (0 .. n) \ P # {} PROVE FALSE
    OBVIOUS
<1>1. (0 .. n) \ P \in SUBSET Nat
      OBVIOUS
<1>2. PICK x \in (0 .. n) \ P : \A y \in (0 .. n) \ P : ~ (<<y, x>> \in OpToRel(<, Nat))
      BY <1>1, WFMin, NatLessThanWellFounded
<1>3. \A y \in (0 .. n) \ P : ~ (y < x)
      BY <1>1, <1>2 DEF OpToRel
<1>4. x \in 0 .. n /\ x \notin P
      OBVIOUS
<1>5. x - 1 \in 0 .. n - 1 /\ x - 1 \in 0 .. n /\ x - 1 < x /\ (x - 1) + 1 = x
      BY <1>4
<1>6. x - 1 \in P
      BY <1>3, <1>5
<1> QED  BY <1>4, <1>5, <1>6

LEMMA OneName ==
    ASSUME NEW S, NEW x \in S
    PROVE  <<x>> \in Seq(S) /\ Len(<<x>>) = 1 /\ <<x>>[1] = x
OBVIOUS

\* The loop of _httpd_sanitiseUrl(), up to the n-th name after the first one.
Cleans(f, first, names, n) ==
    f = [i \in 0 .. n |->
            IF i = 0 THEN [out |-> <<first>>, last |-> 0] ELSE Part(f[i - 1], names[i])]

\* There is such a function, and it is the one that Clean() takes its value from.
LEMMA CleansExist ==
    ASSUME NEW first, NEW names, Len(names) \in Nat
    PROVE  \E f : Cleans(f, first, names, Len(names)) /\ Clean(first, names) = f[Len(names)].out
<1> DEFINE P == {n \in 0 .. Len(names) : \E f : Cleans(f, first, names, n)}
           base == [out |-> <<first>>, last |-> 0]
<1>1. 0 \in P
  <2>1. Cleans([i \in 0 .. 0 |-> base], first, names, 0)
        BY DEF Cleans
  <2>2. \E f : Cleans(f, first, names, 0)
        BY <2>1, Zenon
  <2> QED  BY <2>2
<1>2. ASSUME NEW i \in 0 .. Len(names) - 1, i \in P PROVE i + 1 \in P
  <2>0. i \in Nat /\ i + 1 \in 0 .. Len(names)
        OBVIOUS
  <2>1. PICK f : Cleans(f, first, names, i)
        BY <1>2
  <2> DEFINE g == [j \in 0 .. i + 1 |-> IF j = i + 1 THEN Part(f[i], names[j]) ELSE f[j]]
             h == [j \in 0 .. i + 1 |-> IF j = 0 THEN base ELSE Part(g[j - 1], names[j])]
  <2>2. \A j \in 0 .. i : g[j] = f[j]
        BY <2>0
  <2>3. \A j \in 0 .. i : f[j] = IF j = 0 THEN base ELSE Part(f[j - 1], names[j])
        BY <2>1 DEF Cleans
  <2>4. \A j \in 0 .. i + 1 : g[j] = h[j]
    <3> TAKE j \in 0 .. i + 1
    <3>1. CASE j = i + 1
      <4>1. j - 1 = i /\ j - 1 \in 0 .. i /\ j # 0
            BY <2>0, <3>1
      <4>2. g[j] = Part(f[i], names[j]) /\ g[j - 1] = f[i]
            BY <2>2, <3>1, <4>1
      <4> QED  BY <4>1, <4>2
    <3>2. CASE j # i + 1
      <4>1. j \in 0 .. i /\ (j # 0 => j - 1 \in 0 .. i)
            BY <2>0, <3>2
      <4> QED  BY <2>2, <2>3, <3>2, <4>1
    <3> QED  BY <3>1, <3>2
  <2>5. g = h
        BY <2>4
  <2>6. Cleans(g, first, names, i + 1)
        BY <2>5 DEF Cleans
  <2>7. \E e : Cleans(e, first, names, i + 1)
    <3> HIDE DEF g
    <3> QED  BY <2>6, Zenon
  <2> QED  BY <2>0, <2>7
<1>3. P = 0 .. Len(names)
  <2> HIDE DEF P
  <2>1. P \in SUBSET (0 .. Len(names))
        BY DEF P
  <2> QED  BY <1>1, <1>2, <2>1, UpTo
<1>4. \E f : Cleans(f, first, names, Len(names))
  <2>1. Len(names) \in P
        BY <1>3
  <2> QED  BY <2>1, Zenon
<1> DEFINE chosen == CHOOSE e : Cleans(e, first, names, Len(names))
<1>5. Cleans(chosen, first, names, Len(names))
      BY <1>4, Zenon
<1>6. Clean(first, names) = chosen[Len(names)].out
      BY DEF Clean, Cleans
<1> HIDE DEF chosen
<1> QED  BY <1>5, <1>6, Zenon


\* A directory name that is not empty, "." or "..".
PlainName == STRING \ {"", ".", ".."}
Text == STRING \cup {""}

\* Between two slashes: what is copied after the first one is plain, and "/../" can go back.
\* The first name is the one that the text began with, or empty.
CleanSoFar(first, r) ==
    /\ r.out \in Seq(Text) /\ r.last \in 0 .. Len(r.out)
    /\ Len(r.out) \in Nat \ {0} /\ r.out[1] \in {first, ""}
    /\ \A i \in 2 .. Len(r.out) : r.out[i] \in PlainName

LEMMA PartStaysClean ==
    ASSUME NEW first, NEW r, CleanSoFar(first, r), DOMAIN r = {"out", "last"},
           NEW name \in STRING
    PROVE  CleanSoFar(first, Part(r, name)) /\ DOMAIN Part(r, name) = {"out", "last"}
<1>0. r.out \in Seq(Text) /\ r.last \in 0 .. Len(r.out) /\ Len(r.out) \in Nat \ {0}
      BY DEF CleanSoFar
<1>1. CASE name \in {"", "."}
      BY <1>1 DEF Part
<1>2. CASE name = ".." /\ r.last = 0
  <2>1. Part(r, name) = [r EXCEPT !.out = <<"">>]
        BY <1>2 DEF Part, Back
  <2>2. <<"">> \in Seq(Text) /\ Len(<<"">>) = 1 /\ <<"">>[1] = ""
    <3>1. "" \in Text
          BY DEF Text
    <3> QED  BY <3>1, OneName, Zenon
  <2>3. Part(r, name).out = <<"">> /\ Part(r, name).last = 0 /\ DOMAIN Part(r, name) = {"out", "last"}
        BY <1>2, <2>1
  <2> DEFINE o == Part(r, name).out
  <2>4. o \in Seq(Text) /\ Len(o) = 1 /\ o[1] = ""
        BY <2>2, <2>3, Zenon
  <2> HIDE DEF o
  <2>5. /\ Len(o) \in Nat \ {0} /\ 0 \in 0 .. Len(o)
        /\ \A i \in 2 .. Len(o) : o[i] \in PlainName
    <3>1. 1 \in Nat \ {0} /\ 0 \in 0 .. 1 /\ \A i \in 2 .. 1 : FALSE
          OBVIOUS
    <3> QED  BY <2>4, <3>1, Zenon
  <2>6. CleanSoFar(first, Part(r, name))
        BY <2>3, <2>4, <2>5 DEF CleanSoFar, o
  <2> QED  BY <2>3, <2>6
<1>3. CASE name = ".." /\ r.last # 0
  <2> DEFINE o == SubSeq(r.out, 1, r.last)
  <2>1. Part(r, name) = [r EXCEPT !.out = o]
        BY <1>3 DEF Part, Back
  <2>2. r.last \in 1 .. Len(r.out)
        BY <1>0, <1>3
  <2>3. o \in Seq(Text) /\ Len(o) = r.last /\ \A i \in 1 .. r.last : o[i] = r.out[i]
        BY <1>0, <2>2, SubSeqProperties
  <2> HIDE DEF o
  <2>4. Part(r, name).out = o /\ Part(r, name).last = r.last /\ DOMAIN Part(r, name) = {"out", "last"}
        BY <2>1
  <2>5. Len(o) \in Nat \ {0} /\ o[1] \in {first, ""} /\ r.last \in 0 .. Len(o)
    <3>1. r.last \in Nat \ {0} /\ 1 \in 1 .. r.last /\ r.last \in 0 .. r.last
          BY <1>0, <2>2
    <3>2. o[1] = r.out[1]
          BY <2>3, <3>1
    <3>3. o[1] \in {first, ""}
          BY <3>2 DEF CleanSoFar
    <3> QED  BY <2>3, <3>1, <3>3
  <2>6. ASSUME NEW i \in 2 .. Len(o)
        PROVE  o[i] \in PlainName
    <3>1. i \in 1 .. r.last /\ i \in 2 .. Len(r.out)
          BY <1>0, <2>2, <2>3
    <3> QED  BY <2>3, <3>1 DEF CleanSoFar
  <2> QED  BY <2>3, <2>4, <2>5, <2>6 DEF CleanSoFar
<1>4. CASE name \notin {"", ".", ".."}
  <2> DEFINE o == Append(r.out, name)
  <2>1. Part(r, name) = [out |-> o, last |-> Len(r.out)]
        BY <1>4 DEF Part, Copy
  <2>2. name \in PlainName /\ name \in Text
        BY <1>4 DEF PlainName, Text
  <2>3. /\ o \in Seq(Text) /\ Len(o) = Len(r.out) + 1 /\ o[Len(r.out) + 1] = name
        /\ \A i \in 1 .. Len(r.out) : o[i] = r.out[i]
        BY <1>0, <2>2, AppendProperties
  <2> HIDE DEF o
  <2>4. Len(o) \in Nat \ {0} /\ o[1] \in {first, ""} /\ Len(r.out) \in 0 .. Len(o)
    <3>1. \A n \in Nat \ {0} : n + 1 \in Nat \ {0} /\ 1 \in 1 .. n /\ n \in 0 .. n + 1
          OBVIOUS
    <3>2. o[1] = r.out[1]
          BY <1>0, <2>3, <3>1
    <3>3. o[1] \in {first, ""}
          BY <3>2 DEF CleanSoFar
    <3> QED  BY <1>0, <2>3, <3>1, <3>3
  <2>5. ASSUME NEW i \in 2 .. Len(o)
        PROVE  o[i] \in PlainName
    <3>1. CASE i = Len(r.out) + 1
          BY <2>2, <2>3, <3>1
    <3>2. CASE i # Len(r.out) + 1
      <4>1. i \in 2 .. Len(r.out) /\ i \in 1 .. Len(r.out)
            BY <1>0, <2>3, <3>2
      <4> QED  BY <2>3, <4>1 DEF CleanSoFar
    <3> QED  BY <3>1, <3>2
  <2>6. /\ Part(r, name).out = o /\ Part(r, name).last = Len(r.out)
        /\ DOMAIN Part(r, name) = {"out", "last"}
        BY <2>1
  <2> QED  BY <2>3, <2>4, <2>5, <2>6 DEF CleanSoFar
<1> QED  BY <1>1, <1>2, <1>3, <1>4

\* What _httpd_sanitiseUrl() leaves of the directories.
LEMMA CleanIsPlain ==
    ASSUME NEW first \in STRING, NEW names \in Seq(STRING)
    PROVE  LET c == Clean(first, names) IN
           /\ c \in Seq(Text) /\ Len(c) \in Nat \ {0} /\ c[1] \in {first, ""}
           /\ \A i \in 2 .. Len(c) : c[i] \in PlainName
<1>0. Len(names) \in Nat /\ \A i \in 1 .. Len(names) : names[i] \in STRING
      BY LenProperties, ElementOfSeq
<1>1. PICK f : Cleans(f, first, names, Len(names)) /\ Clean(first, names) = f[Len(names)].out
      BY <1>0, CleansExist
<1>2. \A i \in 0 .. Len(names) :
        f[i] = IF i = 0 THEN [out |-> <<first>>, last |-> 0] ELSE Part(f[i - 1], names[i])
      BY <1>1 DEF Cleans
<1> DEFINE Good(r) == CleanSoFar(first, r) /\ DOMAIN r = {"out", "last"}
           P == {i \in 0 .. Len(names) : Good(f[i])}
<1>3. 0 \in P
  <2>1. f[0] = [out |-> <<first>>, last |-> 0] /\ 0 \in 0 .. Len(names)
        BY <1>0, <1>2
  <2>2. <<first>> \in Seq(Text) /\ Len(<<first>>) = 1 /\ <<first>>[1] = first
    <3>1. first \in Text
          BY DEF Text
    <3> QED  BY <3>1, OneName, Zenon
  <2>3. Good([out |-> <<first>>, last |-> 0])
        BY <2>2 DEF CleanSoFar
  <2> QED  BY <2>1, <2>3
<1>4. ASSUME NEW i \in 0 .. Len(names) - 1, i \in P PROVE i + 1 \in P
  <2>1. i + 1 \in 0 .. Len(names) /\ i + 1 \in 1 .. Len(names) /\ i + 1 # 0 /\ (i + 1) - 1 = i
        BY <1>0
  <2>2. f[i + 1] = Part(f[i], names[i + 1]) /\ names[i + 1] \in STRING
        BY <1>0, <1>2, <2>1
  <2>3. Good(f[i])
        BY <1>4
  <2>4. CleanSoFar(first, f[i]) /\ DOMAIN f[i] = {"out", "last"}
        BY <2>3
  <2>5. CleanSoFar(first, Part(f[i], names[i + 1])) /\ DOMAIN Part(f[i], names[i + 1]) = {"out", "last"}
    <3>1. names[i + 1] \in STRING
          BY <2>2
    <3> QED  BY <2>4, <3>1, PartStaysClean, Zenon
  <2>6. Good(f[i + 1])
        BY <2>2, <2>5
  <2> QED  BY <2>1, <2>6
<1>5. P = 0 .. Len(names)
  <2> HIDE DEF P
  <2>1. P \in SUBSET (0 .. Len(names))
        BY DEF P
  <2> QED  BY <1>0, <1>3, <1>4, <2>1, UpTo
<1>6. Len(names) \in P
      BY <1>0, <1>5
<1> QED  BY <1>1, <1>6 DEF CleanSoFar

\* The directories that are looked up for a path that was cleaned.
LEMMA WantedPlain ==
    ASSUME NEW path \in Seq(STRING), Len(path) # 1, _httpd_sanitiseUrl(path) # NoPath
    PROVE  LET p == _httpd_sanitiseUrl(path) IN
           \A i \in 1 .. Len(Lookups(p)) :
              Lookups(p)[i] \in {"", ".", ".."} =>
                  i = 1 /\ Lookups(p)[i] # "" /\ Lookups(p)[i] = Head(p)
<1>1. path # <<>>
      BY DEF _httpd_sanitiseUrl, NoPath
<1>2. Len(path) \in Nat /\ Len(path) > 1
  <2>1. Len(path) \in Nat /\ Len(path) # 0
        BY <1>1, LenProperties, EmptySeq
  <2>2. \A n \in Nat : n # 0 /\ n # 1 => n > 1
        OBVIOUS
  <2> QED  BY <2>1, <2>2
<1>3. Directories(path) \in Seq(STRING) /\ Len(Directories(path)) = Len(path) - 1
      BY <1>2, SubSeqProperties DEF Directories, Front
<1>4. Tail(Directories(path)) \in Seq(STRING) /\ Head(path) \in STRING
      BY <1>1, <1>2, <1>3, EmptySeq, HeadTailProperties
<1> DEFINE c == Clean(Head(path), Tail(Directories(path)))
           e == Entry(path)
<1>5. e \in Text
  <2>1. Len(path) \in 1 .. Len(path)
        BY <1>2
  <2>2. e \in STRING
        BY <2>1, ElementOfSeq DEF Entry, Last
  <2> QED  BY <2>2 DEF Text
<1>6. _httpd_sanitiseUrl(path) = Append(c, e)
      BY <1>1 DEF _httpd_sanitiseUrl, NoPath
<1>7. /\ c \in Seq(Text) /\ Len(c) \in Nat \ {0} /\ \A i \in 2 .. Len(c) : c[i] \in PlainName
      BY <1>4, CleanIsPlain
<1> HIDE DEF c, e
<1>8. Len(c) \in Nat /\ Len(c) >= 1 /\ c # <<>>
      BY <1>7, EmptySeq
<1>9. Directories(Append(c, e)) = c
  <2>1. Append(c, e) \in Seq(Text) /\ Len(Append(c, e)) = Len(c) + 1
        BY <1>5, <1>7, <1>8, AppendProperties
  <2>2. Front(Append(c, e)) = SubSeq(Append(c, e), 1, Len(c))
        BY <1>8, <2>1 DEF Front
  <2>3. SubSeq(Append(c, e), 1, Len(c)) = c
        BY <1>5, <1>7, <1>8
  <2> QED  BY <2>2, <2>3 DEF Directories
<1>10. Head(Append(c, e)) = c[1] /\ Head(c) = c[1]
      BY <1>5, <1>7, <1>8, AppendProperties
<1> DEFINE p == Append(c, e)
<1>11. CASE c[1] = ""
  <2>1. Lookups(p) = Tail(c)
        BY <1>8, <1>9, <1>10, <1>11 DEF Lookups
  <2>2. Len(Tail(c)) = Len(c) - 1 /\ \A i \in 1 .. Len(c) - 1 : Tail(c)[i] = c[i + 1]
        BY <1>7, <1>8, HeadTailProperties
  <2>3. \A i \in 1 .. Len(Tail(c)) : Tail(c)[i] \in PlainName
        BY <1>7, <1>8, <2>2
  <2> QED  BY <1>6, <2>1, <2>3 DEF PlainName
<1>12. CASE c[1] # ""
  <2>1. Lookups(p) = c
        BY <1>9, <1>10, <1>12 DEF Lookups
  <2>2. \A i \in 1 .. Len(c) : i = 1 \/ c[i] \in PlainName
        BY <1>7, <1>8
  <2> QED  BY <1>6, <1>10, <1>12, <2>1, <2>2 DEF PlainName
<1> QED  BY <1>11, <1>12

----------------------------------------------------------------------------
(* The variables of a query.  *)

\* The loop of _httpd_storeData(), up to the n-th parameter.
Stores(f, query, n) ==
    f = [i \in 0 .. n |->
            IF i = 0 THEN [buffer |-> <<>>, variables |-> <<>>]
            ELSE Store(f[i - 1], query[i], i = Len(query))]

\* There is such a function, and it is the one that _httpd_storeData() takes.
LEMMA StoresExist ==
    ASSUME NEW query, Len(query) \in Nat
    PROVE  \E f : Stores(f, query, Len(query)) /\ _httpd_storeData(query) = f[Len(query)].variables
<1> DEFINE P == {n \in 0 .. Len(query) : \E f : Stores(f, query, n)}
           base == [buffer |-> <<>>, variables |-> <<>>]
           Next(g, j) == Store(g, query[j], j = Len(query))
<1>1. 0 \in P
  <2>1. Stores([i \in 0 .. 0 |-> base], query, 0)
        BY DEF Stores
  <2>2. \E f : Stores(f, query, 0)
        BY <2>1, Zenon
  <2> QED  BY <2>2
<1>2. ASSUME NEW i \in 0 .. Len(query) - 1, i \in P PROVE i + 1 \in P
  <2>0. i \in Nat /\ i + 1 \in 0 .. Len(query)
        OBVIOUS
  <2>1. PICK f : Stores(f, query, i)
        BY <1>2
  <2> DEFINE g == [j \in 0 .. i + 1 |-> IF j = i + 1 THEN Next(f[i], j) ELSE f[j]]
             h == [j \in 0 .. i + 1 |-> IF j = 0 THEN base ELSE Next(g[j - 1], j)]
  <2>2. \A j \in 0 .. i : g[j] = f[j]
        BY <2>0
  <2>3. \A j \in 0 .. i : f[j] = IF j = 0 THEN base ELSE Next(f[j - 1], j)
        BY <2>1 DEF Stores
  <2>4. \A j \in 0 .. i + 1 : g[j] = h[j]
    <3> TAKE j \in 0 .. i + 1
    <3>1. CASE j = i + 1
      <4>1. j - 1 = i /\ j - 1 \in 0 .. i /\ j # 0
            BY <2>0, <3>1
      <4>2. g[j] = Next(f[i], j) /\ g[j - 1] = f[i]
            BY <2>2, <3>1, <4>1
      <4> QED  BY <4>1, <4>2
    <3>2. CASE j # i + 1
      <4>1. j \in 0 .. i /\ (j # 0 => j - 1 \in 0 .. i)
            BY <2>0, <3>2
      <4> QED  BY <2>2, <2>3, <3>2, <4>1
    <3> QED  BY <3>1, <3>2
  <2>5. g = h
        BY <2>4
  <2>6. Stores(g, query, i + 1)
        BY <2>5 DEF Stores
  <2>7. \E e : Stores(e, query, i + 1)
    <3> HIDE DEF g
    <3> QED  BY <2>6, Zenon
  <2> QED  BY <2>0, <2>7
<1>3. P = 0 .. Len(query)
  <2> HIDE DEF P
  <2>1. P \in SUBSET (0 .. Len(query))
        BY DEF P
  <2> QED  BY <1>1, <1>2, <2>1, UpTo
<1>4. \E f : Stores(f, query, Len(query))
  <2>1. Len(query) \in P
        BY <1>3
  <2> QED  BY <2>1, Zenon
<1> DEFINE chosen == CHOOSE e : Stores(e, query, Len(query))
<1>5. Stores(chosen, query, Len(query))
      BY <1>4, Zenon
<1>6. _httpd_storeData(query) = chosen[Len(query)].variables
      BY DEF _httpd_storeData, Stores
<1> HIDE DEF chosen
<1> QED  BY <1>5, <1>6, Zenon

\* What the buffer may hold: strings, of which the provers do not know that a literal is
\* one, and the terminating 0.
Char == STRING \cup {"0"}

\* A name with a "=" after it is read back from the buffer as it was, whatever an
\* earlier parameter left there.
LEMMA NameWritten ==
    ASSUME NEW buffer \in Seq(Char), NEW name \in Seq(STRING \ {"0"})
    PROVE  LET after == Write(buffer, Append(name, "0"))
           IN  after \in Seq(Char) /\ Name(after) = name
<1> DEFINE chars == Append(name, "0")
           rest == SubSeq(buffer, Len(chars) + 1, Len(buffer))
           after == chars \o rest
           m == Len(name)
<1>1. m \in Nat /\ \A i \in 1 .. m : name[i] # "0"
      BY LenProperties, ElementOfSeq
<1>2. name \in Seq(Char) /\ "0" \in Char
  <2>1. STRING \ {"0"} \subseteq Char
        BY DEF Char
  <2>2. Seq(STRING \ {"0"}) \subseteq Seq(Char)
        BY <2>1, SeqMonotonic
  <2>3. name \in Seq(Char)
        BY <2>2
  <2> QED  BY <2>3 DEF Char
<1>3. /\ chars \in Seq(Char) /\ Len(chars) = m + 1
      /\ \A i \in 1 .. m : chars[i] = name[i]
      /\ chars[m + 1] = "0"
      BY <1>1, <1>2, AppendProperties
<1>4. rest \in Seq(Char) /\ Len(rest) \in Nat
  <2>1. Len(buffer) \in Nat
        BY LenProperties
  <2>2. \A i \in m + 2 .. Len(buffer) : buffer[i] \in Char
    <3>1. \A i \in m + 2 .. Len(buffer) : i \in 1 .. Len(buffer)
          BY <1>1, <2>1
    <3> QED  BY <3>1, ElementOfSeq
  <2>3. Len(chars) + 1 = m + 2
        BY <1>1, <1>3
  <2>4. rest = SubSeq(buffer, m + 2, Len(buffer))
        BY <2>3
  <2> HIDE DEF chars, rest
  <2>5. rest \in Seq(Char)
        BY <1>1, <2>1, <2>2, <2>4
  <2> QED  BY <2>5, LenProperties
<1> HIDE DEF chars, rest
<1>5. /\ after \in Seq(Char) /\ Len(after) = m + 1 + Len(rest)
      /\ \A i \in 1 .. m + 1 : after[i] = chars[i]
  <2>1. after \in Seq(Char) /\ Len(after) = Len(chars) + Len(rest)
        BY <1>3, <1>4, ConcatProperties
  <2>2. \A i \in 1 .. Len(chars) : after[i] = chars[i]
        BY <1>3, <1>4
  <2> QED  BY <1>1, <1>3, <1>4, <2>1, <2>2
<1> HIDE DEF after
<1>6. m + 1 \in 1 .. Len(after) /\ after[m + 1] = "0"
      BY <1>1, <1>3, <1>4, <1>5
<1>7. \A i \in 1 .. m : after[i] = name[i] /\ after[i] # "0"
      BY <1>1, <1>3, <1>5
<1> DEFINE Ends == {i \in 1 .. Len(after) : after[i] = "0"}
<1>8. m + 1 \in Ends /\ \A j \in Ends : m + 1 <= j
      BY <1>1, <1>5, <1>6, <1>7
<1>9. \A i \in Ends : (\A j \in Ends : i <= j) => i = m + 1
      BY <1>1, <1>8
<1>10. (CHOOSE i \in Ends : \A j \in Ends : i <= j) = m + 1
  <2> HIDE DEF Ends
  <2> QED  BY <1>8, <1>9
<1>11. Name(after) = SubSeq(after, 1, m)
  <2>1. (m + 1) - 1 = m
        BY <1>1
  <2> QED  BY <1>8, <1>10, <2>1 DEF Name
<1>12. SubSeq(after, 1, m) = name
      BY <1>1, <1>5, <1>7
<1>13. Write(buffer, Append(name, "0")) = after
      BY DEF Write, after, rest, chars
<1> QED  BY <1>5, <1>11, <1>12, <1>13

\* A list of variables: each has a value.
Variable == [name : Seq(STRING), values : Seq(STRING)]
AreVariables(variables) ==
    variables \in Seq(Variable) /\ \A j \in 1 .. Len(variables) : variables[j].values # <<>>

\* A value that is added never becomes the first one of a variable that is there.
LEMMA VariableAdded ==
    ASSUME NEW variables, AreVariables(variables), NEW name \in Seq(STRING), NEW value \in STRING
    PROVE  LET more == httpdAddVariable(variables, name, value) IN
           /\ AreVariables(more)
           /\ \A j \in 1 .. Len(variables) :
                 /\ j \in 1 .. Len(more) /\ more[j].name = variables[j].name
                 /\ Head(more[j].values) = Head(variables[j].values)
           /\ \/ /\ Len(more) = Len(variables)
                 /\ \E j \in 1 .. Len(variables) : variables[j].name = name
              \/ /\ Len(more) = Len(variables) + 1
                 /\ \A j \in 1 .. Len(variables) : variables[j].name # name
                 /\ more[Len(more)].name = name /\ Head(more[Len(more)].values) = value
<1> DEFINE more == httpdAddVariable(variables, name, value)
           n == Len(variables)
<1>1. /\ n \in Nat /\ variables \in Seq(Variable)
      /\ \A j \in 1 .. n : variables[j] \in Variable /\ variables[j].values # <<>>
      BY LenProperties, ElementOfSeq DEF AreVariables
<1>2. CASE \E j \in 1 .. n : variables[j].name = name
  <2> DEFINE Changed(v) == IF v.name = name THEN [v EXCEPT !.values = Append(@, value)] ELSE v
  <2>1. more = [j \in 1 .. n |-> Changed(variables[j])]
        BY <1>2 DEF httpdAddVariable
  <2>2. ASSUME NEW v \in Variable, v.values # <<>>
        PROVE  /\ Changed(v) \in Variable /\ Changed(v).values # <<>>
               /\ Changed(v).name = v.name /\ Head(Changed(v).values) = Head(v.values)
    <3>1. CASE v.name # name
          BY <2>2, <3>1
    <3>2. CASE v.name = name
      <4> DEFINE w == [v EXCEPT !.values = Append(@, value)]
      <4>1. v.values \in Seq(STRING) /\ v.name \in Seq(STRING)
            BY <2>2 DEF Variable
      <4>2. /\ Append(v.values, value) \in Seq(STRING) /\ Append(v.values, value) # <<>>
            /\ Head(Append(v.values, value)) = Head(v.values)
            BY <2>2, <4>1, HeadTailAppend, AppendProperties
      <4>3. w.name = v.name /\ w.values = Append(v.values, value)
            BY <2>2 DEF Variable
      <4>4. w \in Variable
        <5> DEFINE a == Append(v.values, value)
        <5>1. a \in Seq(STRING) /\ w = [v EXCEPT !.values = a]
              BY <4>2
        <5> HIDE DEF a, w
        <5> QED  BY <2>2, <5>1 DEF Variable
      <4> QED  BY <3>2, <4>2, <4>3, <4>4
    <3> QED  BY <3>1, <3>2
  <2> HIDE DEF Changed, more
  <2>3. \A j \in 1 .. n : /\ more[j] \in Variable /\ more[j].values # <<>>
                          /\ more[j].name = variables[j].name
                          /\ Head(more[j].values) = Head(variables[j].values)
        BY <1>1, <2>1, <2>2
  <2>4. more \in Seq(Variable) /\ Len(more) = n
    <3>1. more \in [1 .. n -> Variable]
          BY <2>1, <2>3
    <3> QED  BY <1>1, <3>1, IsASeq, LenProperties
  <2>5. AreVariables(more)
        BY <2>3, <2>4 DEF AreVariables
  <2> QED  BY <1>2, <2>3, <2>4, <2>5 DEF more
<1>3. CASE \A j \in 1 .. n : variables[j].name # name
  <2> DEFINE v == [name |-> name, values |-> <<value>>]
  <2>1. more = Append(variables, v)
        BY <1>3 DEF httpdAddVariable
  <2>2. <<value>> \in Seq(STRING) /\ <<value>> # <<>> /\ Head(<<value>>) = value
    <3> DEFINE S == STRING
    <3>1. value \in S
          OBVIOUS
    <3> HIDE DEF S
    <3>2. <<value>> \in Seq(S)
      <4>1. <<>> \in Seq(S)
            BY EmptySeq
      <4>2. Append(<<>>, value) \in Seq(S)
            BY <3>1, <4>1, AppendProperties
      <4>3. Append(<<>>, value) = <<value>>
            OBVIOUS
      <4> QED  BY <4>2, <4>3, Zenon
    <3>3. <<value>> # <<>> /\ Head(<<value>>) = value
          OBVIOUS
    <3> QED  BY <3>2, <3>3, Zenon DEF S
  <2>3. v \in Variable
        BY <2>2 DEF Variable
  <2>4. v.name = name /\ v.values # <<>> /\ Head(v.values) = value
        BY <2>2
  <2> HIDE DEF v, more
  <2>5. /\ more \in Seq(Variable) /\ Len(more) = n + 1 /\ more[n + 1] = v
        /\ \A j \in 1 .. n : more[j] = variables[j]
        BY <1>1, <2>1, <2>3, AppendProperties
  <2>6. \A j \in 1 .. n + 1 : j = n + 1 \/ j \in 1 .. n
        BY <1>1
  <2>7. AreVariables(more)
        BY <1>1, <2>4, <2>5, <2>6 DEF AreVariables
  <2>8. \A j \in 1 .. n : j \in 1 .. n + 1
        BY <1>1
  <2> QED  BY <1>3, <2>4, <2>5, <2>7, <2>8 DEF more
<1> QED  BY <1>2, <1>3

\* Position k of the query is the first with a value for the name.
Names(query, name, l) == query[l].name = name /\ query[l].values # <<>>
FirstWith(query, name, k) ==
    Names(query, name, k) /\ \A l \in 1 .. k - 1 : ~Names(query, name, l)

\* What is stored of the first n parameters: each name once, with the value that its
\* first parameter has.
Stored(variables, query, n) ==
    /\ AreVariables(variables)
    /\ \A j \in 1 .. Len(variables) : \E k \in 1 .. n :
          FirstWith(query, variables[j].name, k) /\ Head(variables[j].values) = Last(query[k].values)
    /\ \A l \in 1 .. n : query[l].values # <<>> =>
          \E j \in 1 .. Len(variables) : variables[j].name = query[l].name

\* One parameter with a "=" more.
LEMMA StoredStep ==
    ASSUME NEW query \in Seq(Parameter), NEW n \in 1 .. Len(query), query[n].values # <<>>,
           NEW variables, Stored(variables, query, n - 1)
    PROVE  Stored(httpdAddVariable(variables, query[n].name, Last(query[n].values)), query, n)
<1> DEFINE name == query[n].name
           value == Last(query[n].values)
           more == httpdAddVariable(variables, name, value)
<1>1. Len(query) \in Nat /\ query[n] \in Parameter
      BY LenProperties, ElementOfSeq
<1>2. name \in Seq(STRING)
  <2>1. name \in Seq(STRING \ {"0"})
        BY <1>1 DEF Parameter
  <2> HIDE DEF name
  <2> DEFINE T == STRING \ {"0"}
             S == STRING
  <2>2. T \subseteq S
        OBVIOUS
  <2> HIDE DEF T, S
  <2>3. Seq(T) \subseteq Seq(S)
        BY <2>2, SeqMonotonic
  <2> QED  BY <2>1, <2>3 DEF S, T
<1>3. value \in STRING
  <2>1. query[n].values \in Seq(STRING)
        BY <1>1 DEF Parameter
  <2>2. /\ Len(query[n].values) \in Nat \ {0}
        /\ \A i \in 1 .. Len(query[n].values) : query[n].values[i] \in STRING
        BY <2>1, LenProperties, ElementOfSeq, EmptySeq
  <2>3. Len(query[n].values) \in 1 .. Len(query[n].values)
        BY <2>2
  <2> QED  BY <2>2, <2>3 DEF Last
<1>4. /\ AreVariables(variables) /\ Len(variables) \in Nat
      /\ \A j \in 1 .. Len(variables) : \E k \in 1 .. n - 1 :
            FirstWith(query, variables[j].name, k) /\ Head(variables[j].values) = Last(query[k].values)
      /\ \A l \in 1 .. n - 1 : query[l].values # <<>> =>
            \E j \in 1 .. Len(variables) : variables[j].name = query[l].name
  <2>1. AreVariables(variables) => Len(variables) \in Nat
        BY LenProperties DEF AreVariables
  <2> QED  BY <2>1 DEF Stored
<1>5. /\ AreVariables(more)
      /\ \A j \in 1 .. Len(variables) :
            /\ j \in 1 .. Len(more) /\ more[j].name = variables[j].name
            /\ Head(more[j].values) = Head(variables[j].values)
      /\ \/ /\ Len(more) = Len(variables)
            /\ \E j \in 1 .. Len(variables) : variables[j].name = name
         \/ /\ Len(more) = Len(variables) + 1
            /\ \A j \in 1 .. Len(variables) : variables[j].name # name
            /\ more[Len(more)].name = name /\ Head(more[Len(more)].values) = value
  <2> HIDE DEF name, value
  <2> QED  BY <1>2, <1>3, <1>4, VariableAdded
<1>6. n \in Nat /\ n \in 1 .. n /\ (\A k \in 1 .. n - 1 : k \in 1 .. n) /\ \A k \in 1 .. n : k = n \/ k \in 1 .. n - 1
      BY <1>1
<1>7. Names(query, name, n)
      BY DEF Names
<1> HIDE DEF more
<1>8. ASSUME NEW j \in 1 .. Len(more)
      PROVE  \E k \in 1 .. n : FirstWith(query, more[j].name, k) /\ Head(more[j].values) = Last(query[k].values)
  <2>1. CASE j \in 1 .. Len(variables)
    <3>1. PICK k \in 1 .. n - 1 :
            FirstWith(query, variables[j].name, k) /\ Head(variables[j].values) = Last(query[k].values)
          BY <1>4, <2>1
    <3>2. more[j].name = variables[j].name /\ Head(more[j].values) = Head(variables[j].values)
          BY <1>5, <2>1
    <3> QED  BY <1>6, <3>1, <3>2
  <2>2. CASE j \notin 1 .. Len(variables)
    <3>1. Len(more) = Len(variables) + 1 /\ j = Len(more)
          BY <1>4, <1>5, <2>2
    <3>2. /\ \A i \in 1 .. Len(variables) : variables[i].name # name
          /\ more[j].name = name /\ Head(more[j].values) = value
          BY <1>4, <1>5, <3>1
    <3>3. \A l \in 1 .. n - 1 : ~Names(query, name, l)
          BY <1>4, <3>2 DEF Names
    <3>4. FirstWith(query, name, n)
          BY <1>7, <3>3 DEF FirstWith
    <3> QED  BY <1>6, <3>2, <3>4
  <2> QED  BY <2>1, <2>2
<1>9. ASSUME NEW l \in 1 .. n, query[l].values # <<>>
      PROVE  \E j \in 1 .. Len(more) : more[j].name = query[l].name
  <2>1. CASE l = n
    <3>1. CASE \E j \in 1 .. Len(variables) : variables[j].name = name
          BY <1>5, <2>1, <3>1
    <3>2. CASE \A j \in 1 .. Len(variables) : variables[j].name # name
      <4>1. Len(more) = Len(variables) + 1 /\ more[Len(more)].name = name
            BY <1>5, <3>2
      <4>2. Len(more) \in 1 .. Len(more)
            BY <1>4, <4>1
      <4> QED  BY <2>1, <4>1, <4>2
    <3> QED  BY <3>1, <3>2
  <2>2. CASE l \in 1 .. n - 1
    <3>1. PICK j \in 1 .. Len(variables) : variables[j].name = query[l].name
          BY <1>4, <1>9, <2>2
    <3> QED  BY <1>5, <3>1
  <2> QED  BY <1>6, <2>1, <2>2
<1>10. Stored(more, query, n)
      BY <1>5, <1>8, <1>9 DEF Stored
<1> QED  BY <1>10 DEF more

\* What is stored of a query in which only the last parameter may be without a "=".
LEMMA QueryStored ==
    ASSUME NEW query \in Seq(Parameter), WellFormed(query)
    PROVE  Stored(_httpd_storeData(query), query, Len(query))
<1>0. Len(query) \in Nat /\ \A i \in 1 .. Len(query) : query[i] \in Parameter
      BY LenProperties, ElementOfSeq
<1>1. PICK f : Stores(f, query, Len(query)) /\ _httpd_storeData(query) = f[Len(query)].variables
      BY <1>0, StoresExist
<1>2. \A i \in 0 .. Len(query) :
        f[i] = IF i = 0 THEN [buffer |-> <<>>, variables |-> <<>>]
               ELSE Store(f[i - 1], query[i], i = Len(query))
      BY <1>1 DEF Stores
<1> DEFINE Good(i) == Stored(f[i].variables, query, i) /\ (i < Len(query) => f[i].buffer \in Seq(Char))
           P == {i \in 0 .. Len(query) : Good(i)}
<1>3. 0 \in P
  <2>1. f[0] = [buffer |-> <<>>, variables |-> <<>>] /\ 0 \in 0 .. Len(query)
        BY <1>0, <1>2
  <2>2. f[0].buffer = <<>> /\ f[0].variables = <<>>
        BY <2>1
  <2>3. <<>> \in Seq(Variable) /\ <<>> \in Seq(Char) /\ Len(<<>>) = 0
        BY EmptySeq
  <2>4. Stored(<<>>, query, 0)
        BY <2>3 DEF Stored, AreVariables
  <2> QED  BY <2>1, <2>2, <2>3, <2>4
<1>4. ASSUME NEW i \in 0 .. Len(query) - 1, i \in P PROVE i + 1 \in P
  <2> DEFINE p == query[i + 1]
             last == (i + 1 = Len(query))
             after == Write(f[i].buffer, Append(p.name, "0"))
  <2>1. i + 1 \in 0 .. Len(query) /\ i + 1 \in 1 .. Len(query) /\ i + 1 # 0 /\ (i + 1) - 1 = i
        BY <1>0
  <2>2. f[i + 1] = Store(f[i], p, last)
        BY <1>2, <2>1
  <2>3. Stored(f[i].variables, query, i) /\ f[i].buffer \in Seq(Char)
        BY <1>0, <1>4
  <2>4. CASE p.values # <<>>
    <3>1. after \in Seq(Char) /\ Name(after) = p.name
      <4>1. p.name \in Seq(STRING \ {"0"})
            BY <1>0, <2>1 DEF Parameter
      <4> QED  BY <2>3, <4>1, NameWritten
    <3>2. /\ f[i + 1].buffer = after
          /\ f[i + 1].variables = httpdAddVariable(f[i].variables, p.name, Last(p.values))
          BY <2>2, <2>4, <3>1 DEF Store
    <3>3. Stored(f[i + 1].variables, query, i + 1)
          BY <2>1, <2>3, <2>4, <3>2, StoredStep
    <3> QED  BY <2>1, <3>1, <3>2, <3>3
  <2>5. CASE p.values = <<>>
    <3>1. i + 1 = Len(query)
          BY <1>0, <2>1, <2>5 DEF WellFormed
    <3>2. f[i + 1].variables = f[i].variables
          BY <2>2, <2>5, <3>1 DEF Store
    <3>3. \A k \in 1 .. i + 1 : k = i + 1 \/ k \in 1 .. i
          BY <2>1
    <3>4. \A k \in 1 .. i : k \in 1 .. i + 1
          BY <2>1
    <3>5. Stored(f[i].variables, query, i + 1)
          BY <2>3, <2>5, <3>3, <3>4 DEF Stored
    <3>6. ~(i + 1 < Len(query))
          BY <3>1
    <3> QED  BY <2>1, <3>2, <3>5, <3>6
  <2> QED  BY <2>4, <2>5
<1>5. P = 0 .. Len(query)
  <2> HIDE DEF P
  <2>1. P \in SUBSET (0 .. Len(query))
        BY DEF P
  <2> QED  BY <1>0, <1>3, <1>4, <2>1, UpTo
<1>6. Len(query) \in P
      BY <1>0, <1>5
<1> QED  BY <1>1, <1>6

\* The callbacks take the value of the first parameter of the name.
LEMMA TokenIsFirst ==
    ASSUME NEW query \in Seq(Parameter), WellFormed(query), NEW tok
    PROVE  decode_authtarget(_httpd_storeData(query), tok) = FirstNamed(query, tok)
<1> DEFINE variables == _httpd_storeData(query)
           found == httpdGetVariableByName(variables, tok)
           Is == {i \in 1 .. Len(query) : query[i].name = tok /\ query[i].values # <<>>}
           First(i) == i \in Is /\ \A j \in Is : i <= j
<1>1. Stored(variables, query, Len(query))
      BY QueryStored
<1>2. Len(query) \in Nat /\ Len(variables) \in Nat
      BY <1>1, LenProperties DEF Stored, AreVariables
<1>3. ToSet(variables) = {variables[j] : j \in 1 .. Len(variables)}
  <2>1. DOMAIN variables = 1 .. Len(variables)
        BY <1>1, LenProperties DEF Stored, AreVariables
  <2> QED  BY <2>1 DEF ToSet
<1> HIDE DEF variables
<1>4. ASSUME NEW v \in ToSet(variables), v.name = tok
      PROVE  \E k : First(k) /\ Head(v.values) = Last(query[k].values)
  <2>1. PICK j \in 1 .. Len(variables) : v = variables[j]
        BY <1>3
  <2>2. PICK k \in 1 .. Len(query) :
          FirstWith(query, tok, k) /\ Head(v.values) = Last(query[k].values)
        BY <1>1, <1>4, <2>1 DEF Stored
  <2>3. k \in Is
        BY <2>2 DEF FirstWith, Names
  <2>4. \A j_ \in Is : k <= j_
        BY <1>2, <2>2 DEF FirstWith, Names
  <2> QED  BY <2>2, <2>3, <2>4
<1>5. \A i, k : First(i) /\ First(k) => i = k
      BY <1>2
<1>6. CASE Is = {}
  <2>1. found = {}
        BY <1>4, <1>6 DEF httpdGetVariableByName
  <2> QED  BY <1>6, <2>1 DEF decode_authtarget, FirstNamed, variables
<1>7. CASE Is # {}
  <2>1. PICK l \in 1 .. Len(query) : query[l].name = tok /\ query[l].values # <<>>
        BY <1>7
  <2>2. PICK j \in 1 .. Len(variables) : variables[j].name = tok
        BY <1>1, <2>1 DEF Stored
  <2>3. variables[j] \in ToSet(variables)
        BY <1>3
  <2>4. found # {}
        BY <2>2, <2>3 DEF httpdGetVariableByName
  <2>5. PICK k : First(k)
        BY <1>4, <2>2, <2>3
  <2>6. \A x \in found : x = Last(query[k].values)
        BY <1>4, <1>5, <2>5 DEF httpdGetVariableByName
  <2>7. (CHOOSE x \in found : TRUE) = Last(query[k].values)
    <3> HIDE DEF found
    <3> QED  BY <2>4, <2>6
  <2>8. (CHOOSE i \in Is : \A j_ \in Is : i <= j_) = k
    <3>1. \A i : First(i) => i = k
          BY <1>5, <2>5
    <3> HIDE DEF Is
    <3> QED  BY <2>5, <3>1
  <2>9. FirstNamed(query, tok) = Last(query[k].values)
        BY <1>7, <2>8 DEF FirstNamed
  <2>10. decode_authtarget(variables, tok) = Last(query[k].values)
        BY <2>4, <2>7 DEF decode_authtarget
  <2> QED  BY <2>9, <2>10 DEF variables
<1> QED  BY <1>6, <1>7

----------------------------------------------------------------------------
(* The inductive invariant. *)

Fields == {"pc", "socket", "lines", "request", "variables", "dir", "handler", "token",
           "answer", "reads"}

\* The handler of a directory serves a path that starts with the directory.
Serves(h, wanted) ==
    /\ h = "auth" => Head(wanted) = AuthDir
    /\ h = "deny" => Head(wanted) = DenyDir
    /\ h = "file" => Head(wanted) \in {ImagesDir, PagesDir}
    /\ h = "index" => wanted = <<>>

\* What the record of a thread holds: the directory found is the first of its own
\* path, and only the search gives it a handler.
Own(w) ==
    LET wanted == Lookups(w.request.path) IN
    /\ DOMAIN w = Fields
    /\ w.pc \notin {"handle", "end"} => w.handler = NULL
    /\ w.pc \in {"next", "entry"} =>
         IF wanted = <<>> THEN w.dir = "" ELSE w.dir \in Dir /\ w.dir = Head(wanted)
    /\ Serves(w.handler, wanted)

\* The threads between Enter and Leave.
Inside == {t \in Thread : thread[t].pc \notin {"none", "new"}}

Counted ==
    /\ IsFiniteSet(Inside)
    /\ current_httpd_threads = Cardinality(Inside)
    /\ {accepted, created_httpd_threads} \subseteq Nat
    /\ Running => accepted = created_httpd_threads + (IF main = "accept" THEN 0 ELSE 1)

HInv ==
    /\ DOMAIN thread = Thread
    /\ \A t \in Thread : Own(thread[t])
    /\ Counted

----------------------------------------------------------------------------
(* Lemmas. *)

\* What a record is after some of its fields have got new values.
LEMMA WithFields ==
    ASSUME NEW w, NEW f, DOMAIN w = Fields
    PROVE  /\ DOMAIN With(w, f) = Fields
           /\ \A k \in Fields : With(w, f)[k] = IF k \in DOMAIN f THEN f[k] ELSE w[k]
BY DEF With

\* Without a handler nothing is served.
LEMMA NoHandler ==
    ASSUME NEW wanted
    PROVE  Serves(NULL, wanted) /\ Serves("404", wanted)
BY NullAssumption DEF Serves

\* The record of a thread that has not searched yet, or not at all.
LEMMA OwnFresh ==
    ASSUME NEW w, DOMAIN w = Fields, w.handler = NULL, w.pc \notin {"next", "entry"}
    PROVE  Own(w)
BY NoHandler DEF Own

\* The other threads' records stay as they are.
LEMMA BecomeOne ==
    ASSUME DOMAIN thread = Thread, NEW t \in Thread, NEW f, Become(t, f)
    PROVE  /\ DOMAIN thread' = Thread
           /\ thread'[t] = With(thread[t], f)
           /\ \A u \in Thread : u # t => thread'[u] = thread[u]
BY DEF Become

\* A thread that stays on its side of Enter and Leave does not change the count,
\* and the accept loop's numbers are not its business.
LEMMA CountStays ==
    ASSUME Counted, NEW t \in Thread,
           \A u \in Thread : u # t => thread'[u] = thread[u],
           (thread[t].pc \in {"none", "new"}) <=> (thread'[t].pc \in {"none", "new"}),
           UNCHANGED <<status, accepted, main, created_httpd_threads, current_httpd_threads>>
    PROVE  Counted'
<1>1. Inside' = Inside
      BY DEF Inside
<1> QED  BY <1>1 DEF Counted, Running

\* A thread's step with its record as Own wants it.
LEMMA ThreadStep ==
    ASSUME HInv, NEW t \in Thread, NEW f, Become(t, f),
           Own(With(thread[t], f)),
           (thread[t].pc \in {"none", "new"}) <=> (With(thread[t], f).pc \in {"none", "new"}),
           UNCHANGED <<status, accepted, main, created_httpd_threads, current_httpd_threads>>
    PROVE  HInv'
<1>1. /\ DOMAIN thread' = Thread
      /\ thread'[t] = With(thread[t], f)
      /\ \A u \in Thread : u # t => thread'[u] = thread[u]
      BY BecomeOne DEF HInv
<1>2. Counted'
      BY <1>1, CountStays DEF HInv
<1>3. \A u \in Thread : Own(thread[u])'
      BY <1>1 DEF HInv
<1> QED  BY <1>1, <1>2, <1>3 DEF HInv

----------------------------------------------------------------------------
(* The steps. *)

LEMMA InitHInv == HInit => HInv
<1> SUFFICES ASSUME HInit PROVE HInv
    OBVIOUS
<1>1. DOMAIN thread = Thread /\ \A t \in Thread : thread[t] = NoThread
      BY DEF HInit
<1>2. Own(NoThread)
  <2>1. DOMAIN NoThread = Fields /\ NoThread.handler = NULL /\ NoThread.pc = "none"
        BY DEF NoThread, Fields
  <2> QED  BY <2>1, OwnFresh
<1>3. Inside = {}
      BY <1>1 DEF Inside, NoThread
<1>4. Counted
      BY <1>3, FS_EmptySet DEF Counted, HInit, Running
<1> QED  BY <1>1, <1>2, <1>4 DEF HInv

\* The accept loop.
LEMMA MainStepHInv ==
    ASSUME HInv, httpdGetConnection \/ Awake \/ Terminate
    PROVE  HInv'
<1>1. UNCHANGED <<thread, current_httpd_threads>>
      BY DEF httpdGetConnection, Awake, Terminate
<1>2. Inside' = Inside
      BY <1>1 DEF Inside
<1>3. Counted
      BY DEF HInv
<1>4. Counted'
  <2>1. CASE httpdGetConnection
    <3>1. main = "accept" /\ accepted' = accepted + 1 /\ Running /\ main' # "accept"
          BY <2>1 DEF httpdGetConnection
    <3> QED  BY <1>1, <1>2, <1>3, <2>1, <3>1 DEF Counted, Running, httpdGetConnection
  <2>2. CASE Awake
        BY <1>1, <1>2, <1>3, <2>2 DEF Counted, Running, Awake
  <2>3. CASE Terminate
    <3>1. status' # "running" /\ created_httpd_threads' \in Nat /\ UNCHANGED accepted
          BY <1>3, <2>3 DEF Counted, Terminate
    <3> QED  BY <1>1, <1>2, <1>3, <3>1 DEF Counted, Running
  <2> QED  BY <2>1, <2>2, <2>3
<1> QED  BY <1>1, <1>4 DEF HInv

LEMMA CreateStep ==
    ASSUME HInv, NEW t \in Thread, CreateThread(t)
    PROVE  HInv'
<1> DEFINE f == [NoThread EXCEPT !.pc = "new", !.socket = socket]
           v == With(thread[t], f)
<1>1. /\ Running /\ main = "create" /\ main' = "accept" /\ thread[t].pc = "none"
      /\ created_httpd_threads' = created_httpd_threads + 1
      /\ Become(t, f) /\ UNCHANGED <<status, accepted, current_httpd_threads>>
      BY DEF CreateThread
<1>2. /\ DOMAIN thread' = Thread /\ thread'[t] = v
      /\ \A u \in Thread : u # t => thread'[u] = thread[u]
      BY <1>1, BecomeOne DEF HInv
<1>3. DOMAIN f = Fields /\ f.pc = "new" /\ f.handler = NULL
      BY DEF NoThread, Fields
<1>4. DOMAIN thread[t] = Fields
      BY DEF HInv, Own
<1> HIDE DEF f
<1>5. DOMAIN v = Fields /\ v.pc = "new" /\ v.handler = NULL
      BY <1>3, <1>4 DEF With, Fields
<1>6. Own(v)
      BY <1>5, OwnFresh
<1>7. Inside' = Inside
      BY <1>1, <1>2, <1>5 DEF Inside
<1>8. Counted'
      BY <1>1, <1>7 DEF HInv, Counted, Running
<1>9. \A u \in Thread : Own(thread[u])'
      BY <1>2, <1>6 DEF HInv
<1> QED  BY <1>2, <1>8, <1>9 DEF HInv

\* thread_httpd() counts itself under httpd_mutex on its way in and out.
LEMMA EnterStep ==
    ASSUME HInv, NEW t \in Thread, Enter(t)
    PROVE  HInv'
<1> DEFINE v == With(thread[t], [pc |-> "read"])
<1>1. /\ thread[t].pc = "new" /\ current_httpd_threads' = current_httpd_threads + 1
      /\ Become(t, [pc |-> "read"])
      /\ UNCHANGED <<status, accepted, main, created_httpd_threads>>
      BY DEF Enter, At, mainVars
<1>2. /\ DOMAIN thread' = Thread /\ thread'[t] = v
      /\ \A u \in Thread : u # t => thread'[u] = thread[u]
      BY <1>1, BecomeOne DEF HInv
<1>3. DOMAIN thread[t] = Fields /\ thread[t].handler = NULL
      BY <1>1 DEF HInv, Own
<1>4. DOMAIN v = Fields /\ v.pc = "read" /\ v.handler = NULL
      BY <1>3 DEF With, Fields
<1>5. Own(v)
      BY <1>4, OwnFresh
<1>6. Inside' = Inside \cup {t} /\ t \notin Inside
      BY <1>1, <1>2, <1>4 DEF Inside
<1>7. IsFiniteSet(Inside') /\ Cardinality(Inside') = Cardinality(Inside) + 1
      BY <1>6, FS_AddElement DEF HInv, Counted
<1>8. Counted'
      BY <1>1, <1>7 DEF HInv, Counted, Running
<1>9. \A u \in Thread : Own(thread[u])'
      BY <1>2, <1>5 DEF HInv
<1> QED  BY <1>2, <1>8, <1>9 DEF HInv

LEMMA LeaveStep ==
    ASSUME HInv, NEW t \in Thread, Leave(t)
    PROVE  HInv'
<1> DEFINE v == With(thread[t], NoThread)
<1>1. /\ thread[t].pc = "leave" /\ current_httpd_threads' = current_httpd_threads - 1
      /\ Become(t, NoThread)
      /\ UNCHANGED <<status, accepted, main, created_httpd_threads>>
      BY DEF Leave, At, mainVars
<1>2. /\ DOMAIN thread' = Thread /\ thread'[t] = v
      /\ \A u \in Thread : u # t => thread'[u] = thread[u]
      BY <1>1, BecomeOne DEF HInv
<1>3. DOMAIN thread[t] = Fields
      BY DEF HInv, Own
<1>4. DOMAIN v = Fields /\ v.pc = "none" /\ v.handler = NULL
      BY <1>3 DEF With, Fields, NoThread
<1>5. Own(v)
      BY <1>4, OwnFresh
<1>6. Inside' = Inside \ {t} /\ t \in Inside
      BY <1>1, <1>2, <1>4 DEF Inside
<1>7. IsFiniteSet(Inside') /\ Cardinality(Inside') = Cardinality(Inside) - 1
      BY <1>6, FS_RemoveElement DEF HInv, Counted
<1>8. Counted'
      BY <1>1, <1>7 DEF HInv, Counted, Running
<1>9. \A u \in Thread : Own(thread[u])'
      BY <1>2, <1>5 DEF HInv
<1> QED  BY <1>2, <1>8, <1>9 DEF HInv

\* Reading the request, and its end: there is no handler.
LEMMA ReadSteps ==
    ASSUME HInv, NEW t \in Thread,
           ReadFirstLine(t) \/ ReadHeader(t) \/ ReadEnd(t) \/ InvalidPath(t) \/ httpdEndRequest(t)
    PROVE  HInv'
<1>1. /\ thread[t].pc \in {"read", "process", "end"}
      /\ UNCHANGED <<status, accepted, main, created_httpd_threads, current_httpd_threads>>
      BY DEF ReadFirstLine, ReadHeader, ReadEnd, InvalidPath, httpdEndRequest, Written, At, mainVars
<1>2. DOMAIN thread[t] = Fields
      BY DEF HInv, Own
<1>3. ASSUME NEW f, Become(t, f), With(thread[t], f).handler = NULL,
             With(thread[t], f).pc \in {"read", "process", "end", "leave"}
      PROVE  HInv'
  <2>1. Own(With(thread[t], f))
        BY <1>2, <1>3, OwnFresh, WithFields
  <2> QED  BY <1>1, <1>3, <2>1, ThreadStep
<1>4. CASE ReadFirstLine(t)
  <2>1. PICK l \in FirstLine :
          Become(t, IF l.method \in {"GET", "POST"}
                    THEN [lines |-> 1, request |-> Requests[l]]
                    ELSE [pc |-> "end", answer |-> "method error"])
        BY <1>4 DEF ReadFirstLine
  <2>2. thread[t].pc = "read" /\ thread[t].handler = NULL
        BY <1>4 DEF ReadFirstLine, At, HInv, Own
  <2>3. CASE l.method \in {"GET", "POST"}
    <3> DEFINE f == [lines |-> 1, request |-> Requests[l]]
    <3>1. With(thread[t], f).handler = NULL /\ With(thread[t], f).pc = "read"
          BY <1>2, <2>2 DEF With, Fields
    <3> QED  BY <1>3, <2>1, <2>3, <3>1
  <2>4. CASE l.method \notin {"GET", "POST"}
    <3> DEFINE f == [pc |-> "end", answer |-> "method error"]
    <3>1. With(thread[t], f).handler = NULL /\ With(thread[t], f).pc = "end"
          BY <1>2, <2>2 DEF With, Fields
    <3> QED  BY <1>3, <2>1, <2>4, <3>1
  <2> QED  BY <2>3, <2>4
<1>5. CASE ReadHeader(t)
  <2> DEFINE f == [lines |-> thread[t].lines + 1]
  <2>1. thread[t].pc = "read" /\ thread[t].handler = NULL /\ Become(t, f)
        BY <1>5 DEF ReadHeader, At, HInv, Own
  <2>2. With(thread[t], f).handler = NULL /\ With(thread[t], f).pc = "read"
        BY <1>2, <2>1 DEF With, Fields
  <2> QED  BY <1>3, <2>1, <2>2
<1>6. CASE ReadEnd(t)
  <2> DEFINE f == [pc |-> "process", variables |-> Variables[thread[t].request.query]]
  <2>1. thread[t].pc = "read" /\ thread[t].handler = NULL /\ Become(t, f)
        BY <1>6 DEF ReadEnd, At, HInv, Own
  <2>2. With(thread[t], f).handler = NULL /\ With(thread[t], f).pc = "process"
        BY <1>2, <2>1 DEF With, Fields
  <2> QED  BY <1>3, <2>1, <2>2
<1>7. CASE InvalidPath(t)
  <2> DEFINE f == [pc |-> "end"]
  <2>1. thread[t].pc = "process" /\ thread[t].handler = NULL /\ Become(t, f)
        BY <1>7 DEF InvalidPath, At, HInv, Own
  <2>2. With(thread[t], f).handler = NULL /\ With(thread[t], f).pc = "end"
        BY <1>2, <2>1 DEF With, Fields
  <2> QED  BY <1>3, <2>1, <2>2
<1>8. CASE httpdEndRequest(t)
  <2> DEFINE f == [NoThread EXCEPT !.pc = "leave"]
  <2>1. Become(t, f)
        BY <1>8 DEF httpdEndRequest
  <2>2. DOMAIN f = Fields /\ f.pc = "leave" /\ f.handler = NULL
        BY DEF NoThread, Fields
  <2> HIDE DEF f
  <2>3. With(thread[t], f).handler = NULL /\ With(thread[t], f).pc = "leave"
        BY <1>2, <2>2 DEF With, Fields
  <2> QED  BY <1>3, <2>1, <2>3
<1> QED  BY <1>4, <1>5, <1>6, <1>7, <1>8

\* A step that gives the thread a handler for the path it has, or leaves it the one it
\* has, and ends the search or goes on to the answer.
LEMMA HandlerStep ==
    ASSUME HInv, NEW t \in Thread, NEW f, Become(t, f),
           thread[t].pc \notin {"none", "new"},
           With(thread[t], f).pc \in {"handle", "end"},
           With(thread[t], f).request = thread[t].request,
           Serves(With(thread[t], f).handler, Wanted(t)),
           UNCHANGED <<status, accepted, main, created_httpd_threads, current_httpd_threads>>
    PROVE  HInv'
<1>1. DOMAIN With(thread[t], f) = Fields
      BY WithFields DEF HInv, Own
<1>2. Own(With(thread[t], f))
      BY <1>1 DEF Own, Wanted
<1> QED  BY <1>2, ThreadStep

\* A step of the search that stays in the directory.
LEMMA SearchStep ==
    ASSUME HInv, NEW t \in Thread, NEW f, Become(t, f),
           thread[t].pc \notin {"none", "new"},
           With(thread[t], f).pc \in {"next", "entry"},
           With(thread[t], f).request = thread[t].request,
           With(thread[t], f).handler = NULL,
           IF Wanted(t) = <<>> THEN With(thread[t], f).dir = ""
                               ELSE /\ With(thread[t], f).dir \in Dir
                                    /\ With(thread[t], f).dir = Head(Wanted(t)),
           UNCHANGED <<status, accepted, main, created_httpd_threads, current_httpd_threads>>
    PROVE  HInv'
<1>1. DOMAIN With(thread[t], f) = Fields
      BY WithFields DEF HInv, Own
<1>2. Own(With(thread[t], f))
      BY <1>1, NoHandler DEF Own, Wanted
<1> QED  BY <1>2, ThreadStep
\* strtok(buffer, "/"): the first name of the thread's own path.
LEMMA FindFirstStep ==
    ASSUME HInv, NEW t \in Thread, FindFirst(t)
    PROVE  HInv'
<1>1. /\ thread[t].pc = "process"
      /\ UNCHANGED <<status, accepted, main, created_httpd_threads, current_httpd_threads>>
      BY DEF FindFirst, At, mainVars
<1>2. DOMAIN thread[t] = Fields /\ thread[t].handler = NULL
      BY <1>1 DEF HInv, Own
<1>3. CASE Wanted(t) = <<>>
  <2> DEFINE f == [pc |-> "entry", dir |-> ""]
  <2>1. Become(t, f)
        BY <1>3 DEF FindFirst
  <2>2. /\ With(thread[t], f).pc = "entry" /\ With(thread[t], f).dir = ""
        /\ With(thread[t], f).request = thread[t].request /\ With(thread[t], f).handler = NULL
        BY <1>2 DEF With, Fields
  <2> HIDE DEF f
  <2> QED  BY <1>1, <1>3, <2>1, <2>2, SearchStep
<1>4. CASE Wanted(t) # <<>> /\ Head(Wanted(t)) \in Dir
  <2> DEFINE f == [pc |-> "next", dir |-> Head(Wanted(t))]
  <2>1. Become(t, f)
        BY <1>4 DEF FindFirst
  <2>2. /\ With(thread[t], f).pc = "next" /\ With(thread[t], f).dir = Head(Wanted(t))
        /\ With(thread[t], f).request = thread[t].request /\ With(thread[t], f).handler = NULL
        BY <1>2 DEF With, Fields
  <2> HIDE DEF f
  <2> QED  BY <1>1, <1>4, <2>1, <2>2, SearchStep
<1>5. CASE Wanted(t) # <<>> /\ Head(Wanted(t)) \notin Dir
  <2> DEFINE f == [pc |-> "handle", handler |-> "404"]
  <2>1. Become(t, f)
        BY <1>5 DEF FindFirst
  <2>2. /\ With(thread[t], f).pc = "handle" /\ With(thread[t], f).handler = "404"
        /\ With(thread[t], f).request = thread[t].request
        BY <1>2 DEF With, Fields
  <2> HIDE DEF f
  <2> QED  BY <1>1, <2>1, <2>2, NoHandler, HandlerStep
<1> QED  BY <1>3, <1>4, <1>5

\* strtok(NULL, "/"): whosever name it returns, it only decides between the directory
\* that this thread has found and none.
LEMMA FindNextStep ==
    ASSUME HInv, NEW t \in Thread, FindNext(t)
    PROVE  HInv'
<1>1. /\ thread[t].pc = "next"
      /\ UNCHANGED <<status, accepted, main, created_httpd_threads, current_httpd_threads>>
      BY DEF FindNext, At, mainVars
<1>2. /\ DOMAIN thread[t] = Fields /\ thread[t].handler = NULL
      /\ IF Wanted(t) = <<>> THEN thread[t].dir = ""
         ELSE thread[t].dir \in Dir /\ thread[t].dir = Head(Wanted(t))
      BY <1>1 DEF HInv, Own, Wanted
<1>3. Become(t, [pc |-> "handle", handler |-> "404"]) \/ Become(t, [pc |-> "entry"])
      BY DEF FindNext
<1>4. CASE Become(t, [pc |-> "handle", handler |-> "404"])
  <2> DEFINE f == [pc |-> "handle", handler |-> "404"]
  <2>1. /\ With(thread[t], f).pc = "handle" /\ With(thread[t], f).handler = "404"
        /\ With(thread[t], f).request = thread[t].request
        BY <1>2 DEF With, Fields
  <2>2. Become(t, f)
        BY <1>4
  <2> HIDE DEF f
  <2> QED  BY <1>1, <2>1, <2>2, NoHandler, HandlerStep
<1>5. CASE Become(t, [pc |-> "entry"])
  <2> DEFINE f == [pc |-> "entry"]
  <2>1. /\ With(thread[t], f).pc = "entry" /\ With(thread[t], f).dir = thread[t].dir
        /\ With(thread[t], f).request = thread[t].request /\ With(thread[t], f).handler = NULL
        BY <1>2 DEF With, Fields
  <2>2. Become(t, f)
        BY <1>5
  <2> HIDE DEF f
  <2> QED  BY <1>1, <1>2, <2>1, <2>2, SearchStep
<1> QED  BY <1>3, <1>4, <1>5

\* The buffer of a thread that is gone ends the process and changes no thread.
LEMMA FindFaultsStep ==
    ASSUME HInv, NEW t \in Thread, FindFaults(t)
    PROVE  HInv'
<1>1. /\ status' # "running"
      /\ UNCHANGED <<accepted, created_httpd_threads, current_httpd_threads, thread>>
      BY DEF FindFaults
<1>2. Inside' = Inside
      BY <1>1 DEF Inside
<1>3. Counted'
      BY <1>1, <1>2 DEF HInv, Counted, Running
<1> QED  BY <1>1, <1>3 DEF HInv

LEMMA FindEntryStep ==
    ASSUME HInv, NEW t \in Thread, FindEntry(t)
    PROVE  HInv'
<1> DEFINE h == CASE thread[t].dir = AuthDir -> "auth"
                  [] thread[t].dir = DenyDir -> "deny"
                  [] thread[t].dir \in {ImagesDir, PagesDir} -> "file"
                  [] thread[t].dir = "" /\ Entry(thread[t].request.path) = "" -> "index"
                  [] OTHER -> "404"
           f == [pc |-> "handle", handler |-> h]
<1>1. /\ thread[t].pc = "entry" /\ Become(t, f)
      /\ UNCHANGED <<status, accepted, main, created_httpd_threads, current_httpd_threads>>
      BY DEF FindEntry, At, mainVars
<1>2. /\ DOMAIN thread[t] = Fields
      /\ IF Wanted(t) = <<>> THEN thread[t].dir = ""
         ELSE thread[t].dir \in Dir /\ thread[t].dir = Head(Wanted(t))
      BY <1>1 DEF HInv, Own, Wanted
<1>3. "" \notin Dir
      BY DirAssumption
<1>4. Serves(h, Wanted(t))
  <2>1. CASE Wanted(t) = <<>>
    <3>1. thread[t].dir \notin Dir
          BY <1>2, <1>3, <2>1
    <3>2. h \in {"index", "404"}
          BY <3>1 DEF Dir
    <3> HIDE DEF h
    <3> QED  BY <2>1, <3>2 DEF Serves
  <2>2. CASE Wanted(t) # <<>>
    <3>1. thread[t].dir = Head(Wanted(t)) /\ thread[t].dir \in Dir /\ thread[t].dir # ""
          BY <1>2, <1>3, <2>2
    <3>2. CASE thread[t].dir = AuthDir \/ thread[t].dir = DenyDir
               \/ thread[t].dir \in {ImagesDir, PagesDir}
      <4>1. /\ h = "auth" => thread[t].dir = AuthDir
            /\ h = "deny" => thread[t].dir = DenyDir
            /\ h = "file" => thread[t].dir \in {ImagesDir, PagesDir}
            /\ h # "index"
            BY <3>1, <3>2
      <4> HIDE DEF h
      <4> QED  BY <3>1, <4>1 DEF Serves
    <3> QED  BY <3>1, <3>2 DEF Dir
  <2> QED  BY <2>1, <2>2
<1> HIDE DEF h
<1>5. /\ With(thread[t], f).pc = "handle" /\ With(thread[t], f).handler = h
      /\ With(thread[t], f).request = thread[t].request
      BY <1>2 DEF With, Fields
<1> HIDE DEF f
<1> QED  BY <1>1, <1>4, <1>5, HandlerStep

\* The handlers answer and do not touch the request.
LEMMA AnswerSteps ==
    ASSUME HInv, NEW t \in Thread, _httpd_sendFile(t) \/ first_contact(t) \/ callback_action(t)
    PROVE  HInv'
<1>1. /\ thread[t].pc = "handle"
      /\ UNCHANGED <<status, accepted, main, created_httpd_threads, current_httpd_threads>>
      BY DEF _httpd_sendFile, first_contact, callback_action, At, mainVars
<1>2. DOMAIN thread[t] = Fields /\ Serves(thread[t].handler, Wanted(t))
      BY DEF HInv, Own, Wanted
<1>3. ASSUME NEW a, Become(t, [pc |-> "end", answer |-> a])
      PROVE  HInv'
  <2> DEFINE f == [pc |-> "end", answer |-> a]
  <2>1. /\ With(thread[t], f).pc = "end" /\ With(thread[t], f).handler = thread[t].handler
        /\ With(thread[t], f).request = thread[t].request
        BY <1>2 DEF With, Fields
  <2>2. Become(t, f)
        BY <1>3
  <2> HIDE DEF f
  <2> QED  BY <1>1, <1>2, <2>1, <2>2, HandlerStep
<1>4. ASSUME NEW a, NEW k, Become(t, [pc |-> "end", answer |-> a, token |-> k])
      PROVE  HInv'
  <2> DEFINE f == [pc |-> "end", answer |-> a, token |-> k]
  <2>1. /\ With(thread[t], f).pc = "end" /\ With(thread[t], f).handler = thread[t].handler
        /\ With(thread[t], f).request = thread[t].request
        BY <1>2 DEF With, Fields
  <2>2. Become(t, f)
        BY <1>4
  <2> HIDE DEF f
  <2> QED  BY <1>1, <1>2, <2>1, <2>2, HandlerStep
<1>5. ASSUME Become(t, [handler |-> "404"])
      PROVE  HInv'
  <2> DEFINE f == [handler |-> "404"]
  <2>1. /\ With(thread[t], f).pc = "handle" /\ With(thread[t], f).handler = "404"
        /\ With(thread[t], f).request = thread[t].request
        BY <1>1, <1>2 DEF With, Fields
  <2>2. Become(t, f)
        BY <1>5
  <2> HIDE DEF f
  <2> QED  BY <1>1, <2>1, <2>2, NoHandler, HandlerStep
<1>6. CASE _httpd_sendFile(t)
      BY <1>3, <1>5, <1>6 DEF _httpd_sendFile
<1>7. CASE first_contact(t)
      BY <1>3, <1>7 DEF first_contact
<1>8. CASE callback_action(t)
      BY <1>4, <1>8 DEF callback_action
<1> QED  BY <1>6, <1>7, <1>8

\* A client that stops reading its answer, or goes on.
LEMMA ClientStep ==
    ASSUME HInv, NEW t \in Thread, Client(t)
    PROVE  HInv'
<1>1. /\ thread[t].pc = "end"
      /\ UNCHANGED <<status, accepted, main, created_httpd_threads, current_httpd_threads>>
      BY DEF Client, StopReading, ReadOn, At, mainVars
<1>2. DOMAIN thread[t] = Fields /\ Serves(thread[t].handler, Wanted(t))
      BY DEF HInv, Own, Wanted
<1>3. PICK b : Become(t, [reads |-> b])
      BY DEF Client, StopReading, ReadOn
<1> DEFINE f == [reads |-> b]
<1>4. /\ With(thread[t], f).pc = "end" /\ With(thread[t], f).handler = thread[t].handler
      /\ With(thread[t], f).request = thread[t].request
      BY <1>1, <1>2 DEF With, Fields
<1>5. Become(t, f)
      BY <1>3
<1> HIDE DEF f
<1> QED  BY <1>1, <1>2, <1>4, <1>5, HandlerStep

LEMMA NextHInv ==
    ASSUME HInv, [HNext]_vars
    PROVE  HInv'
<1>1. CASE Connect
  <2>1. UNCHANGED <<status, accepted, main, created_httpd_threads, current_httpd_threads, thread>>
        BY <1>1 DEF Connect
  <2> QED  BY <2>1 DEF HInv, Counted, Inside, Running
<1>2. CASE MainStep
      BY <1>2, MainStepHInv, CreateStep DEF MainStep
<1>3. ASSUME NEW t \in Thread, thread_httpd(t)
      PROVE  HInv'
      BY <1>3, EnterStep, ReadSteps, FindFirstStep, FindNextStep, FindFaultsStep,
         FindEntryStep, AnswerSteps, LeaveStep DEF thread_httpd
<1>4. CASE UNCHANGED vars
      BY <1>4 DEF vars, HInv, Counted, Inside, Running
<1>5. ASSUME NEW t \in Thread, Client(t)
      PROVE  HInv'
      BY <1>5, ClientStep
<1> QED  BY <1>1, <1>2, <1>3, <1>4, <1>5 DEF HNext

----------------------------------------------------------------------------
(* The text of the requests.  *)

\* The requests a thread may have: none, or a first line with its path cleaned.
Served == {NoRequest} \cup {Requests[f] : f \in FirstLine}

\* Between the end of the request and the answer a thread has the variables of its own
\* query, and a handler's token comes from them.
Processing == {"process", "next", "entry", "handle"}
Asked(w) ==
    /\ w.request \in Served
    /\ w.pc \in Processing => w.variables = Variables[w.request.query]
    /\ \/ w.token = NULL
       \/ w.pc = "end" /\ w.token = decode_authtarget(Variables[w.request.query], Tok)

TextInv == HInv /\ \A t \in Thread : Asked(thread[t])

\* A record of a thread that does not process a request.
LEMMA AskedFresh ==
    ASSUME NEW w, w.request \in Served, w.token = NULL, w.pc \notin Processing
    PROVE  Asked(w)
BY DEF Asked

\* A step of the search or of a handler that leaves request, variables and token alone.
LEMMA AskedGoesOn ==
    ASSUME NEW w, Asked(w), DOMAIN w = Fields, w.pc \in Processing,
           NEW f, DOMAIN f \subseteq {"pc", "dir", "handler", "answer"}
    PROVE  Asked(With(w, f))
<1>1. /\ With(w, f).request = w.request /\ With(w, f).variables = w.variables
      /\ With(w, f).token = w.token
      BY DEF With, Fields
<1>2. w.token = NULL
      BY DEF Asked, Processing
<1> QED  BY <1>1, <1>2 DEF Asked

\* The record of a thread that is new or at its end.
IsNothing(f) ==
    /\ DOMAIN f = Fields /\ f.pc \in {"none", "new", "leave"}
    /\ f.request = NoRequest /\ f.token = NULL

LEMMA AskedNothing ==
    ASSUME NEW w, DOMAIN w = Fields, NEW f, IsNothing(f)
    PROVE  Asked(With(w, f))
<1>1. With(w, f).pc = f.pc /\ With(w, f).request = NoRequest /\ With(w, f).token = NULL
      BY DEF With, Fields, IsNothing
<1>2. f.pc \notin Processing /\ NoRequest \in Served
      BY DEF Processing, Served, IsNothing
<1> QED  BY <1>1, <1>2, AskedFresh

\* Reading a request.
LEMMA ReadsAsked ==
    ASSUME TextInv, NEW t \in Thread, Enter(t) \/ ReadFirstLine(t) \/ ReadHeader(t) \/ ReadEnd(t)
    PROVE  \A u \in Thread : Asked(thread[u])'
<1> DEFINE w == thread[t]
<1>1. w.pc \in {"new", "read"} /\ DOMAIN w = Fields /\ Asked(w) /\ DOMAIN thread = Thread
      BY DEF Enter, ReadFirstLine, ReadHeader, ReadEnd, At, TextInv, HInv, Own
<1>2. w.token = NULL /\ w.request \in Served
      BY <1>1 DEF Asked
<1>3. ASSUME NEW f, Become(t, f), Asked(With(w, f))
      PROVE  \A u \in Thread : Asked(thread[u])'
  <2>1. thread'[t] = With(w, f) /\ \A u \in Thread : u # t => thread'[u] = thread[u]
        BY <1>1, <1>3, BecomeOne
  <2> QED  BY <1>3, <2>1 DEF TextInv
<1>4. CASE Enter(t)
  <2> DEFINE f == [pc |-> "read"]
  <2>1. Become(t, f)
        BY <1>4 DEF Enter
  <2>2. With(w, f).request = w.request /\ With(w, f).token = NULL /\ With(w, f).pc \notin Processing
        BY <1>1, <1>2 DEF With, Fields, Processing
  <2>3. Asked(With(w, f))
        BY <1>2, <2>2, AskedFresh
  <2> QED  BY <1>3, <2>1, <2>3
<1>5. CASE ReadFirstLine(t)
  <2>1. PICK l \in FirstLine :
          Become(t, IF l.method \in {"GET", "POST"}
                    THEN [lines |-> 1, request |-> Requests[l]]
                    ELSE [pc |-> "end", answer |-> "method error"])
        BY <1>5 DEF ReadFirstLine
  <2>2. w.pc = "read"
        BY <1>5 DEF ReadFirstLine, At
  <2>3. CASE l.method \in {"GET", "POST"}
    <3> DEFINE f == [lines |-> 1, request |-> Requests[l]]
    <3>1. With(w, f).request = Requests[l] /\ With(w, f).token = NULL /\ With(w, f).pc \notin Processing
          BY <1>1, <1>2, <2>2 DEF With, Fields, Processing
    <3>2. Asked(With(w, f))
          BY <3>1, AskedFresh DEF Served
    <3>3. Become(t, f)
          BY <2>1, <2>3
    <3> QED  BY <1>3, <3>2, <3>3
  <2>4. CASE l.method \notin {"GET", "POST"}
    <3> DEFINE f == [pc |-> "end", answer |-> "method error"]
    <3>1. With(w, f).request = w.request /\ With(w, f).token = NULL /\ With(w, f).pc \notin Processing
          BY <1>1, <1>2 DEF With, Fields, Processing
    <3>2. Asked(With(w, f))
          BY <1>2, <3>1, AskedFresh
    <3>3. Become(t, f)
          BY <2>1, <2>4
    <3> QED  BY <1>3, <3>2, <3>3
  <2> QED  BY <2>3, <2>4
<1>6. CASE ReadHeader(t)
  <2> DEFINE f == [lines |-> thread[t].lines + 1]
  <2>1. Become(t, f) /\ w.pc = "read"
        BY <1>6 DEF ReadHeader, At
  <2>2. With(w, f).request = w.request /\ With(w, f).token = NULL /\ With(w, f).pc \notin Processing
        BY <1>1, <1>2, <2>1 DEF With, Fields, Processing
  <2>3. Asked(With(w, f))
        BY <1>2, <2>2, AskedFresh
  <2> QED  BY <1>3, <2>1, <2>3
<1>7. CASE ReadEnd(t)
  <2> DEFINE f == [pc |-> "process", variables |-> Variables[thread[t].request.query]]
  <2>1. Become(t, f)
        BY <1>7 DEF ReadEnd
  <2>2. /\ With(w, f).request = w.request /\ With(w, f).token = NULL
        /\ With(w, f).variables = Variables[w.request.query]
        BY <1>1, <1>2 DEF With, Fields
  <2>3. Asked(With(w, f))
        BY <1>2, <2>2 DEF Asked
  <2> QED  BY <1>3, <2>1, <2>3
<1> QED  BY <1>4, <1>5, <1>6, <1>7

\* Processing one, up to the answer and the end of the thread.
LEMMA ProcessesAsked ==
    ASSUME TextInv, NEW t \in Thread,
           \/ InvalidPath(t) \/ FindFirst(t) \/ FindNext(t) \/ FindEntry(t) \/ _httpd_sendFile(t)
           \/ first_contact(t) \/ callback_action(t)
    PROVE  \A u \in Thread : Asked(thread[u])'
<1> DEFINE w == thread[t]
<1>1. w.pc \in Processing /\ DOMAIN w = Fields /\ Asked(w) /\ DOMAIN thread = Thread
      BY DEF InvalidPath, FindFirst, FindNext, FindEntry, _httpd_sendFile, first_contact,
             callback_action, At, TextInv, HInv, Own, Processing
<1>2. ASSUME NEW f, Become(t, f), Asked(With(w, f))
      PROVE  \A u \in Thread : Asked(thread[u])'
  <2>1. thread'[t] = With(w, f) /\ \A u \in Thread : u # t => thread'[u] = thread[u]
        BY <1>1, <1>2, BecomeOne
  <2> QED  BY <1>2, <2>1 DEF TextInv
<1>3. ASSUME NEW f, Become(t, f), DOMAIN f \subseteq {"pc", "dir", "handler", "answer"}
      PROVE  \A u \in Thread : Asked(thread[u])'
  <2>1. Asked(With(w, f))
        BY <1>1, <1>3, AskedGoesOn
  <2> QED  BY <1>2, <1>3, <2>1
<1>4. CASE InvalidPath(t)
  <2> DEFINE f == [pc |-> "end"]
  <2>1. Become(t, f) /\ DOMAIN f \subseteq {"pc", "dir", "handler", "answer"}
        BY <1>4 DEF InvalidPath
  <2> QED  BY <1>3, <2>1
<1>5. CASE FindFirst(t)
  <2>1. PICK d : \/ Become(t, [pc |-> "entry", dir |-> d])
                 \/ Become(t, [pc |-> "next", dir |-> d])
                 \/ Become(t, [pc |-> "handle", handler |-> d])
        BY <1>5 DEF FindFirst
  <2> QED  BY <1>3, <2>1
<1>6. CASE FindNext(t)
  <2>1. Become(t, [pc |-> "handle", handler |-> "404"]) \/ Become(t, [pc |-> "entry"])
        BY <1>6 DEF FindNext
  <2> QED  BY <1>3, <2>1
<1>7. CASE FindEntry(t)
  <2>1. PICK h : Become(t, [pc |-> "handle", handler |-> h])
        BY <1>7 DEF FindEntry
  <2> QED  BY <1>3, <2>1
<1>8. CASE _httpd_sendFile(t) \/ first_contact(t)
  <2>1. PICK a : Become(t, [pc |-> "end", answer |-> a]) \/ Become(t, [handler |-> a])
        BY <1>8 DEF _httpd_sendFile, first_contact
  <2> QED  BY <1>3, <2>1
<1>9. CASE callback_action(t)
  <2>1. PICK a : Become(t, [pc |-> "end", answer |-> a, token |-> decode_authtarget(w.variables, Tok)])
        BY <1>9 DEF callback_action
  <2> DEFINE k == decode_authtarget(w.variables, Tok)
             f == [pc |-> "end", answer |-> a, token |-> k]
  <2>2. k = decode_authtarget(Variables[w.request.query], Tok) /\ w.request \in Served
        BY <1>1 DEF Asked
  <2> HIDE DEF k
  <2>3. With(w, f).request = w.request /\ With(w, f).pc = "end" /\ With(w, f).token = k
        BY <1>1 DEF With, Fields
  <2>4. Asked(With(w, f))
        BY <2>2, <2>3 DEF Asked, Processing
  <2>5. Become(t, f)
        BY <2>1 DEF k
  <2> HIDE DEF f
  <2> QED  BY <1>2, <2>4, <2>5
<1> QED  BY <1>4, <1>5, <1>6, <1>7, <1>8, <1>9

\* A thread that begins or ends.
LEMMA EndsAsked ==
    ASSUME TextInv, NEW t \in Thread, CreateThread(t) \/ httpdEndRequest(t) \/ Leave(t)
    PROVE  \A u \in Thread : Asked(thread[u])'
<1>1. DOMAIN thread[t] = Fields /\ DOMAIN thread = Thread
      BY DEF TextInv, HInv, Own
<1>2. \E f : Become(t, f) /\ IsNothing(f)
  <2>1. IsNothing(NoThread)
        BY DEF NoThread, IsNothing, Fields
  <2>2. IsNothing([NoThread EXCEPT !.pc = "leave"])
        BY DEF NoThread, IsNothing, Fields
  <2>3. IsNothing([NoThread EXCEPT !.pc = "new", !.socket = socket])
        BY DEF NoThread, IsNothing, Fields
  <2> QED  BY <2>1, <2>2, <2>3 DEF CreateThread, httpdEndRequest, Leave
<1>3. PICK f : Become(t, f) /\ IsNothing(f)
      BY <1>2
<1>4. Asked(With(thread[t], f))
      BY <1>1, <1>3, AskedNothing
<1>5. thread'[t] = With(thread[t], f) /\ \A u \in Thread : u # t => thread'[u] = thread[u]
      BY <1>1, <1>3, BecomeOne
<1> QED  BY <1>4, <1>5 DEF TextInv

\* What the client does while the answer is written.
LEMMA ClientAsked ==
    ASSUME TextInv, NEW t \in Thread, Client(t)
    PROVE  \A u \in Thread : Asked(thread[u])'
<1> DEFINE w == thread[t]
<1>1. w.pc = "end" /\ DOMAIN w = Fields /\ Asked(w) /\ DOMAIN thread = Thread
      BY DEF Client, StopReading, ReadOn, At, TextInv, HInv, Own
<1>2. PICK b : Become(t, [reads |-> b])
      BY DEF Client, StopReading, ReadOn
<1> DEFINE f == [reads |-> b]
<1>3. /\ With(w, f).pc = w.pc /\ With(w, f).request = w.request
      /\ With(w, f).variables = w.variables /\ With(w, f).token = w.token
      BY <1>1 DEF With, Fields
<1>4. Asked(With(w, f))
      BY <1>1, <1>3 DEF Asked
<1>5. thread'[t] = With(w, f) /\ \A u \in Thread : u # t => thread'[u] = thread[u]
      BY <1>1, <1>2, BecomeOne
<1> QED  BY <1>4, <1>5 DEF TextInv

LEMMA NextTextInv ==
    ASSUME TextInv, [HNext]_vars
    PROVE  TextInv'
<1>1. HInv'
      BY NextHInv DEF TextInv
<1>2. \A t \in Thread : Asked(thread[t])'
  <2>1. CASE UNCHANGED thread
        BY <2>1 DEF TextInv
  <2>2. CASE thread' # thread
    <3>1. \/ \E t \in Thread : CreateThread(t)
          \/ \E t \in Thread : thread_httpd(t) /\ ~FindFaults(t)
          \/ \E t \in Thread : Client(t)
      <4>1. Connect \/ httpdGetConnection \/ Awake \/ Terminate => UNCHANGED thread
            BY DEF Connect, httpdGetConnection, Awake, Terminate
      <4>2. \A t \in Thread : FindFaults(t) => UNCHANGED thread
            BY DEF FindFaults
      <4>3. UNCHANGED vars => UNCHANGED thread
            BY DEF vars
      <4> QED  BY <2>2, <4>1, <4>2, <4>3 DEF HNext, MainStep
    <3> QED  BY <3>1, ReadsAsked, ProcessesAsked, EndsAsked, ClientAsked DEF thread_httpd
  <2> QED  BY <2>1, <2>2
<1> QED  BY <1>1, <1>2 DEF TextInv

----------------------------------------------------------------------------
(* The theorems. *)

\* The inductive invariant holds: a thread's directory comes from its own path as long
\* as it searches, and the threads that are inside are counted.
THEOREM HttpdInvariance == HSpec => []HInv
<1>1. HInit => HInv  BY InitHInv
<1>2. HInv /\ [HNext]_vars => HInv'  BY NextHInv
<1> QED  BY <1>1, <1>2, PTL DEF HSpec

\* The number that main_loop() compares with httpd_thread_threshold is exact, for any
\* number of threads and however their requests end.
THEOREM CountExact == HSpec => []ThreadsAccounted
<1>1. ASSUME HInv PROVE ThreadsAccounted
  <2>1. {t \in {u \in Thread : thread[u].pc # "none"} : thread[t].pc # "new"} = Inside
        BY DEF Inside
  <2> QED  BY <1>1, <2>1 DEF HInv, Counted, ThreadsAccounted
<1> QED  BY <1>1, HttpdInvariance, PTL

\* The handler that httpdProcessRequest() calls is that of the request's own directory,
\* for any number of threads that share strtok()'s pointer.
THEOREM DirectoryOwned == HSpec => []OwnDirectory
<1>1. ASSUME HInv PROVE OwnDirectory
      BY <1>1 DEF HInv, Own, Serves, OwnDirectory, Wanted
<1> QED  BY <1>1, HttpdInvariance, PTL

\* Every request has a path that _httpd_sanitiseUrl() made, and a token that is used
\* comes from the variables of the thread's own query.
THEOREM TextInvariance == HSpec => []TextInv
<1>1. HInit => TextInv
  <2> SUFFICES ASSUME HInit PROVE TextInv
      OBVIOUS
  <2>1. \A t \in Thread : thread[t] = NoThread
        BY DEF HInit
  <2>2. NoThread.request \in Served /\ NoThread.token = NULL /\ NoThread.pc \notin Processing
        BY DEF NoThread, Served, Processing
  <2>3. Asked(NoThread)
        BY <2>2, AskedFresh
  <2> QED  BY <2>1, <2>3, InitHInv DEF TextInv
<1>2. TextInv /\ [HNext]_vars => TextInv'  BY NextTextInv
<1> QED  BY <1>1, <1>2, PTL DEF HSpec

\* However "", "." and ".." are mixed in a path of any length, _httpd_sanitiseUrl() leaves
\* none of them among the directories that are looked up, but for the first name of a
\* path that begins without a slash.
THEOREM PlainNamesOnly == HSpec => []PlainNames
<1>1. ASSUME TextInv PROVE PlainNames
  <2> SUFFICES ASSUME NEW t \in Thread, thread[t].request.path # NoPath
               PROVE  \A i \in 1 .. Len(Wanted(t)) :
                          Wanted(t)[i] \in {"", ".", ".."} =>
                              /\ i = 1 /\ Wanted(t)[i] # ""
                              /\ Wanted(t)[i] = Head(thread[t].request.path)
      BY DEF PlainNames
  <2>1. thread[t].request \in Served
        BY <1>1 DEF TextInv, Asked
  <2>2. NoRequest.path = NoPath
        BY DEF NoRequest
  <2>3. PICK f \in FirstLine : thread[t].request = Requests[f]
        BY <2>1, <2>2 DEF Served
  <2>4. f \in [method : STRING, path : Seq(STRING), query : Seq(Parameter)] /\ Len(f.path) # 1
        BY LineAssumption
  <2>5. thread[t].request.path = _httpd_sanitiseUrl(f.path)
        BY <2>3, <2>4 DEF Requests
  <2>6. f.path \in Seq(STRING) /\ Len(f.path) # 1
        BY <2>4
  <2> QED  BY <2>5, <2>6, WantedPlain DEF Wanted
<1> QED  BY <1>1, TextInvariance, PTL

\* For any queries: the token that is verified is the value of the first parameter of its
\* name, whatever is left in the buffer for names and however often the name is repeated.
THEOREM TokenOfFirst == HSpec => []FirstTokenUsed
<1>1. ASSUME TextInv PROVE FirstTokenUsed
  <2> SUFFICES ASSUME NEW t \in Thread, thread[t].token # NULL, WellFormed(thread[t].request.query)
               PROVE  thread[t].token = FirstNamed(thread[t].request.query, Tok)
      BY DEF FirstTokenUsed
  <2> DEFINE q == thread[t].request.query
  <2>1. thread[t].request \in Served /\ thread[t].token = decode_authtarget(Variables[q], Tok)
        BY <1>1 DEF TextInv, Asked
  <2>2. q = <<>> \/ \E f \in FirstLine : q = f.query
    <3>1. CASE thread[t].request = NoRequest
          BY <3>1 DEF NoRequest
    <3>2. CASE \E f \in FirstLine : thread[t].request = Requests[f]
      <4>1. PICK f \in FirstLine : thread[t].request = Requests[f]
            BY <3>2
      <4>2. f \in [method : STRING, path : Seq(STRING), query : Seq(Parameter)]
            BY LineAssumption
      <4>3. q = f.query
            BY <4>1, <4>2 DEF Requests
      <4> QED  BY <4>3
    <3> QED  BY <2>1, <3>1, <3>2 DEF Served
  <2>3. q \in Seq(Parameter)
    <3>1. \A f \in FirstLine : f.query \in Seq(Parameter)
          BY LineAssumption
    <3> QED  BY <2>2, <3>1, EmptySeq
  <2>4. Variables[q] = _httpd_storeData(q)
        BY <2>2 DEF Variables
  <2> QED  BY <2>1, <2>3, <2>4, TokenIsFirst
<1> QED  BY <1>1, TextInvariance, PTL
=============================================================================
