-------------------------- MODULE LifecycleProofs --------------------------
(***************************************************************************)
(* What Lifecycle promises, for any threads, configurations, rules of      *)
(* other programs, and any number of requests, signals, crashes, restarts  *)
(* and failing commands.                                                   *)
(***************************************************************************)
EXTENDS Lifecycle, Execute, SequenceTheorems, WellFoundedInduction, TLAPS

----------------------------------------------------------------------------
(* Sequences: what Only() keeps of one.  *)

\* A set of numbers from 0 that is closed under successor up to n has all of them.
LEMMA UpTo ==
    ASSUME NEW n \in Nat, NEW P \in SUBSET (0 .. n), 0 \in P,
           \A i \in 0 .. n - 1 : i \in P => i + 1 \in P
    PROVE  P = 0 .. n
<1> SUFFICES ASSUME (0 .. n) \ P # {} PROVE FALSE
  OBVIOUS
<1>1. (0 .. n) \ P \in SUBSET Nat
  OBVIOUS
<1>2. PICK x \in (0 .. n) \ P : \A y \in (0 .. n) \ P : ~ (<<y, x>> \in OpToRel(<, Nat))
  BY <1>1, WFMin, NatLessThanWellFounded
<1>3. \A y \in (0 .. n) \ P : ~ (y < x)
  BY <1>1, <1>2 DEF OpToRel
<1>4. x \in 0 .. n /\ x \notin P
  OBVIOUS
<1>5. x - 1 \in 0 .. n - 1 /\ x - 1 \in 0 .. n /\ x - 1 < x /\ (x - 1) + 1 = x
  BY <1>4
<1>6. x - 1 \in P
  BY <1>3, <1>5
<1> QED
  BY <1>4, <1>5, <1>6

\* The function that Only() takes its value from, up to position n.
PrefixFunction(f, s, S, n) ==
    f = [i \in 0 .. n |->
            IF i = 0 THEN <<>> ELSE IF s[i] \in S THEN Append(f[i - 1], s[i]) ELSE f[i - 1]]

\* There is such a function, and it is the one that Only() chooses.
LEMMA PrefixesExist ==
    ASSUME NEW T, NEW s \in Seq(T), NEW S
    PROVE  \E f : PrefixFunction(f, s, S, Len(s)) /\ Only(s, S) = f[Len(s)]
<1> DEFINE P == {n \in 0 .. Len(s) : \E f : PrefixFunction(f, s, S, n)}
<1>0. Len(s) \in Nat
  BY LenProperties
<1>1. 0 \in P
  <2>1. \A f : f = [i \in 0 .. 0 |-> <<>>] => PrefixFunction(f, s, S, 0)
    BY DEF PrefixFunction
  <2>2. \E f : PrefixFunction(f, s, S, 0)
    BY <2>1, Zenon
  <2> QED
    BY <1>0, <2>2
<1>2. ASSUME NEW i \in 0 .. Len(s) - 1, i \in P PROVE i + 1 \in P
  <2>0. i \in Nat /\ i + 1 \in 0 .. Len(s)
    BY <1>0
  <2>1. PICK f : PrefixFunction(f, s, S, i)
    BY <1>2, Zenon
  <2> DEFINE g == [j \in 0 .. i + 1 |->
                      IF j = i + 1
                      THEN IF s[j] \in S THEN Append(f[j - 1], s[j]) ELSE f[j - 1]
                      ELSE f[j]]
             h == [j \in 0 .. i + 1 |->
                      IF j = 0 THEN <<>> ELSE IF s[j] \in S THEN Append(g[j - 1], s[j]) ELSE g[j - 1]]
  <2>2. \A j \in 0 .. i : g[j] = f[j]
    BY <2>0
  <2>3. \A j \in 0 .. i :
          f[j] = IF j = 0 THEN <<>> ELSE IF s[j] \in S THEN Append(f[j - 1], s[j]) ELSE f[j - 1]
    BY <2>1 DEF PrefixFunction
  <2>4. \A j \in 0 .. i + 1 : g[j] = h[j]
    <3> TAKE j \in 0 .. i + 1
    <3>1. CASE j = i + 1
      <4>1. j - 1 \in 0 .. i /\ j # 0
        BY <2>0, <3>1
      <4> QED
        BY <2>2, <3>1, <4>1
    <3>2. CASE j # i + 1
      <4>1. j \in 0 .. i /\ (j # 0 => j - 1 \in 0 .. i)
        BY <2>0, <3>2
      <4> QED
        BY <2>2, <2>3, <3>2, <4>1
    <3> QED
      BY <3>1, <3>2
  <2>5. g = h
    BY <2>4
  <2>6. PrefixFunction(g, s, S, i + 1)
    BY <2>5 DEF PrefixFunction
  <2>7. \E e : PrefixFunction(e, s, S, i + 1)
    <3> HIDE DEF g
    <3> QED
      BY <2>6, Zenon
  <2> QED
    BY <2>0, <2>7
<1>3. P = 0 .. Len(s)
  <2> HIDE DEF P
  <2>1. P \in SUBSET (0 .. Len(s))
    BY DEF P
  <2> QED
    BY <1>0, <1>1, <1>2, <2>1, UpTo
<1>4. Len(s) \in P
  BY <1>0, <1>3
<1>5. PICK f : PrefixFunction(f, s, S, Len(s))
  BY <1>4, Zenon
<1> DEFINE chosen == CHOOSE e : PrefixFunction(e, s, S, Len(s))
<1>6. PrefixFunction(chosen, s, S, Len(s))
  BY <1>5, Zenon
<1>7. Only(s, S) = chosen[Len(s)]
  BY DEF Only, PrefixFunction
<1> HIDE DEF chosen
<1> QED
  BY <1>6, <1>7, Zenon

\* The values of that function.
Values(f, s, S, W, n) ==
    /\ f[0] = <<>>
    /\ \A i \in 1 .. n : f[i] = IF s[i] \in S THEN Append(f[i - 1], s[i]) ELSE f[i - 1]
    /\ \A i \in 0 .. n : f[i] \in Seq(W)

LEMMA PrefixesValues ==
    ASSUME NEW T, NEW s \in Seq(T), NEW S, NEW f, NEW n, n = Len(s), PrefixFunction(f, s, S, n)
    PROVE  Values(f, s, S, T \cap S, n)
<1>0. n \in Nat /\ \A i \in 1 .. n : s[i] \in T
  BY LenProperties, ElementOfSeq
<1>1. \A i \in 0 .. n :
        f[i] = IF i = 0 THEN <<>> ELSE IF s[i] \in S THEN Append(f[i - 1], s[i]) ELSE f[i - 1]
  BY DEF PrefixFunction
<1>2. f[0] = <<>>
  BY <1>0, <1>1
<1>3. \A i \in 1 .. n :
        f[i] = IF s[i] \in S THEN Append(f[i - 1], s[i]) ELSE f[i - 1]
  BY <1>0, <1>1
<1> DEFINE P == {i \in 0 .. n : f[i] \in Seq(T \cap S)}
<1>4. 0 \in P
  <2>1. f[0] \in Seq(T \cap S)
    BY <1>2, EmptySeq, Zenon
  <2> QED
    BY <1>0, <2>1
<1>5. ASSUME NEW i \in 0 .. n - 1, i \in P PROVE i + 1 \in P
  <2>1. i + 1 \in 1 .. n /\ i + 1 \in 0 .. n /\ (i + 1) - 1 = i
    BY <1>0
  <2>2. f[i + 1] = IF s[i + 1] \in S THEN Append(f[i], s[i + 1]) ELSE f[i]
    BY <1>3, <2>1
  <2>3. s[i + 1] \in S => Append(f[i], s[i + 1]) \in Seq(T \cap S)
    BY <1>0, <1>5, <2>1, AppendProperties
  <2> QED
    BY <1>5, <2>1, <2>2, <2>3
<1>6. P = 0 .. n
  <2>1. P \in SUBSET (0 .. n)
    OBVIOUS
  <2> HIDE DEF P
  <2> QED
    BY <1>0, <1>4, <1>5, <2>1, UpTo
<1> QED
  BY <1>2, <1>3, <1>6 DEF Values

\* What Only() keeps is a sequence of entries of S.
LEMMA OnlyType ==
    ASSUME NEW T, NEW s \in Seq(T), NEW S
    PROVE  Only(s, S) \in Seq(T \cap S)
<1>1. PICK f : PrefixFunction(f, s, S, Len(s)) /\ Only(s, S) = f[Len(s)]
  BY PrefixesExist
<1>2. \A i \in 0 .. Len(s) : f[i] \in Seq(T \cap S)
  BY <1>1, PrefixesValues, Zenon DEF Values
<1>3. Len(s) \in 0 .. Len(s)
  BY LenProperties
<1> QED
  BY <1>1, <1>2, <1>3, Zenon

\* An entry is appended to the second of two sequences.
AppendedAfter(a, b, e) == Append(a \o b, e) = a \o Append(b, e)

LEMMA AppendToConcat ==
    ASSUME NEW A, NEW a \in Seq(A), NEW b \in Seq(A), NEW e \in A
    PROVE  AppendedAfter(a, b, e)
BY DEF AppendedAfter

\* Only() of a sequence that has another one as its beginning, and the rest of which is
\* a third one.
Parts(u, s, t, m, n) ==
    /\ m \in Nat /\ n \in Nat /\ m = Len(s) /\ n = Len(t) /\ m + n = Len(u)
    /\ \A i \in 1 .. m : u[i] = s[i]
    /\ \A i \in 1 .. n : u[m + i] = t[i]

LEMMA OnlyParts ==
    ASSUME NEW T, NEW s \in Seq(T), NEW t \in Seq(T), NEW u \in Seq(T), NEW S,
           NEW m, NEW n, Parts(u, s, t, m, n)
    PROVE  Only(u, S) = Only(s, S) \o Only(t, S)
<1>0. /\ m \in Nat /\ n \in Nat /\ m = Len(s) /\ n = Len(t) /\ m + n = Len(u)
      /\ \A i \in 1 .. m : u[i] = s[i]
      /\ \A i \in 1 .. n : u[m + i] = t[i]
      /\ \A i \in 1 .. n : t[i] \in T
  BY ElementOfSeq DEF Parts
<1>w. PICK W : W = T \cap S
  OBVIOUS
<1>1. PICK f : PrefixFunction(f, s, S, m) /\ Only(s, S) = f[m]
  BY <1>0, PrefixesExist
<1>2. PICK g : PrefixFunction(g, t, S, n) /\ Only(t, S) = g[n]
  BY <1>0, PrefixesExist
<1>3. PICK h : PrefixFunction(h, u, S, m + n) /\ Only(u, S) = h[m + n]
  BY <1>0, PrefixesExist, SMTT(30)
<1>vf. Values(f, s, S, W, m)
  BY <1>0, <1>w, <1>1, PrefixesValues
<1>f. /\ f[0] = <<>>
      /\ \A i \in 1 .. m : f[i] = IF s[i] \in S THEN Append(f[i - 1], s[i]) ELSE f[i - 1]
      /\ \A i \in 0 .. m : f[i] \in Seq(W)
  BY <1>vf DEF Values
<1>vg. Values(g, t, S, W, n)
  BY <1>0, <1>w, <1>2, PrefixesValues
<1>g. /\ g[0] = <<>>
      /\ \A i \in 1 .. n : g[i] = IF t[i] \in S THEN Append(g[i - 1], t[i]) ELSE g[i - 1]
      /\ \A i \in 0 .. n : g[i] \in Seq(W)
  BY <1>vg DEF Values
<1>vh. Values(h, u, S, W, m + n)
  BY <1>0, <1>w, <1>3, PrefixesValues
<1>h. /\ h[0] = <<>>
      /\ \A i \in 1 .. m + n : h[i] = IF u[i] \in S THEN Append(h[i - 1], u[i]) ELSE h[i - 1]
  BY <1>vh DEF Values
<1>4. h[m] = f[m]
  <2> DEFINE P == {i \in 0 .. m : h[i] = f[i]}
  <2>1. 0 \in P
    BY <1>0, <1>f, <1>h
  <2>2. ASSUME NEW i \in 0 .. m - 1, i \in P PROVE i + 1 \in P
    <3>1. i + 1 \in 1 .. m /\ i + 1 \in 0 .. m /\ i + 1 \in 1 .. m + n /\ (i + 1) - 1 = i
      BY <1>0
    <3>2. h[i + 1] = IF u[i + 1] \in S THEN Append(h[i], u[i + 1]) ELSE h[i]
      BY <1>h, <3>1
    <3>3. f[i + 1] = IF s[i + 1] \in S THEN Append(f[i], s[i + 1]) ELSE f[i]
      BY <1>f, <3>1
    <3> QED
      BY <1>0, <2>2, <3>1, <3>2, <3>3
  <2>3. P = 0 .. m
    <3>1. P \in SUBSET (0 .. m)
      OBVIOUS
    <3> HIDE DEF P
    <3> QED
      BY <1>0, <2>1, <2>2, <3>1, UpTo
  <2> QED
    BY <1>0, <2>3
<1>5. h[m + n] = f[m] \o g[n]
  <2> DEFINE P == {i \in 0 .. n : h[m + i] = f[m] \o g[i]}
  <2>0. f[m] \in Seq(W)
    BY <1>0, <1>f
  <2>1. 0 \in P
    <3>1. f[m] \o <<>> = f[m]
      BY <2>0, ConcatEmptySeq
    <3>2. m + 0 = m /\ 0 \in 0 .. n
      BY <1>0
    <3>3. h[m + 0] = f[m] \o g[0]
      BY <1>4, <1>g, <3>1, <3>2, Zenon
    <3> QED
      BY <3>2, <3>3
  <2>2. ASSUME NEW i \in 0 .. n - 1, i \in P PROVE i + 1 \in P
    <3>1. /\ i + 1 \in 1 .. n /\ i + 1 \in 0 .. n /\ m + (i + 1) \in 1 .. m + n
          /\ (i + 1) - 1 = i /\ (m + (i + 1)) - 1 = m + i /\ i \in 0 .. n
      BY <1>0
    <3>2. h[m + (i + 1)] = IF t[i + 1] \in S THEN Append(h[m + i], t[i + 1]) ELSE h[m + i]
      BY <1>0, <1>h, <3>1
    <3>3. g[i + 1] = IF t[i + 1] \in S THEN Append(g[i], t[i + 1]) ELSE g[i]
      BY <1>g, <3>1
    <3>4. h[m + i] = f[m] \o g[i] /\ g[i] \in Seq(W)
      BY <2>2, <1>g, <3>1
    <3>5. ASSUME t[i + 1] \in S
          PROVE  Append(f[m] \o g[i], t[i + 1]) = f[m] \o Append(g[i], t[i + 1])
      <4>1. t[i + 1] \in W
        BY <1>0, <1>w, <3>1, <3>5
      <4>2. AppendedAfter(f[m], g[i], t[i + 1])
        BY <2>0, <3>4, <4>1, AppendToConcat
      <4> QED
        BY <4>2, Zenon DEF AppendedAfter
    <3>6. h[m + (i + 1)] = f[m] \o g[i + 1]
      <4>1. CASE t[i + 1] \in S
        BY <3>2, <3>3, <3>4, <3>5, <4>1, Zenon
      <4>2. CASE t[i + 1] \notin S
        BY <3>2, <3>3, <3>4, <4>2, Zenon
      <4> QED
        BY <4>1, <4>2
    <3> QED
      BY <3>1, <3>6
  <2>3. P = 0 .. n
    <3>1. P \in SUBSET (0 .. n)
      OBVIOUS
    <3> HIDE DEF P
    <3> QED
      BY <1>0, <2>1, <2>2, <3>1, UpTo
  <2>4. \A i \in 0 .. n : h[m + i] = f[m] \o g[i]
    BY <2>3
  <2>5. n \in 0 .. n
    BY <1>0
  <2> QED
    BY <2>4, <2>5, Zenon
<1> QED
  BY <1>1, <1>2, <1>3, <1>5, Zenon

\* Only() of two sequences one after the other.
Joined(u, s, t) == u = s \o t

LEMMA JoinedParts ==
    ASSUME NEW T, NEW s \in Seq(T), NEW t \in Seq(T), NEW v, Joined(v, s, t)
    PROVE  v \in Seq(T) /\ Parts(v, s, t, Len(s), Len(t))
<1>1. PICK m \in Nat, n \in Nat : m = Len(s) /\ n = Len(t)
  BY LenProperties
<1>2. /\ s \o t \in Seq(T) /\ Len(s \o t) = m + n
      /\ \A i \in 1 .. m + n : (s \o t)[i] = IF i <= m THEN s[i] ELSE t[i - m]
  BY <1>1, ConcatProperties
<1>3. PICK u \in Seq(T) : u = s \o t
  BY <1>2, Zenon
<1>4. Parts(u, s, t, m, n)
  <2>1. Len(u) = m + n /\ \A i \in 1 .. m + n : u[i] = IF i <= m THEN s[i] ELSE t[i - m]
    BY <1>2, <1>3, Zenon
  <2>2. \A i \in 1 .. m : i \in 1 .. m + n /\ i <= m
    OBVIOUS
  <2>3. \A i \in 1 .. n : m + i \in 1 .. m + n /\ ~(m + i <= m) /\ (m + i) - m = i
    OBVIOUS
  <2>4. \A i \in 1 .. n : u[m + i] = t[(m + i) - m]
    BY <2>1, <2>3
  <2>5. \A i \in 1 .. n : u[m + i] = t[i]
    BY <2>3, <2>4
  <2>6. \A i \in 1 .. m : u[i] = s[i]
    BY <2>1, <2>2
  <2> QED
    BY <1>1, <2>1, <2>5, <2>6 DEF Parts
<1> QED
  BY <1>1, <1>3, <1>4, Zenon DEF Joined

LEMMA OnlyJoined ==
    ASSUME NEW T, NEW s \in Seq(T), NEW t \in Seq(T), NEW S, NEW v, Joined(v, s, t)
    PROVE  Joined(Only(v, S), Only(s, S), Only(t, S))
<1>1. v \in Seq(T) /\ Parts(v, s, t, Len(s), Len(t))
  BY JoinedParts
<1>2. Only(v, S) = Only(s, S) \o Only(t, S)
  BY <1>1, OnlyParts
<1> QED
  BY <1>2, Zenon DEF Joined

\* Only() keeps nothing of a sequence none of whose entries it keeps, and nothing but
\* entries it keeps.
LEMMA OnlySingle ==
    ASSUME NEW T, NEW e \in T, NEW S
    PROVE  Only(<<e>>, S) = IF e \in S THEN <<e>> ELSE <<>>
<1>0. <<e>> \in Seq(T)
  OBVIOUS
<1>1. PICK s \in Seq(T) : s = <<e>>
  BY <1>0, Zenon
<1>2. PICK n : n = Len(s)
  OBVIOUS
<1>3. n = 1 /\ s[1] = e
  BY <1>1, <1>2
<1>4. PICK f : PrefixFunction(f, s, S, n) /\ Only(s, S) = f[n]
  BY <1>2, PrefixesExist
<1>5. Values(f, s, S, T \cap S, n)
  BY <1>2, <1>4, PrefixesValues
<1>6. f[0] = <<>> /\ f[1] = IF s[1] \in S THEN Append(f[0], s[1]) ELSE f[0]
  <2>1. 1 \in 1 .. n /\ 1 - 1 = 0
    BY <1>3
  <2> QED
    BY <1>5, <2>1 DEF Values
<1>7. f[1] = IF e \in S THEN Append(<<>>, e) ELSE <<>>
  BY <1>3, <1>6, Zenon
<1>8. Append(<<>>, e) = <<e>>
  OBVIOUS
<1> QED
  BY <1>1, <1>3, <1>4, <1>7, <1>8, Zenon

LEMMA OnlyEmpty == \A S : Only(<<>>, S) = <<>>
<1> TAKE S
<1>0. <<>> \in Seq(STRING)
  OBVIOUS
<1>1. PICK s \in Seq(STRING) : s = <<>>
  BY <1>0, Zenon
<1>2. PICK n : n = Len(s)
  OBVIOUS
<1>3. n = 0
  BY <1>1, <1>2
<1>4. PICK f : PrefixFunction(f, s, S, n) /\ Only(s, S) = f[n]
  BY <1>2, PrefixesExist
<1>5. Values(f, s, S, STRING \cap S, n)
  BY <1>2, <1>4, PrefixesValues
<1>6. f[0] = <<>>
  BY <1>5 DEF Values
<1> QED
  BY <1>1, <1>3, <1>4, <1>6
\* All of a sequence is kept, or none of it.
LEMMA OnlyAll ==
    ASSUME NEW T, NEW s \in Seq(T), NEW S, \A i \in 1 .. Len(s) : s[i] \in S
    PROVE  Only(s, S) = s
<1>0. PICK n \in Nat : n = Len(s)
  BY LenProperties
<1>1. PICK f : PrefixFunction(f, s, S, n) /\ Only(s, S) = f[n]
  BY <1>0, PrefixesExist
<1>2. Values(f, s, S, T \cap S, n)
  BY <1>0, <1>1, PrefixesValues
<1> DEFINE P == {i \in 0 .. n : f[i] = SubSeq(s, 1, i)}
<1>3. 0 \in P
  <2>1. f[0] = <<>> /\ SubSeq(s, 1, 0) = <<>>
    BY <1>2, SubSeqEmpty DEF Values
  <2>2. 0 \in 0 .. n
    BY <1>0
  <2> QED
    BY <2>1, <2>2, Zenon
<1>4. ASSUME NEW i \in 0 .. n - 1, i \in P PROVE i + 1 \in P
  <2>1. i + 1 \in 1 .. n /\ i + 1 \in 0 .. n /\ (i + 1) - 1 = i
    BY <1>0
  <2>2. f[i + 1] = Append(f[i], s[i + 1])
    BY <1>0, <1>2, <2>1 DEF Values
  <2>3. SubSeq(s, 1, i + 1) = Append(SubSeq(s, 1, i), s[i + 1])
    <3>1. PICK j : j = i + 1
      OBVIOUS
    <3>2. j \in 1 .. Len(s) /\ j - 1 = i
      BY <1>0, <2>1, <3>1
    <3>3. SubSeq(s, 1, j) = SubSeq(s, 1, j - 1) \o <<s[j]>>
      BY <3>2, SubSeqRecursiveSecond
    <3>4. SubSeq(s, 1, i) \in Seq(T) /\ s[j] \in T
      BY <1>0, <3>2, SubSeqProperties, ElementOfSeq
    <3>5. Append(SubSeq(s, 1, i), s[j]) = SubSeq(s, 1, i) \o <<s[j]>>
      BY <3>4, AppendIsConcat
    <3> QED
      BY <3>1, <3>2, <3>3, <3>5
  <2> QED
    BY <1>4, <2>1, <2>2, <2>3
<1>5. P = 0 .. n
  <2>1. P \in SUBSET (0 .. n)
    OBVIOUS
  <2> HIDE DEF P
  <2> QED
    BY <1>0, <1>3, <1>4, <2>1, UpTo
<1>6. n \in P
  BY <1>0, <1>5
<1> QED
  BY <1>0, <1>1, <1>6, SubSeqFull

LEMMA OnlyNone ==
    ASSUME NEW T, NEW s \in Seq(T), NEW S, \A i \in 1 .. Len(s) : s[i] \notin S
    PROVE  Only(s, S) = <<>>
<1>0. PICK n \in Nat : n = Len(s)
  BY LenProperties
<1>1. PICK f : PrefixFunction(f, s, S, n) /\ Only(s, S) = f[n]
  BY <1>0, PrefixesExist
<1>2. Values(f, s, S, T \cap S, n)
  BY <1>0, <1>1, PrefixesValues
<1> DEFINE P == {i \in 0 .. n : f[i] = <<>>}
<1>3. 0 \in P
  BY <1>0, <1>2 DEF Values
<1>4. ASSUME NEW i \in 0 .. n - 1, i \in P PROVE i + 1 \in P
  <2>1. i + 1 \in 1 .. n /\ i + 1 \in 0 .. n /\ (i + 1) - 1 = i
    BY <1>0
  <2>2. f[i + 1] = f[i]
    BY <1>0, <1>2, <2>1 DEF Values
  <2> QED
    BY <1>4, <2>1, <2>2
<1>5. P = 0 .. n
  <2>1. P \in SUBSET (0 .. n)
    OBVIOUS
  <2> HIDE DEF P
  <2> QED
    BY <1>0, <1>3, <1>4, <2>1, UpTo
<1>6. n \in P
  BY <1>0, <1>5
<1> QED
  BY <1>1, <1>6

\* A rule inserted in a sequence stands between two parts of it; so does one removed.
Between(s, a, e, b) == s = (a \o <<e>>) \o b

LEMMA InsertSplits ==
    ASSUME NEW T, NEW s \in Seq(T), NEW e \in T, NEW n \in 1 .. Len(s) + 1
    PROVE  \E a \in Seq(T) : \E b \in Seq(T) :
              Len(a) = n - 1 /\ Joined(s, a, b) /\ Between(InsertAt(s, n, e), a, e, b)
<1>0. Len(s) \in Nat /\ \A i \in 1 .. Len(s) : s[i] \in T
  BY LenProperties, ElementOfSeq
<1>1. PICK a : a = SubSeq(s, 1, n - 1)
  OBVIOUS
<1>2. PICK b : b = SubSeq(s, n, Len(s))
  OBVIOUS
<1>3. a \in Seq(T) /\ Len(a) = n - 1
  BY <1>0, <1>1, SubSeqProperties
<1>4. b \in Seq(T)
  BY <1>0, <1>2, SubSeqProperties
<1>5. Joined(s, a, b)
  <2>k. PICK k \in 1 - 1 .. Len(s) : k = n - 1
    BY <1>0
  <2>l. 1 \in 1 .. Len(s) + 1 /\ Len(s) \in k .. Len(s)
    BY <1>0, <2>k
  <2>1. SubSeq(s, 1, k) \o SubSeq(s, k + 1, Len(s)) = SubSeq(s, 1, Len(s))
    BY <2>k, <2>l, ConcatAdjacentSubSeq
  <2>2. k + 1 = n
    BY <2>k
  <2>3. SubSeq(s, 1, Len(s)) = s
    BY SubSeqFull
  <2> QED
    BY <1>1, <1>2, <2>k, <2>1, <2>2, <2>3, Zenon DEF Joined
<1>6. Between(InsertAt(s, n, e), a, e, b)
  BY <1>1, <1>2, Zenon DEF Between, InsertAt
<1> QED
  BY <1>3, <1>4, <1>5, <1>6, Zenon

LEMMA RemoveSplits ==
    ASSUME NEW T, NEW s \in Seq(T), NEW n \in 1 .. Len(s)
    PROVE  \E a \in Seq(T) : \E b \in Seq(T) :
              Len(a) = n - 1 /\ Between(s, a, s[n], b) /\ Joined(RemoveAt(s, n), a, b)
<1>0. Len(s) \in Nat /\ \A i \in 1 .. Len(s) : s[i] \in T
  BY LenProperties, ElementOfSeq
<1>1. PICK a : a = SubSeq(s, 1, n - 1)
  OBVIOUS
<1>2. PICK b : b = SubSeq(s, n + 1, Len(s))
  OBVIOUS
<1>3. a \in Seq(T) /\ Len(a) = n - 1
  BY <1>0, <1>1, SubSeqProperties
<1>4. b \in Seq(T)
  BY <1>0, <1>2, SubSeqProperties
<1>5. Between(s, a, s[n], b)
  <2>1. SubSeq(s, 1, n - 1) \o <<s[n]>> = SubSeq(s, 1, n)
    BY <1>0, SubSeqRecursiveSecond
  <2>2. SubSeq(s, 1, n) \o SubSeq(s, n + 1, Len(s)) = SubSeq(s, 1, Len(s))
    BY <1>0, ConcatAdjacentSubSeq
  <2>3. SubSeq(s, 1, Len(s)) = s
    BY SubSeqFull
  <2> QED
    BY <1>1, <1>2, <2>1, <2>2, <2>3, Zenon DEF Between
<1>6. Joined(RemoveAt(s, n), a, b)
  BY <1>1, <1>2, Zenon DEF Joined, RemoveAt
<1> QED
  BY <1>3, <1>4, <1>5, <1>6, Zenon

\* What Only() keeps of a sequence that has an entry between two parts, or has not.
LEMMA OnlyBetween ==
    ASSUME NEW T, NEW a \in Seq(T), NEW b \in Seq(T), NEW e \in T, NEW S,
           NEW s, Between(s, a, e, b)
    PROVE  \E c : Joined(Only(s, S), c, Only(b, S))
                   /\ Joined(c, Only(a, S), IF e \in S THEN <<e>> ELSE <<>>)
<1>0. <<e>> \in Seq(T)
  OBVIOUS
<1>1. PICK c \in Seq(T) : c = <<e>>
  BY <1>0, Zenon
<1>2. PICK d \in Seq(T) : Joined(d, a, c)
  <2>1. a \o c \in Seq(T)
    BY <1>1, ConcatProperties
  <2> QED
    BY <2>1, Zenon DEF Joined
<1>3. Joined(s, d, b)
  BY <1>1, <1>2, Zenon DEF Joined, Between
<1>4. Joined(Only(s, S), Only(d, S), Only(b, S))
  BY <1>2, <1>3, OnlyJoined
<1>5. Joined(Only(d, S), Only(a, S), Only(c, S))
  BY <1>1, <1>2, OnlyJoined
<1>6. Only(c, S) = IF e \in S THEN <<e>> ELSE <<>>
  BY <1>1, OnlySingle, Zenon
<1> QED
  BY <1>4, <1>5, <1>6, Zenon

\* An entry outside S makes no difference.
LEMMA OnlyOthersBetween ==
    ASSUME NEW T, NEW a \in Seq(T), NEW b \in Seq(T), NEW e \in T, NEW S, e \notin S,
           NEW s, NEW t, Between(s, a, e, b), Joined(t, a, b)
    PROVE  Only(s, S) = Only(t, S)
<1>1. PICK c : Joined(Only(s, S), c, Only(b, S)) /\ Joined(c, Only(a, S), <<>>)
  BY OnlyBetween, Zenon
<1>2. Joined(Only(t, S), Only(a, S), Only(b, S))
  BY OnlyJoined
<1>3. Only(a, S) \o <<>> = Only(a, S)
  <2>1. Only(a, S) \in Seq(T \cap S)
    BY OnlyType
  <2> QED
    BY <2>1, ConcatEmptySeq
<1> QED
  BY <1>1, <1>2, <1>3, Zenon DEF Joined

LEMMA OnlyInsert ==
    ASSUME NEW T, NEW s \in Seq(T), NEW e \in T, NEW n \in 1 .. Len(s) + 1, NEW S, e \notin S
    PROVE  Only(InsertAt(s, n, e), S) = Only(s, S)
BY InsertSplits, OnlyOthersBetween

LEMMA OnlyRemove ==
    ASSUME NEW T, NEW s \in Seq(T), NEW n \in 1 .. Len(s), NEW S, s[n] \notin S
    PROVE  Only(RemoveAt(s, n), S) = Only(s, S)
<1>1. s[n] \in T
  BY ElementOfSeq
<1> QED
  BY <1>1, RemoveSplits, OnlyOthersBetween

LEMMA OnlyAppended ==
    ASSUME NEW T, NEW s \in Seq(T), NEW e \in T, NEW S, e \notin S
    PROVE  Only(Append(s, e), S) = Only(s, S)
<1>1. PICK o \in Seq(T) : o = <<>>
  BY EmptySeq
<1>2. PICK t : t = Append(s, e)
  OBVIOUS
<1>3. Between(t, s, e, o) /\ Joined(s, s, o)
  BY <1>1, <1>2 DEF Between, Joined
<1>4. Only(t, S) = Only(s, S)
  BY <1>3, OnlyOthersBetween
<1> QED
  BY <1>2, <1>4

----------------------------------------------------------------------------
(* The commands of the programs, by what they may do.  *)

Op == {"-N", "-I", "-A", "-F", "-X", "-D", "-D rule", "mention", "lock", "unlock",
       "qdisc del", "class add", "class del", "link", "no link"}
CommandType ==
    [op : Op, on : Chain \cup {""}, at : Nat, to : Rule \cup {""}, must : BOOLEAN, skip : Nat]

\* Where the chains of fw_iptables.h are jumped to.
TopJump ==
    {<<"mangle PREROUTING", "mangle OUTGOING">>, <<"mangle PREROUTING", "mangle BLOCKED">>,
     <<"mangle PREROUTING", "mangle TRUSTED">>, <<"mangle POSTROUTING", "mangle INCOMING">>,
     <<"nat PREROUTING", "nat OUTGOING">>, <<"filter INPUT", "TO_ROUTER">>,
     <<"filter FORWARD", "TO_INTERNET">>}
InnerJump ==
    {<<"TO_ROUTER", "TRUSTED_TO_ROUTER">>, <<"TO_INTERNET", "TRUSTED">>,
     <<"TO_INTERNET", "AUTHENTICATED">>}
Made == (OwnChain \ {"mangle ALLOWED"}) \cup Imq

BuildCommand ==
    {cmd \in CommandType :
        \/ /\ cmd.op \in {"link", "no link"} /\ cmd.on \in Imq /\ cmd.skip = 4
           /\ cmd.on = "upload" => cmd.must
        \/ /\ cmd.skip = 0 /\ cmd.must
           /\ \/ cmd.op = "-N" /\ cmd.on \in Made
              \/ cmd.op = "-I" /\ cmd.at \in 1 .. 3 /\ <<cmd.on, cmd.to>> \in TopJump
              \/ cmd.op = "-A" /\ cmd.on \in OwnChain /\ cmd.to = "rule"
              \/ cmd.op = "-A" /\ <<cmd.on, cmd.to>> \in InnerJump
              \/ cmd.op = "class add" /\ cmd.on \in Imq /\ cmd.to \in {"class 1", "class 2"}}
DestroyCommand ==
    {cmd \in CommandType :
        /\ cmd.skip = 0
        /\ \/ cmd.op \in {"lock", "unlock", "link"}
           \/ cmd.op = "qdisc del" /\ cmd.on \in Imq
           \/ cmd.op = "mention" /\ cmd.on \in BuiltIn /\ cmd.to \in OwnChain
           \/ cmd.op \in {"-F", "-X"} /\ cmd.on \in OwnChain}
AccessCommand ==
    {cmd \in CommandType :
        /\ cmd.skip = 0
        /\ \/ cmd.op \in {"lock", "unlock"}
           \/ /\ cmd.op \in {"-A", "-D rule"} /\ cmd.to = "client"
              /\ cmd.on \in {"mangle OUTGOING", "mangle INCOMING"}
           \/ cmd.op \in {"class add", "class del"} /\ cmd.on \in Imq /\ cmd.to = "client"
           \/ cmd.op = "-A" /\ cmd.on \in Imq /\ cmd.to = "filter"}
MacCommands(chain) ==
    {cmd \in CommandType :
        /\ cmd.skip = 0
        /\ \/ cmd.op \in {"lock", "unlock"}
           \/ cmd.op = "-A" /\ cmd.on = chain /\ cmd.to = "mac"}

LEMMA JumpTypes ==
    /\ \A d, e : <<d, e>> \in TopJump => d \in BuiltIn /\ e \in OwnChain \cap Made
    /\ \A d, e : <<d, e>> \in InnerJump => d \in OwnChain /\ e \in OwnChain \cap Made
BY DEF TopJump, InnerJump, BuiltIn, Made, OwnChain, MangleChain, FilterChain

\* What the programs consist of.
LEMMA CommandTypes ==
    ASSUME NEW c
    PROVE  /\ Lock \in DestroyCommand /\ Unlock \in DestroyCommand
           /\ Lock \in AccessCommand /\ Unlock \in AccessCommand
           /\ \A chain : Lock \in MacCommands(chain) /\ Unlock \in MacCommands(chain)
           /\ \A chain \in Made : New(chain) \in BuildCommand
           /\ \A n \in 1 .. 3 : \A d, e : <<d, e>> \in TopJump => Insert(d, n, e) \in BuildCommand
           /\ \A chain \in OwnChain : AppendRule(chain, "rule") \in BuildCommand
           /\ \A d, e : <<d, e>> \in InnerJump => AppendRule(d, e) \in BuildCommand
           /\ \A dev \in Imq : /\ Class(dev, "class 1") \in BuildCommand
                               /\ Class(dev, "class 2") \in BuildCommand
                               /\ LinkUp(c, dev) \in BuildCommand
<1> USE DEF CommandType, Command, Unchecked, Op, Chain, Rule, OwnRule
<1>1. Lock \in DestroyCommand /\ Unlock \in DestroyCommand
  BY DEF Lock, Unlock, DestroyCommand
<1>2. Lock \in AccessCommand /\ Unlock \in AccessCommand
  BY DEF Lock, Unlock, AccessCommand
<1>3. \A chain : Lock \in MacCommands(chain) /\ Unlock \in MacCommands(chain)
  BY DEF Lock, Unlock, MacCommands
<1>4. \A chain \in Made : New(chain) \in BuildCommand
  BY DEF New, BuildCommand, Made, OwnChain, MangleChain, FilterChain, Imq
<1>5. \A n \in 1 .. 3 : \A d, e : <<d, e>> \in TopJump => Insert(d, n, e) \in BuildCommand
  <2> SUFFICES ASSUME NEW n \in 1 .. 3, NEW d, NEW e, <<d, e>> \in TopJump
               PROVE  Insert(d, n, e) \in BuildCommand
    OBVIOUS
  <2>1. d \in Chain /\ e \in Rule
    BY JumpTypes
  <2>2. PICK cmd : cmd = [op |-> "-I", on |-> d, at |-> n, to |-> e, must |-> TRUE, skip |-> 0]
    OBVIOUS
  <2>3. cmd \in CommandType
    <3>1. "-I" \in Op
      OBVIOUS
    <3>2. n \in Nat
      OBVIOUS
    <3>3. d \in Chain \cup {""} /\ e \in Rule \cup {""}
      BY <2>1
    <3> HIDE DEF Chain, Rule, Op
    <3> QED
      BY <2>2, <3>1, <3>2, <3>3
  <2>4. cmd.op = "-I" /\ cmd.at = n /\ cmd.on = d /\ cmd.to = e /\ cmd.must = TRUE /\ cmd.skip = 0
    BY <2>2
  <2>5. cmd \in BuildCommand
    BY <2>3, <2>4 DEF BuildCommand
  <2> QED
    BY <2>2, <2>5 DEF Insert
<1>6. \A chain \in OwnChain : AppendRule(chain, "rule") \in BuildCommand
  BY ZenonT(40) DEF AppendRule, BuildCommand, OwnChain, MangleChain, FilterChain
<1>7. \A d, e : <<d, e>> \in InnerJump => AppendRule(d, e) \in BuildCommand
  BY ZenonT(40) DEF AppendRule, BuildCommand, InnerJump, OwnChain, FilterChain
<1>8. \A dev \in Imq : /\ Class(dev, "class 1") \in BuildCommand
                       /\ Class(dev, "class 2") \in BuildCommand
  BY DEF Class, BuildCommand, Imq
<1>9. \A dev \in Imq : LinkUp(c, dev) \in BuildCommand
  BY DEF LinkUp, BuildCommand, Imq
<1> QED
  BY <1>1, <1>2, <1>3, <1>4, <1>5, <1>6, <1>7, <1>8, <1>9
LEMMA ConcatType ==
    \A S : \A s, t : s \in Seq(S) /\ t \in Seq(S) => s \o t \in Seq(S)
BY ConcatProperties

LEMMA TupleType ==
    /\ \A S : \A a \in S : <<a>> \in Seq(S)
    /\ \A S : \A a, b \in S : <<a, b>> \in Seq(S)
    /\ \A S : \A a, b, c \in S : <<a, b, c>> \in Seq(S)
    /\ \A S : \A a, b, c, d, e, f, g \in S : <<a, b, c, d, e, f, g>> \in Seq(S)
    /\ \A S : \A a, b, c, d, e, f, g, h \in S : <<a, b, c, d, e, f, g, h>> \in Seq(S)
OBVIOUS

LEMMA WhenType == \A S, b, s : s \in Seq(S) => When(b, s) \in Seq(S)
BY EmptySeq DEF When

LEMMA BuildType ==
    ASSUME NEW c
    PROVE  /\ MangleInit(c) \in Seq(BuildCommand) /\ NatInit(c) \in Seq(BuildCommand)
           /\ RouterInit(c) \in Seq(BuildCommand) /\ InternetInit(c) \in Seq(BuildCommand)
<1> DEFINE S == Seq(BuildCommand)
<1>c. \A s, t : s \in S /\ t \in S => s \o t \in S
  BY ConcatType
<1>w. \A b, s : s \in S => When(b, s) \in S
  BY WhenType
<1>n. /\ \A chain \in Made : New(chain) \in BuildCommand
      /\ \A chain \in OwnChain : AppendRule(chain, "rule") \in BuildCommand
      /\ \A dev \in Imq : Class(dev, "class 1") \in BuildCommand
      /\ \A dev \in Imq : Class(dev, "class 2") \in BuildCommand
      /\ \A dev \in Imq : LinkUp(c, dev) \in BuildCommand
      /\ \A d, e : <<d, e>> \in InnerJump => AppendRule(d, e) \in BuildCommand
  BY CommandTypes, Zenon
<1>i. \A d, e : <<d, e>> \in TopJump =>
        /\ Insert(d, 1, e) \in BuildCommand
        /\ Insert(d, 2, e) \in BuildCommand
        /\ Insert(d, 3, e) \in BuildCommand
  <2>1. 1 \in 1 .. 3 /\ 2 \in 1 .. 3 /\ 3 \in 1 .. 3
    OBVIOUS
  <2> QED
    BY <2>1, CommandTypes, Zenon
<1>r. \A chain \in OwnChain : <<AppendRule(chain, "rule")>> \in S
  BY <1>n, TupleType, Zenon
<1>o. /\ \A chain \in MangleChain \cup {"nat OUTGOING"} \cup FilterChain : chain \in OwnChain
      /\ \A chain \in OwnChain \ {"mangle ALLOWED"} : chain \in Made
  BY DEF OwnChain, Made
<1>a. \A set : \A chain \in OwnChain : _iptables_append_ruleset(c, set, chain) \in S
  BY <1>r, <1>w DEF _iptables_append_ruleset
<1>j. \A d, e, set : <<d, e>> \in InnerJump => JumpOrPolicy(c, d, set, e) \in S
  <2> SUFFICES ASSUME NEW d, NEW e, NEW set, <<d, e>> \in InnerJump
               PROVE  JumpOrPolicy(c, d, set, e) \in S
    OBVIOUS
  <2>1. d \in OwnChain /\ e \in OwnChain
    BY JumpTypes
  <2>2. <<AppendRule(d, e), AppendRule(e, "rule")>> \in S
    BY <2>1, <1>n, TupleType, Zenon
  <2>3. <<AppendRule(d, "rule")>> \in S /\ <<AppendRule(e, "rule")>> \in S
    BY <2>1, <1>r
  <2>4. _iptables_append_ruleset(c, set, e) \in S
    BY <2>1, <1>a
  <2> HIDE DEF S
  <2> QED
    BY <1>c, <2>2, <2>3, <2>4 DEF JumpOrPolicy
<1>1. MangleInit(c) \in S
  <2>1. <<New("mangle TRUSTED"), New("mangle BLOCKED"), New("mangle INCOMING"),
          New("mangle OUTGOING"), Insert("mangle PREROUTING", 1, "mangle OUTGOING"),
          Insert("mangle PREROUTING", 2, "mangle BLOCKED"),
          Insert("mangle PREROUTING", 3, "mangle TRUSTED"),
          Insert("mangle POSTROUTING", 1, "mangle INCOMING")>> \in S
    <3>1. \A chain \in {"mangle TRUSTED", "mangle BLOCKED", "mangle INCOMING",
                        "mangle OUTGOING"} : New(chain) \in BuildCommand
      BY CommandTypes DEF Made, OwnChain, MangleChain
    <3>2. /\ Insert("mangle PREROUTING", 1, "mangle OUTGOING") \in BuildCommand
          /\ Insert("mangle PREROUTING", 2, "mangle BLOCKED") \in BuildCommand
          /\ Insert("mangle PREROUTING", 3, "mangle TRUSTED") \in BuildCommand
          /\ Insert("mangle POSTROUTING", 1, "mangle INCOMING") \in BuildCommand
      <4>1. /\ <<"mangle PREROUTING", "mangle OUTGOING">> \in TopJump
            /\ <<"mangle PREROUTING", "mangle BLOCKED">> \in TopJump
            /\ <<"mangle PREROUTING", "mangle TRUSTED">> \in TopJump
            /\ <<"mangle POSTROUTING", "mangle INCOMING">> \in TopJump
        BY DEF TopJump
      <4> QED
        BY <4>1, <1>i, Zenon
    <3> QED
      BY <3>1, <3>2, TupleType, Zenon
  <2>2. \A dev \in Imq : tc_attach_qdisc(dev) \in S
    <3>1. \A dev \in Imq : dev \in Made
      BY DEF Made
    <3> QED
      BY <3>1, <1>n, TupleType, Zenon DEF tc_attach_qdisc
  <2>3. /\ <<LinkUp(c, "download"), AppendRule("mangle INCOMING", "rule")>> \in S
        /\ <<LinkUp(c, "upload"), AppendRule("mangle OUTGOING", "rule")>> \in S
    <3>1. /\ "download" \in Imq /\ "upload" \in Imq
          /\ "mangle INCOMING" \in OwnChain /\ "mangle OUTGOING" \in OwnChain
      BY DEF Imq, OwnChain, MangleChain
    <3> QED
      BY <3>1, <1>n, TupleType, Zenon
  <2>4. tc_init_tc(c) \in S
    <3>1. tc_attach_qdisc("download") \in S /\ tc_attach_qdisc("upload") \in S
      BY <2>2 DEF Imq
    <3> HIDE DEF S
    <3> QED
      BY <1>c, <1>w, <2>3, <3>1 DEF tc_init_tc
  <2>5. /\ <<AppendRule("mangle TRUSTED", "rule")>> \in S
        /\ <<AppendRule("mangle BLOCKED", "rule")>> \in S
    BY <1>r, <1>o DEF MangleChain
  <2> HIDE DEF S
  <2> QED
    BY <1>c, <1>w, <2>1, <2>4, <2>5 DEF MangleInit
<1>2. NatInit(c) \in S
  <2>1. <<New("nat OUTGOING"), Insert("nat PREROUTING", 1, "nat OUTGOING"),
          AppendRule("nat OUTGOING", "rule")>> \in S
    <3>1. New("nat OUTGOING") \in BuildCommand /\ AppendRule("nat OUTGOING", "rule") \in BuildCommand
      BY CommandTypes DEF Made, OwnChain, MangleChain
    <3>2. Insert("nat PREROUTING", 1, "nat OUTGOING") \in BuildCommand
      <4>1. <<"nat PREROUTING", "nat OUTGOING">> \in TopJump
        BY DEF TopJump
      <4> QED
        BY <4>1, <1>i, Zenon
    <3> QED
      BY <3>1, <3>2, TupleType, Zenon
  <2>2. <<AppendRule("nat OUTGOING", "rule")>> \in S
    BY <1>r, <1>o
  <2>3. _iptables_append_ruleset(c, "preauthenticated-users", "nat OUTGOING") \in S
    BY <1>a, <1>o
  <2> HIDE DEF S
  <2> QED
    BY <1>c, <2>1, <2>2, <2>3 DEF NatInit
<1>3. RouterInit(c) \in S
  <2>1. <<New("TO_INTERNET"), New("TO_ROUTER"), New("AUTHENTICATED"), New("TRUSTED"),
          New("TRUSTED_TO_ROUTER"), Insert("filter INPUT", 1, "TO_ROUTER"),
          AppendRule("TO_ROUTER", "rule")>> \in S
    <3>1. \A chain \in FilterChain : New(chain) \in BuildCommand
      BY CommandTypes DEF Made, OwnChain, FilterChain
    <3>2. Insert("filter INPUT", 1, "TO_ROUTER") \in BuildCommand
      <4>1. <<"filter INPUT", "TO_ROUTER">> \in TopJump
        BY DEF TopJump
      <4> QED
        BY <4>1, <1>i, Zenon
    <3>3. AppendRule("TO_ROUTER", "rule") \in BuildCommand
      BY CommandTypes DEF OwnChain, FilterChain
    <3>4. \A chain \in {"TO_INTERNET", "TO_ROUTER", "AUTHENTICATED", "TRUSTED",
                          "TRUSTED_TO_ROUTER"} : New(chain) \in BuildCommand
      BY <3>1 DEF FilterChain
    <3> QED
      BY <3>2, <3>3, <3>4, TupleType, Zenon
  <2>2. <<AppendRule("TO_ROUTER", "rule")>> \in S
    BY <1>r, <1>o DEF FilterChain
  <2>3. JumpOrPolicy(c, "TO_ROUTER", "trusted-users-to-router", "TRUSTED_TO_ROUTER") \in S
    BY <1>j DEF InnerJump
  <2>4. _iptables_append_ruleset(c, "users-to-router", "TO_ROUTER") \in S
    BY <1>a, <1>o DEF FilterChain
  <2> HIDE DEF S
  <2> QED
    BY <1>c, <2>1, <2>2, <2>3, <2>4 DEF RouterInit
<1>4. InternetInit(c) \in S
  <2>1. <<Insert("filter FORWARD", 1, "TO_INTERNET"), AppendRule("TO_INTERNET", "rule")>> \in S
    <3>1. AppendRule("TO_INTERNET", "rule") \in BuildCommand
      BY CommandTypes DEF OwnChain, FilterChain
    <3>2. Insert("filter FORWARD", 1, "TO_INTERNET") \in BuildCommand
      <4>1. <<"filter FORWARD", "TO_INTERNET">> \in TopJump
        BY DEF TopJump
      <4> QED
        BY <4>1, <1>i, Zenon
    <3> QED
      BY <3>1, <3>2, TupleType, Zenon
  <2>2. <<AppendRule("TO_INTERNET", "rule")>> \in S
    BY <1>r, <1>o DEF FilterChain
  <2>3. /\ JumpOrPolicy(c, "TO_INTERNET", "trusted-users", "TRUSTED") \in S
        /\ JumpOrPolicy(c, "TO_INTERNET", "authenticated-users", "AUTHENTICATED") \in S
    BY <1>j DEF InnerJump
  <2> HIDE DEF S
  <2> QED
    BY <1>c, <1>w, <2>1, <2>2, <2>3 DEF InternetInit
<1> QED
  BY <1>1, <1>2, <1>3, <1>4
----------------------------------------------------------------------------
(* The order of the commands that clean up.  *)

Has(s, cmd) == \E i \in 1 .. Len(s) : s[i] = cmd
HasBefore(s, j, cmd) == \E i \in 1 .. Len(s) : i < j /\ s[i] = cmd

\* A chain is deleted after it was flushed, the rules that jump to it were deleted, and
\* the chains that jump to it were flushed.
Prepared(s, j, e) ==
    /\ HasBefore(s, j, Flush(e))
    /\ \A d : <<d, e>> \in TopJump => HasBefore(s, j, Unmention(d, e))
    /\ \A d : <<d, e>> \in InnerJump => HasBefore(s, j, Flush(d))
CleansUp(s) == \A j \in 1 .. Len(s) : s[j].op = "-X" => Prepared(s, j, s[j].on)

LEMMA CleansUpJoined ==
    ASSUME NEW T, NEW s \in Seq(T), NEW t \in Seq(T), NEW u, Joined(u, s, t)
    PROVE  /\ CleansUp(s) /\ CleansUp(t) => CleansUp(u)
           /\ \A cmd : Has(s, cmd) => Has(u, cmd)
           /\ \A cmd : Has(t, cmd) => Has(u, cmd)
<1>1. PICK m, n : m = Len(s) /\ n = Len(t)
  OBVIOUS
<1>2. Parts(u, s, t, m, n)
  BY <1>1, JoinedParts
<1>3. /\ m \in Nat /\ n \in Nat /\ m = Len(s) /\ n = Len(t) /\ m + n = Len(u)
      /\ \A i \in 1 .. m : u[i] = s[i]
      /\ \A i \in 1 .. n : u[m + i] = t[i]
  BY <1>2 DEF Parts
<1>4. \A j, cmd : HasBefore(s, j, cmd) => HasBefore(u, j, cmd)
  BY <1>3 DEF HasBefore
<1>5. \A j \in 1 .. n : \A cmd : HasBefore(t, j, cmd) => HasBefore(u, m + j, cmd)
  <2> SUFFICES ASSUME NEW j \in 1 .. n, NEW cmd, HasBefore(t, j, cmd)
               PROVE  HasBefore(u, m + j, cmd)
    OBVIOUS
  <2>1. PICK i \in 1 .. n : i < j /\ t[i] = cmd
    BY <1>3 DEF HasBefore
  <2>2. m + i \in 1 .. m + n /\ m + i < m + j /\ u[m + i] = cmd
    BY <1>3, <2>1
  <2> QED
    BY <1>3, <2>2 DEF HasBefore
<1>6. \A cmd : Has(s, cmd) => Has(u, cmd)
  BY <1>3 DEF Has
<1>7. \A cmd : Has(t, cmd) => Has(u, cmd)
  <2> SUFFICES ASSUME NEW cmd, Has(t, cmd) PROVE Has(u, cmd)
    OBVIOUS
  <2>1. PICK i \in 1 .. n : t[i] = cmd
    BY <1>3 DEF Has
  <2>2. m + i \in 1 .. m + n /\ u[m + i] = cmd
    BY <1>3, <2>1
  <2> QED
    BY <1>3, <2>2 DEF Has
<1>8. ASSUME CleansUp(s), CleansUp(t) PROVE CleansUp(u)
  <2> SUFFICES ASSUME NEW j \in 1 .. Len(u), u[j].op = "-X" PROVE Prepared(u, j, u[j].on)
    BY DEF CleansUp
  <2>1. CASE j \in 1 .. m
    <3>1. u[j] = s[j] /\ Prepared(s, j, s[j].on)
      BY <1>3, <1>8, <2>1 DEF CleansUp
    <3> QED
      BY <1>4, <3>1, Zenon DEF Prepared
  <2>2. CASE j \notin 1 .. m
    <3>1. PICK k \in 1 .. n : j = m + k
      <4>1. j - m \in 1 .. n /\ j = m + (j - m)
        BY <1>3, <2>2
      <4> QED
        BY <4>1
    <3>2. u[j] = t[k] /\ Prepared(t, k, t[k].on)
      BY <1>3, <1>8, <3>1 DEF CleansUp
    <3> QED
      BY <1>5, <3>1, <3>2, Zenon DEF Prepared
  <2> QED
    BY <2>1, <2>2
<1> QED
  BY <1>6, <1>7, <1>8

\* The commands for all chains of a table.
LEMMA FlushAllType ==
    ASSUME NEW order \in Seq(OwnChain)
    PROVE  /\ FlushAll(order) \in Seq(DestroyCommand) /\ RemoveAll(order) \in Seq(DestroyCommand)
           /\ Len(FlushAll(order)) = Len(order) /\ Len(RemoveAll(order)) = Len(order)
           /\ \A i \in 1 .. Len(order) :
                 FlushAll(order)[i] = Flush(order[i]) /\ RemoveAll(order)[i] = DeleteChain(order[i])
<1>1. DOMAIN order = 1 .. Len(order) /\ Len(order) \in Nat
      /\ \A i \in 1 .. Len(order) : order[i] \in OwnChain
  BY LenProperties, ElementOfSeq
<1>2. \A e \in OwnChain : Flush(e) \in DestroyCommand /\ DeleteChain(e) \in DestroyCommand
  BY DEF Flush, DeleteChain, DestroyCommand, CommandType, Command, Unchecked, Op, Chain
<1>3. FlushAll(order) \in Seq(DestroyCommand) /\ Len(FlushAll(order)) = Len(order)
  <2> DEFINE f == [i \in 1 .. Len(order) |-> Flush(order[i])]
  <2>1. FlushAll(order) = f
    BY <1>1 DEF FlushAll
  <2>2. f \in [1 .. Len(order) -> DestroyCommand]
    BY <1>1, <1>2
  <2> HIDE DEF f
  <2>3. f \in Seq(DestroyCommand) /\ Len(f) = Len(order)
    BY <1>1, <2>2
  <2> QED
    BY <2>1, <2>3
<1>4. RemoveAll(order) \in Seq(DestroyCommand) /\ Len(RemoveAll(order)) = Len(order)
  <2> DEFINE f == [i \in 1 .. Len(order) |-> DeleteChain(order[i])]
  <2>1. RemoveAll(order) = f
    BY <1>1 DEF RemoveAll
  <2>2. f \in [1 .. Len(order) -> DestroyCommand]
    BY <1>1, <1>2
  <2> HIDE DEF f
  <2>3. f \in Seq(DestroyCommand) /\ Len(f) = Len(order)
    BY <1>1, <2>2
  <2> QED
    BY <2>1, <2>3
<1>5. \A i \in 1 .. Len(order) :
         FlushAll(order)[i] = Flush(order[i]) /\ RemoveAll(order)[i] = DeleteChain(order[i])
  BY <1>1 DEF FlushAll, RemoveAll
<1> QED
  BY <1>3, <1>4, <1>5
\* One table: its jumps, then its chains.
LEMMA TableCleansUp ==
    ASSUME NEW mentions \in Seq(DestroyCommand),
           \A i \in 1 .. Len(mentions) : mentions[i].op # "-X",
           NEW order \in Seq(OwnChain),
           \A i \in 1 .. Len(order) : \A d :
              /\ <<d, order[i]>> \in TopJump => Has(mentions, Unmention(d, order[i]))
              /\ <<d, order[i]>> \in InnerJump => \E k \in 1 .. Len(order) : order[k] = d,
           NEW all, NEW flushed, Joined(flushed, mentions, FlushAll(order)),
           Joined(all, flushed, RemoveAll(order))
    PROVE  /\ all \in Seq(DestroyCommand)
           /\ CleansUp(all)
           /\ \A cmd : Has(mentions, cmd) => Has(all, cmd)
           /\ \A i \in 1 .. Len(order) : Has(all, DeleteChain(order[i]))
<1>f. PICK f : f = FlushAll(order)
  OBVIOUS
<1>r. PICK r : r = RemoveAll(order)
  OBVIOUS
<1>m. PICK m, n : m = Len(mentions) /\ n = Len(order)
  OBVIOUS
<1>0. /\ m \in Nat /\ n \in Nat /\ f \in Seq(DestroyCommand) /\ r \in Seq(DestroyCommand)
      /\ Len(f) = n /\ Len(r) = n
      /\ \A i \in 1 .. n : f[i] = Flush(order[i]) /\ r[i] = DeleteChain(order[i])
  BY <1>f, <1>r, <1>m, FlushAllType, LenProperties
<1>1. flushed \in Seq(DestroyCommand) /\ Parts(flushed, mentions, f, m, n)
  BY <1>0, <1>f, <1>m, JoinedParts
<1>2. /\ Len(flushed) = m + n
      /\ \A i \in 1 .. m : flushed[i] = mentions[i]
      /\ \A i \in 1 .. n : flushed[m + i] = f[i]
  BY <1>1 DEF Parts
<1>3. all \in Seq(DestroyCommand) /\ Parts(all, flushed, r, m + n, n)
  BY <1>0, <1>1, <1>2, <1>r, JoinedParts
<1>4. /\ Len(all) = (m + n) + n
      /\ \A i \in 1 .. m + n : all[i] = flushed[i]
      /\ \A i \in 1 .. n : all[(m + n) + i] = r[i]
  BY <1>3 DEF Parts
<1>5. /\ \A i \in 1 .. m : all[i] = mentions[i]
      /\ \A i \in 1 .. n : all[m + i] = Flush(order[i])
      /\ \A i \in 1 .. n : all[(m + n) + i] = DeleteChain(order[i])
  <2>1. \A i \in 1 .. m : i \in 1 .. m + n
    BY <1>0
  <2>2. \A i \in 1 .. n : m + i \in 1 .. m + n
    BY <1>0
  <2>3. \A i \in 1 .. m : all[i] = mentions[i]
    BY <1>2, <1>4, <2>1
  <2>4. \A i \in 1 .. n : all[m + i] = flushed[m + i]
    BY <1>4, <2>2
  <2>5. \A i \in 1 .. n : all[m + i] = Flush(order[i])
    BY <1>0, <1>2, <2>4
  <2>6. \A i \in 1 .. n : all[(m + n) + i] = DeleteChain(order[i])
    BY <1>0, <1>4
  <2> QED
    BY <2>3, <2>5, <2>6
<1>6. \A cmd : Has(mentions, cmd) => Has(all, cmd)
  BY <1>0, <1>4, <1>5, <1>m DEF Has
<1>7. \A i \in 1 .. n : Has(all, DeleteChain(order[i]))
  <2> SUFFICES ASSUME NEW i \in 1 .. n PROVE Has(all, DeleteChain(order[i]))
    OBVIOUS
  <2>1. (m + n) + i \in 1 .. Len(all)
    BY <1>0, <1>4
  <2> QED
    BY <1>5, <2>1 DEF Has
<1>8. CleansUp(all)
  <2> SUFFICES ASSUME NEW j \in 1 .. Len(all), all[j].op = "-X" PROVE Prepared(all, j, all[j].on)
    BY DEF CleansUp
  <2>1. j > m + n
    <3>1. ASSUME j \in 1 .. m PROVE FALSE
      BY <1>5, <1>m, <3>1
    <3>2. ASSUME NEW i \in 1 .. n, j = m + i PROVE FALSE
      BY <1>5, <3>2 DEF Flush, Unchecked, Command
    <3>3. ~(j \in m + 1 .. m + n)
      <4> SUFFICES ASSUME j \in m + 1 .. m + n PROVE FALSE
        OBVIOUS
      <4>1. j - m \in 1 .. n /\ j = m + (j - m)
        BY <1>0
      <4> QED
        BY <3>2, <4>1
    <3> QED
      BY <1>0, <1>4, <3>1, <3>3
  <2>2. PICK k \in 1 .. n : all[j] = DeleteChain(order[k])
    <3>1. j - (m + n) \in 1 .. n /\ j = (m + n) + (j - (m + n))
      BY <1>0, <1>4, <2>1
    <3> QED
      BY <1>5, <3>1
  <2>3. all[j].on = order[k]
    BY <2>2 DEF DeleteChain, Unchecked, Command
  <2>4. \A i \in 1 .. n : HasBefore(all, j, Flush(order[i]))
    <3> SUFFICES ASSUME NEW i \in 1 .. n PROVE HasBefore(all, j, Flush(order[i]))
      OBVIOUS
    <3>1. m + i \in 1 .. Len(all) /\ m + i < j
      BY <1>0, <1>4, <2>1
    <3> QED
      BY <1>5, <3>1 DEF HasBefore
  <2>5. \A cmd : Has(mentions, cmd) => HasBefore(all, j, cmd)
    <3> SUFFICES ASSUME NEW cmd, Has(mentions, cmd) PROVE HasBefore(all, j, cmd)
      OBVIOUS
    <3>1. PICK i \in 1 .. m : mentions[i] = cmd
      BY <1>m DEF Has
    <3>2. i \in 1 .. Len(all) /\ i < j
      BY <1>0, <1>4, <2>1
    <3> QED
      BY <1>5, <3>1, <3>2 DEF HasBefore
  <2>6. \A d : <<d, order[k]>> \in TopJump => HasBefore(all, j, Unmention(d, order[k]))
    BY <1>m, <2>5, Zenon
  <2>7. \A d : <<d, order[k]>> \in InnerJump => HasBefore(all, j, Flush(d))
    BY <1>m, <2>4, Zenon
  <2>8. Prepared(all, j, order[k])
    BY <2>4, <2>6, <2>7, Zenon DEF Prepared
  <2> QED
    BY <2>3, <2>8, Zenon
<1> QED
  BY <1>3, <1>6, <1>7, <1>8, <1>m
LEMMA FunctionSeq ==
    \A S : \A n \in Nat : \A f \in [1 .. n -> S] : f \in Seq(S) /\ Len(f) = n
OBVIOUS

LEMMA MangleCleansUp ==
    /\ MangleDestroy \in Seq(DestroyCommand) /\ CleansUp(MangleDestroy)
    /\ \A e \in MangleChain : Has(MangleDestroy, DeleteChain(e))
    /\ \A d, e : <<d, e>> \in TopJump /\ e \in MangleChain => Has(MangleDestroy, Unmention(d, e))
<1>u. \A d \in BuiltIn : \A e \in OwnChain : Unmention(d, e) \in DestroyCommand
  BY DEF Unmention, DestroyCommand, CommandType, Command, Op, Chain, Rule, OwnRule
<1>o. /\ MangleOrder \in Seq(OwnChain) /\ Len(MangleOrder) = 5
      /\ \A i \in 1 .. 5 : MangleOrder[i] \in MangleChain
      /\ \A e \in MangleChain : \E i \in 1 .. 5 : MangleOrder[i] = e
  <2>1. MangleOrder \in Seq(OwnChain)
    BY DEF MangleOrder, OwnChain, MangleChain
  <2>2. /\ MangleOrder[1] = "mangle TRUSTED" /\ MangleOrder[2] = "mangle BLOCKED"
        /\ MangleOrder[3] = "mangle ALLOWED" /\ MangleOrder[4] = "mangle OUTGOING"
        /\ MangleOrder[5] = "mangle INCOMING" /\ Len(MangleOrder) = 5
    BY DEF MangleOrder
  <2>3. \A i \in 1 .. 5 : i = 1 \/ i = 2 \/ i = 3 \/ i = 4 \/ i = 5
    OBVIOUS
  <2>4. \A i \in 1 .. 5 : MangleOrder[i] \in MangleChain
    BY <2>2, <2>3 DEF MangleChain
  <2>5. 1 \in 1 .. 5 /\ 2 \in 1 .. 5 /\ 3 \in 1 .. 5 /\ 4 \in 1 .. 5 /\ 5 \in 1 .. 5
    OBVIOUS
  <2>6. \A e \in MangleChain : \E i \in 1 .. 5 : MangleOrder[i] = e
    <3> SUFFICES ASSUME NEW e \in MangleChain PROVE \E i \in 1 .. 5 : MangleOrder[i] = e
      OBVIOUS
    <3>1. \/ e = "mangle TRUSTED" \/ e = "mangle BLOCKED" \/ e = "mangle ALLOWED"
          \/ e = "mangle OUTGOING" \/ e = "mangle INCOMING"
      BY DEF MangleChain
    <3> QED
      BY <2>2, <2>5, <3>1, Zenon
  <2> QED
    BY <2>1, <2>2, <2>4, <2>6
<1>a. PICK a \in Seq(DestroyCommand) :
         /\ a = [i \in 1 .. 4 |-> Unmention("mangle PREROUTING", MangleOrder[i])]
         /\ Len(a) = 4
         /\ \A i \in 1 .. 4 : a[i] = Unmention("mangle PREROUTING", MangleOrder[i])
  <2> DEFINE f == [i \in 1 .. 4 |-> Unmention("mangle PREROUTING", MangleOrder[i])]
  <2>1. \A i \in 1 .. 4 : Unmention("mangle PREROUTING", MangleOrder[i]) \in DestroyCommand
    <3>1. \A i \in 1 .. 4 : i \in 1 .. 5
      OBVIOUS
    <3>2. "mangle PREROUTING" \in BuiltIn /\ \A e \in MangleChain : e \in OwnChain
      BY DEF BuiltIn, OwnChain
    <3> QED
      BY <1>o, <1>u, <3>1, <3>2, Zenon
  <2>2. f \in [1 .. 4 -> DestroyCommand]
    BY <2>1
  <2>3. \A i \in 1 .. 4 : f[i] = Unmention("mangle PREROUTING", MangleOrder[i])
    OBVIOUS
  <2> HIDE DEF f
  <2>4. f \in Seq(DestroyCommand) /\ Len(f) = 4
    <3>1. 4 \in Nat
      OBVIOUS
    <3> QED
      BY <2>2, <3>1, FunctionSeq, Zenon
  <2> QED
    BY <2>3, <2>4, Zenon DEF f
<1>b. PICK b \in Seq(DestroyCommand) :
         /\ b = <<Unmention("mangle POSTROUTING", "mangle INCOMING")>>
         /\ Len(b) = 1 /\ b[1] = Unmention("mangle POSTROUTING", "mangle INCOMING")
  <2>1. Unmention("mangle POSTROUTING", "mangle INCOMING") \in DestroyCommand
    BY <1>u DEF BuiltIn, OwnChain, MangleChain
  <2>2. <<Unmention("mangle POSTROUTING", "mangle INCOMING")>> \in Seq(DestroyCommand)
    BY <2>1, TupleType, Zenon
  <2> QED
    BY <2>2
<1>m. PICK m : m = MangleMentions
  OBVIOUS
<1>1. Joined(m, a, b)
  BY <1>a, <1>b, <1>m, Zenon DEF Joined, MangleMentions
<1>2. m \in Seq(DestroyCommand) /\ Parts(m, a, b, 4, 1)
  BY <1>1, <1>a, <1>b, JoinedParts, ZenonT(40)
<1>3. /\ Len(m) = 5
      /\ \A i \in 1 .. 4 : m[i] = Unmention("mangle PREROUTING", MangleOrder[i])
      /\ m[5] = Unmention("mangle POSTROUTING", "mangle INCOMING")
  <2>1. 4 + 1 = 5 /\ 1 \in 1 .. 1
    OBVIOUS
  <2> QED
    BY <1>2, <1>a, <1>b, <2>1 DEF Parts
<1>4. \A i \in 1 .. Len(m) : m[i].op # "-X"
  <2>1. \A i \in 1 .. 5 : i \in 1 .. 4 \/ i = 5
    OBVIOUS
  <2>2. \A d, e : Unmention(d, e).op = "mention"
    BY DEF Unmention, Command
  <2> QED
    BY <1>3, <2>1, <2>2
<1>5. \A d, e : <<d, e>> \in TopJump /\ e \in MangleChain => Has(m, Unmention(d, e))
  <2> SUFFICES ASSUME NEW d, NEW e, <<d, e>> \in TopJump, e \in MangleChain
               PROVE  Has(m, Unmention(d, e))
    OBVIOUS
  <2>1. \/ d = "mangle PREROUTING"
           /\ e \in {"mangle TRUSTED", "mangle BLOCKED", "mangle OUTGOING"}
        \/ d = "mangle POSTROUTING" /\ e = "mangle INCOMING"
    BY DEF TopJump, MangleChain
  <2>2. 1 \in 1 .. 4 /\ 2 \in 1 .. 4 /\ 4 \in 1 .. 4
    OBVIOUS
  <2>3. 1 \in 1 .. 5 /\ 2 \in 1 .. 5 /\ 4 \in 1 .. 5 /\ 5 \in 1 .. 5
    OBVIOUS
  <2>4. /\ MangleOrder[1] = "mangle TRUSTED" /\ MangleOrder[2] = "mangle BLOCKED"
        /\ MangleOrder[4] = "mangle OUTGOING"
    BY DEF MangleOrder
  <2>5. \E i \in 1 .. 5 : m[i] = Unmention(d, e)
    BY <1>3, <2>1, <2>2, <2>3, <2>4
  <2> QED
    BY <1>3, <2>5, Zenon DEF Has
<1>6. \A i \in 1 .. 5 : \A d : <<d, MangleOrder[i]>> \notin InnerJump
  <2>1. \A d, e : <<d, e>> \in InnerJump => e \notin MangleChain
    BY DEF InnerJump, MangleChain
  <2> QED
    BY <1>o, <2>1, Zenon
<1>g. PICK g : Joined(g, m, FlushAll(MangleOrder))
  BY DEF Joined
<1>7. Joined(MangleDestroy, g, RemoveAll(MangleOrder))
  BY <1>g, <1>m, Zenon DEF Joined, MangleDestroy
<1>8. \A i \in 1 .. Len(MangleOrder) : \A d :
         /\ <<d, MangleOrder[i]>> \in TopJump => Has(m, Unmention(d, MangleOrder[i]))
         /\ <<d, MangleOrder[i]>> \in InnerJump =>
               \E k \in 1 .. Len(MangleOrder) : MangleOrder[k] = d
  BY <1>5, <1>6, <1>o, Zenon
<1>9. PICK all : all = MangleDestroy
  OBVIOUS
<1>10. /\ all \in Seq(DestroyCommand) /\ CleansUp(all)
       /\ \A cmd : Has(m, cmd) => Has(all, cmd)
       /\ \A i \in 1 .. Len(MangleOrder) : Has(all, DeleteChain(MangleOrder[i]))
  BY <1>2, <1>4, <1>7, <1>8, <1>9, <1>g, <1>o, TableCleansUp
<1>11. \A e \in MangleChain : Has(all, DeleteChain(e))
  BY <1>10, <1>o, Zenon
<1> QED
  BY <1>5, <1>9, <1>10, <1>11, Zenon
LEMMA NatCleansUp ==
    /\ NatDestroy \in Seq(DestroyCommand) /\ CleansUp(NatDestroy)
    /\ Has(NatDestroy, DeleteChain("nat OUTGOING"))
    /\ Has(NatDestroy, Unmention("nat PREROUTING", "nat OUTGOING"))
<1>1. /\ Unmention("nat PREROUTING", "nat OUTGOING") \in DestroyCommand
      /\ Flush("nat OUTGOING") \in DestroyCommand /\ DeleteChain("nat OUTGOING") \in DestroyCommand
  BY DEF Unmention, Flush, DeleteChain, Unchecked, DestroyCommand, CommandType, Command, Op,
         Chain, Rule, OwnRule, OwnChain, BuiltIn
<1>2. PICK a, b, c : /\ a = Unmention("nat PREROUTING", "nat OUTGOING")
                     /\ b = Flush("nat OUTGOING") /\ c = DeleteChain("nat OUTGOING")
  OBVIOUS
<1>3. PICK s : s = NatDestroy
  OBVIOUS
<1>4. s = <<a, b, c>>
  BY <1>2, <1>3 DEF NatDestroy
<1>5. s \in Seq(DestroyCommand) /\ Len(s) = 3 /\ s[1] = a /\ s[2] = b /\ s[3] = c
  <2>1. s \in Seq(DestroyCommand)
    BY <1>1, <1>2, <1>4, TupleType, Zenon
  <2>2. Len(s) = 3 /\ s[1] = a /\ s[2] = b /\ s[3] = c
    BY <1>4
  <2> QED
    BY <2>1, <2>2
<1>6. Has(s, c) /\ Has(s, a) /\ HasBefore(s, 3, a) /\ HasBefore(s, 3, b)
  BY <1>5 DEF Has, HasBefore
<1>7. CleansUp(s)
  <2> SUFFICES ASSUME NEW j \in 1 .. Len(s), s[j].op = "-X" PROVE Prepared(s, j, s[j].on)
    BY DEF CleansUp
  <2>1. a.op = "mention" /\ b.op = "-F" /\ c.on = "nat OUTGOING"
    BY <1>2 DEF Unmention, Flush, DeleteChain, Unchecked, Command
  <2>2. j = 3
    <3>1. j = 1 \/ j = 2 \/ j = 3
      BY <1>5
    <3>2. "mention" # "-X" /\ "-F" # "-X"
      OBVIOUS
    <3> QED
      BY <1>5, <2>1, <3>1, <3>2, Zenon
  <2>3. /\ \A d : <<d, "nat OUTGOING">> \in TopJump => d = "nat PREROUTING"
        /\ \A d : <<d, "nat OUTGOING">> \notin InnerJump
    BY DEF TopJump, InnerJump
  <2>4. Prepared(s, 3, "nat OUTGOING")
    BY <1>2, <1>6, <2>3, Zenon DEF Prepared
  <2> QED
    BY <1>5, <2>1, <2>2, <2>4, Zenon
<1> QED
  BY <1>2, <1>3, <1>5, <1>6, <1>7, Zenon

LEMMA FilterCleansUp ==
    /\ FilterDestroy \in Seq(DestroyCommand) /\ CleansUp(FilterDestroy)
    /\ \A e \in FilterChain : Has(FilterDestroy, DeleteChain(e))
    /\ \A d, e : <<d, e>> \in TopJump /\ e \in FilterChain => Has(FilterDestroy, Unmention(d, e))
<1>o. /\ FilterOrder \in Seq(OwnChain) /\ Len(FilterOrder) = 5
      /\ \A i \in 1 .. 5 : FilterOrder[i] \in FilterChain
      /\ \A e \in FilterChain : \E i \in 1 .. 5 : FilterOrder[i] = e
  <2>1. FilterOrder \in Seq(OwnChain)
    BY DEF FilterOrder, OwnChain, FilterChain
  <2>2. /\ FilterOrder[1] = "TO_ROUTER" /\ FilterOrder[2] = "TO_INTERNET"
        /\ FilterOrder[3] = "AUTHENTICATED" /\ FilterOrder[4] = "TRUSTED"
        /\ FilterOrder[5] = "TRUSTED_TO_ROUTER" /\ Len(FilterOrder) = 5
    BY DEF FilterOrder
  <2>3. \A i \in 1 .. 5 : i = 1 \/ i = 2 \/ i = 3 \/ i = 4 \/ i = 5
    OBVIOUS
  <2>4. \A i \in 1 .. 5 : FilterOrder[i] \in FilterChain
    BY <2>2, <2>3 DEF FilterChain
  <2>5. 1 \in 1 .. 5 /\ 2 \in 1 .. 5 /\ 3 \in 1 .. 5 /\ 4 \in 1 .. 5 /\ 5 \in 1 .. 5
    OBVIOUS
  <2>6. \A e \in FilterChain : \E i \in 1 .. 5 : FilterOrder[i] = e
    <3> SUFFICES ASSUME NEW e \in FilterChain PROVE \E i \in 1 .. 5 : FilterOrder[i] = e
      OBVIOUS
    <3>1. \/ e = "TO_ROUTER" \/ e = "TO_INTERNET" \/ e = "AUTHENTICATED"
          \/ e = "TRUSTED" \/ e = "TRUSTED_TO_ROUTER"
      BY DEF FilterChain
    <3> QED
      BY <2>2, <2>5, <3>1, Zenon
  <2> QED
    BY <2>1, <2>2, <2>4, <2>6
<1>1. PICK a, b : /\ a = Unmention("filter INPUT", "TO_ROUTER")
                  /\ b = Unmention("filter FORWARD", "TO_INTERNET")
  OBVIOUS
<1>2. a \in DestroyCommand /\ b \in DestroyCommand /\ a.op # "-X" /\ b.op # "-X"
  BY <1>1 DEF Unmention, DestroyCommand, CommandType, Command, Op,
              Chain, Rule, OwnRule, OwnChain, BuiltIn, FilterChain
<1>m. PICK m : m = <<a, b>>
  OBVIOUS
<1>3. m \in Seq(DestroyCommand) /\ Len(m) = 2 /\ m[1] = a /\ m[2] = b
  <2>1. m \in Seq(DestroyCommand)
    BY <1>2, <1>m, TupleType, Zenon
  <2> QED
    BY <1>m, <2>1
<1>4. \A i \in 1 .. Len(m) : m[i].op # "-X"
  <2>1. \A i \in 1 .. 2 : i = 1 \/ i = 2
    OBVIOUS
  <2> QED
    BY <1>2, <1>3, <2>1, Zenon
<1>5. \A d, e : <<d, e>> \in TopJump /\ e \in FilterChain => Has(m, Unmention(d, e))
  <2>1. Has(m, a) /\ Has(m, b)
    BY <1>3 DEF Has
  <2>2. \A d, e : <<d, e>> \in TopJump /\ e \in FilterChain =>
           \/ d = "filter INPUT" /\ e = "TO_ROUTER"
           \/ d = "filter FORWARD" /\ e = "TO_INTERNET"
    BY DEF TopJump, FilterChain
  <2> QED
    BY <1>1, <2>1, <2>2, Zenon
<1>6. \A d, e : <<d, e>> \in InnerJump => \E k \in 1 .. 5 : FilterOrder[k] = d
  <2>1. \A d, e : <<d, e>> \in InnerJump => d \in FilterChain
    BY DEF InnerJump, FilterChain
  <2> QED
    BY <1>o, <2>1, Zenon
<1>g. PICK g : Joined(g, m, FlushAll(FilterOrder))
  BY DEF Joined
<1>7. Joined(FilterDestroy, g, RemoveAll(FilterOrder))
  BY <1>1, <1>g, <1>m, Zenon DEF Joined, FilterDestroy
<1>8. \A i \in 1 .. Len(FilterOrder) : \A d :
         /\ <<d, FilterOrder[i]>> \in TopJump => Has(m, Unmention(d, FilterOrder[i]))
         /\ <<d, FilterOrder[i]>> \in InnerJump =>
               \E k \in 1 .. Len(FilterOrder) : FilterOrder[k] = d
  BY <1>5, <1>6, <1>o, Zenon
<1>9. PICK all : all = FilterDestroy
  OBVIOUS
<1>10. /\ all \in Seq(DestroyCommand) /\ CleansUp(all)
       /\ \A cmd : Has(m, cmd) => Has(all, cmd)
       /\ \A i \in 1 .. Len(FilterOrder) : Has(all, DeleteChain(FilterOrder[i]))
  BY <1>3, <1>4, <1>7, <1>8, <1>9, <1>g, <1>o, TableCleansUp
<1>11. \A e \in FilterChain : Has(all, DeleteChain(e))
  BY <1>10, <1>o, Zenon
<1> QED
  BY <1>5, <1>9, <1>10, <1>11, Zenon

\* The program of the clean-up: no command is left out when another fails, each chain is
\* deleted, after everything that could keep it, and each jump to one is looked for.
LEMMA DestroyProgram ==
    ASSUME NEW c
    PROVE  /\ fw_destroy(c) \in Seq(DestroyCommand) /\ CleansUp(fw_destroy(c))
           /\ \A e \in OwnChain : Has(fw_destroy(c), DeleteChain(e))
           /\ \A d, e : <<d, e>> \in TopJump => Has(fw_destroy(c), Unmention(d, e))
<1>1. PICK a, b : a = <<Lock, Unlock>> /\ b = When(c.traffic_control, tc_destroy_tc)
  OBVIOUS
<1>2. a \in Seq(DestroyCommand) /\ \A i \in 1 .. Len(a) : a[i].op # "-X"
  <2>1. a \in Seq(DestroyCommand)
    BY <1>1, CommandTypes, TupleType, Zenon
  <2>2. Lock.op # "-X" /\ Unlock.op # "-X"
    BY DEF Lock, Unlock, Command
  <2> QED
    BY <1>1, <2>1, <2>2
<1>3. b \in Seq(DestroyCommand) /\ \A i \in 1 .. Len(b) : b[i].op # "-X"
  <2>1. PICK p, q, r, s :
           /\ p = Unchecked(Command("qdisc del", "download", 0, ""))
           /\ q = Unchecked(Command("qdisc del", "upload", 0, ""))
           /\ r = Unchecked(Command("link", "download", 0, ""))
           /\ s = Unchecked(Command("link", "upload", 0, ""))
    OBVIOUS
  <2>2. /\ p \in DestroyCommand /\ q \in DestroyCommand /\ r \in DestroyCommand
        /\ s \in DestroyCommand
        /\ p.op # "-X" /\ q.op # "-X" /\ r.op # "-X" /\ s.op # "-X"
    BY <2>1 DEF Unchecked, Command, DestroyCommand, CommandType, Op, Chain, Imq
  <2>3. tc_destroy_tc = <<p, q, r, s>>
    BY <2>1, Zenon DEF tc_destroy_tc
  <2>4. tc_destroy_tc \in Seq(DestroyCommand)
    <3>1. <<p, q>> \in Seq(DestroyCommand)
      BY <2>2
    <3> QED
      BY <2>2, <2>3
  <2>5. b = tc_destroy_tc \/ b = <<>>
    BY <1>1 DEF When
  <2>6. CASE b = tc_destroy_tc
    BY <2>2, <2>3, <2>4, <2>6
  <2>7. CASE b = <<>>
    BY <2>7
  <2> QED
    BY <2>5, <2>6, <2>7
<1>4. CleansUp(a) /\ CleansUp(b)
  BY <1>2, <1>3 DEF CleansUp
<1>5. PICK u : Joined(u, a, b)
  BY DEF Joined
<1>6. PICK v : Joined(v, u, MangleDestroy)
  BY DEF Joined
<1>7. PICK w : Joined(w, v, NatDestroy)
  BY DEF Joined
<1>8. PICK x : x = fw_destroy(c)
  OBVIOUS
<1>9. Joined(x, w, FilterDestroy)
  BY <1>1, <1>5, <1>6, <1>7, <1>8, Zenon DEF Joined, fw_destroy
<1>10. u \in Seq(DestroyCommand) /\ CleansUp(u)
  BY <1>2, <1>3, <1>4, <1>5, JoinedParts, CleansUpJoined
<1>11. /\ v \in Seq(DestroyCommand) /\ CleansUp(v)
       /\ \A cmd : Has(MangleDestroy, cmd) => Has(v, cmd)
  BY <1>6, <1>10, MangleCleansUp, JoinedParts, CleansUpJoined
<1>12. /\ w \in Seq(DestroyCommand) /\ CleansUp(w)
       /\ \A cmd : Has(v, cmd) => Has(w, cmd)
       /\ \A cmd : Has(NatDestroy, cmd) => Has(w, cmd)
  BY <1>7, <1>11, NatCleansUp, JoinedParts, CleansUpJoined
<1>13. /\ x \in Seq(DestroyCommand) /\ CleansUp(x)
       /\ \A cmd : Has(w, cmd) => Has(x, cmd)
       /\ \A cmd : Has(FilterDestroy, cmd) => Has(x, cmd)
  BY <1>9, <1>12, FilterCleansUp, JoinedParts, CleansUpJoined
<1>14. \A e \in OwnChain : Has(x, DeleteChain(e))
  <2>1. \A e \in OwnChain : e \in MangleChain \/ e = "nat OUTGOING" \/ e \in FilterChain
    BY DEF OwnChain
  <2> QED
    BY <2>1, <1>11, <1>12, <1>13, MangleCleansUp, NatCleansUp, FilterCleansUp, Zenon
<1>15. \A d, e : <<d, e>> \in TopJump => Has(x, Unmention(d, e))
  <2>1. \A d, e : <<d, e>> \in TopJump =>
           \/ e \in MangleChain \/ e \in FilterChain
           \/ d = "nat PREROUTING" /\ e = "nat OUTGOING"
    BY DEF TopJump, MangleChain, FilterChain
  <2> QED
    BY <2>1, <1>11, <1>12, <1>13, MangleCleansUp, NatCleansUp, FilterCleansUp, Zenon
<1> QED
  BY <1>8, <1>13, <1>14, <1>15, Zenon
----------------------------------------------------------------------------
(* The other programs.  *)

TryInsert(c) == [Unchecked(Insert(c, 1, "test")) EXCEPT !.skip = 1]

\* fw_init() tries the kernel with two rules, then builds.
StartsWithTries(s) ==
    /\ s \in Seq(CommandType) /\ Len(s) >= 6
    /\ s[1] = Lock /\ s[2] = Unlock
    /\ s[3] = TryInsert("mangle PREROUTING") /\ s[4] = DeleteNth("mangle PREROUTING", 1)
    /\ s[5] = TryInsert("filter FORWARD") /\ s[6] = DeleteNth("filter FORWARD", 1)
    /\ \A i \in 7 .. Len(s) : s[i] \in BuildCommand

LEMMA TriesJoined ==
    ASSUME NEW s, StartsWithTries(s), NEW t \in Seq(BuildCommand), NEW u, Joined(u, s, t)
    PROVE  StartsWithTries(u)
<1>0. t \in Seq(CommandType) /\ s \in Seq(CommandType)
  <2>1. BuildCommand \subseteq CommandType
    BY DEF BuildCommand
  <2>2. t \in Seq(CommandType)
    BY <2>1, SeqMonotonic
  <2> QED
    BY <2>2 DEF StartsWithTries
<1>1. PICK m, n : m = Len(s) /\ n = Len(t)
  OBVIOUS
<1>2. u \in Seq(CommandType) /\ Parts(u, s, t, m, n)
  BY <1>0, <1>1, JoinedParts
<1>3. /\ m \in Nat /\ n \in Nat /\ m = Len(s) /\ n = Len(t) /\ m + n = Len(u)
      /\ \A i \in 1 .. m : u[i] = s[i]
      /\ \A i \in 1 .. n : u[m + i] = t[i]
  BY <1>2 DEF Parts
<1>4. m >= 6
  BY <1>3 DEF StartsWithTries
<1>5. \A i \in 7 .. Len(u) : u[i] \in BuildCommand
  <2> SUFFICES ASSUME NEW i \in 7 .. Len(u) PROVE u[i] \in BuildCommand
    OBVIOUS
  <2>1. CASE i <= m
    <3>1. i \in 1 .. m /\ i \in 7 .. Len(s)
      BY <1>3, <2>1
    <3> QED
      BY <1>3, <3>1, Zenon DEF StartsWithTries
  <2>2. CASE ~(i <= m)
    <3>1. PICK k \in 1 .. n : i = m + k
      <4>1. i - m \in 1 .. n /\ i = m + (i - m)
        BY <1>3, <2>2
      <4> QED
        BY <4>1
    <3>2. t[k] \in BuildCommand
      BY <1>3, ElementOfSeq
    <3> QED
      BY <1>3, <3>1, <3>2
  <2> QED
    BY <2>1, <2>2
<1>6. u[1] = s[1] /\ u[2] = s[2] /\ u[3] = s[3] /\ u[4] = s[4] /\ u[5] = s[5] /\ u[6] = s[6]
  <2>1. /\ 1 \in 1 .. m /\ 2 \in 1 .. m /\ 3 \in 1 .. m /\ 4 \in 1 .. m /\ 5 \in 1 .. m
        /\ 6 \in 1 .. m
    BY <1>3, <1>4
  <2> QED
    BY <1>3, <2>1, Zenon
<1>7. Len(u) >= 6
  BY <1>3, <1>4
<1> QED
  BY <1>2, <1>5, <1>6, <1>7, Zenon DEF StartsWithTries

LEMMA InitStart ==
    ASSUME NEW s, Joined(s, <<Lock, Unlock>>, _iptables_check_mark_masking)
    PROVE  StartsWithTries(s)
<1>1. PICK a, b, p, q, r, t :
        /\ a = Lock /\ b = Unlock
        /\ p = TryInsert("mangle PREROUTING") /\ q = DeleteNth("mangle PREROUTING", 1)
        /\ r = TryInsert("filter FORWARD") /\ t = DeleteNth("filter FORWARD", 1)
  OBVIOUS
<1>2. /\ a \in CommandType /\ b \in CommandType /\ p \in CommandType /\ q \in CommandType
      /\ r \in CommandType /\ t \in CommandType
  BY <1>1 DEF Lock, Unlock, TryInsert, Insert, DeleteNth, Unchecked, Command, CommandType, Op,
              Chain, BuiltIn, Rule, OwnRule
<1>3. s = <<a, b>> \o (<<p, q>> \o <<r, t>>)
  BY <1>1, Zenon DEF Joined, _iptables_check_mark_masking, TryRule, TryInsert
<1>4. /\ s \in Seq(CommandType) /\ Len(s) = 6 /\ s[1] = a /\ s[2] = b /\ s[3] = p
      /\ s[4] = q /\ s[5] = r /\ s[6] = t
  BY <1>2, <1>3
<1>5. Len(s) >= 6 /\ \A i \in 7 .. Len(s) : FALSE
  BY <1>4
<1> QED
  BY <1>1, <1>4, <1>5, Zenon DEF StartsWithTries

LEMMA InitProgram ==
    ASSUME NEW c
    PROVE  StartsWithTries(fw_init(c))
<1>1. PICK s : Joined(s, <<Lock, Unlock>>, _iptables_check_mark_masking)
  BY DEF Joined
<1>2. PICK t : Joined(t, s, MangleInit(c))
  BY DEF Joined
<1>3. PICK u : Joined(u, t, NatInit(c))
  BY DEF Joined
<1>4. PICK v : Joined(v, u, RouterInit(c))
  BY DEF Joined
<1>5. Joined(fw_init(c), v, InternetInit(c))
  BY <1>1, <1>2, <1>3, <1>4, Zenon DEF Joined, fw_init
<1> QED
  BY <1>1, <1>2, <1>3, <1>4, <1>5, InitStart, TriesJoined, BuildType

LEMMA RequestPrograms ==
    ASSUME NEW c
    PROVE  /\ fw_authenticate(c) \in Seq(AccessCommand) /\ fw_deauthenticate(c) \in Seq(AccessCommand)
           /\ ndsctl_mac("mangle BLOCKED") \in Seq(MacCommands("mangle BLOCKED"))
           /\ ndsctl_mac("mangle TRUSTED") \in Seq(MacCommands("mangle TRUSTED"))
<1>1. \A dev \in Imq : /\ Class(dev, "client") \in AccessCommand
                       /\ AppendRule(dev, "filter") \in AccessCommand
                       /\ Command("class del", dev, 0, "client") \in AccessCommand
  BY DEF Class, AppendRule, Command, AccessCommand, CommandType, Op, Chain, Rule, OwnRule
<1>2. \A chain \in {"mangle OUTGOING", "mangle INCOMING"} :
         /\ AppendRule(chain, "client") \in AccessCommand
         /\ DeleteRule(chain, "client") \in AccessCommand
  BY DEF AppendRule, DeleteRule, Command, AccessCommand, CommandType, Op, Chain, OwnChain,
         MangleChain, Rule, OwnRule
<1>3. \A chain \in {"mangle BLOCKED", "mangle TRUSTED"} :
         AppendRule(chain, "mac") \in MacCommands(chain)
  BY DEF AppendRule, Command, MacCommands, CommandType, Op, Chain, OwnChain, MangleChain,
         Rule, OwnRule
<1>4. /\ "download" \in Imq /\ "upload" \in Imq
      /\ "mangle OUTGOING" \in {"mangle OUTGOING", "mangle INCOMING"}
      /\ "mangle INCOMING" \in {"mangle OUTGOING", "mangle INCOMING"}
  BY DEF Imq
<1>5. \A S : \A p, q, r, s, t \in S : <<p, q, r, s, t>> \in Seq(S) /\ <<p, q, r, s>> \in Seq(S)
  OBVIOUS
<1>6. fw_authenticate(c) \in Seq(AccessCommand)
  <2>1. <<Lock, Unlock, AppendRule("mangle OUTGOING", "client"),
          AppendRule("mangle INCOMING", "client"), AppendRule("mangle INCOMING", "client")>>
          \in Seq(AccessCommand)
    BY <1>2, <1>4, <1>5, CommandTypes, Zenon
  <2>2. tc_attach_client \in Seq(AccessCommand)
    BY <1>1, <1>4, <1>5, Zenon DEF tc_attach_client
  <2> QED
    BY <2>1, <2>2, ConcatType, WhenType, Zenon DEF fw_authenticate
<1>7. fw_deauthenticate(c) \in Seq(AccessCommand)
  <2>1. <<Lock, Unlock, DeleteRule("mangle OUTGOING", "client"),
          DeleteRule("mangle INCOMING", "client"), DeleteRule("mangle INCOMING", "client")>>
          \in Seq(AccessCommand)
    BY <1>2, <1>4, <1>5, CommandTypes, Zenon
  <2>2. tc_detach_client \in Seq(AccessCommand)
    BY <1>1, <1>4, TupleType, Zenon DEF tc_detach_client
  <2> QED
    BY <2>1, <2>2, ConcatType, WhenType, Zenon DEF fw_deauthenticate
<1>8. \A chain \in {"mangle BLOCKED", "mangle TRUSTED"} : ndsctl_mac(chain) \in Seq(MacCommands(chain))
  BY <1>3, CommandTypes, TupleType, Zenon DEF ndsctl_mac
<1> QED
  BY <1>6, <1>7, <1>8
----------------------------------------------------------------------------
(* What a command does to the kernel.  *)

\* The first rule with a target, by its number.
LEMMA MentionFirst ==
    ASSUME NEW k \in Kernel, NEW c \in Chain, NEW e
    PROVE  /\ Mention(k, c, e) \in 0 .. Len(k.rules[c])
           /\ Mention(k, c, e) = 0 => \A i \in 1 .. Len(k.rules[c]) : k.rules[c][i] # e
           /\ Mention(k, c, e) > 0 => k.rules[c][Mention(k, c, e)] = e
<1>0. PICK s \in Seq(Rule) : s = k.rules[c]
  BY DEF Kernel
<1>1. PICK n \in Nat : n = Len(s)
  BY LenProperties
<1>2. PICK I : I = {i \in 1 .. n : s[i] = e}
  OBVIOUS
<1>3. Mention(k, c, e) = IF I # {} THEN Min(I) ELSE 0
  BY <1>0, <1>1, <1>2 DEF Mention, SelectInSeq
<1>4. CASE I = {}
  BY <1>0, <1>1, <1>2, <1>3, <1>4, SMTT(30)
<1>5. CASE I # {}
  <2>1. PICK j \in I : \A i \in I : j <= i
    <3>1. I \in SUBSET Nat
      BY <1>2
    <3>2. PICK x \in I : \A y \in I : ~ (<<y, x>> \in OpToRel(<, Nat))
      BY <1>5, <3>1, WFMin, NatLessThanWellFounded
    <3>3. \A y \in I : ~(y < x)
      BY <3>1, <3>2 DEF OpToRel
    <3> QED
      BY <3>1, <3>3
  <2>2. Min(I) \in I
    BY <2>1 DEF Min
  <2> QED
    BY <1>0, <1>1, <1>2, <1>3, <1>5, <2>2
<1> QED
  BY <1>4, <1>5

LEMMA MentionNone ==
    ASSUME NEW k \in Kernel, NEW c \in Chain, NEW e,
           \A i \in 1 .. Len(k.rules[c]) : k.rules[c][i] # e
    PROVE  Mention(k, c, e) = 0
<1>0. Len(k.rules[c]) \in Nat
  BY DEF Kernel
<1>1. ASSUME Mention(k, c, e) > 0 PROVE FALSE
  BY <1>0, <1>1, MentionFirst
<1> QED
  BY <1>0, <1>1, MentionFirst

\* Kernel l is k but for the rules of chain c, which are s.
Rewritten(k, l, c, s) ==
    /\ l \in Kernel /\ l.chains = k.chains
    /\ l.rules[c] = s
    /\ \A d \in Chain \ {c} : l.rules[d] = k.rules[d]

LEMMA RewrittenExcept ==
    ASSUME NEW k \in Kernel, NEW c \in Chain, NEW s \in Seq(Rule)
    PROVE  Rewritten(k, [k EXCEPT !.rules[c] = s], c, s)
BY DEF Rewritten, Kernel

InsertedOrRemoved(s) ==
    /\ \A e \in Rule : \A n \in 1 .. Len(s) + 1 : InsertAt(s, n, e) \in Seq(Rule)
    /\ \A n \in 1 .. Len(s) : RemoveAt(s, n) \in Seq(Rule)
    /\ \A e \in Rule : Append(s, e) \in Seq(Rule)

LEMMA InsertedOrRemovedType == \A s \in Seq(Rule) : InsertedOrRemoved(s)
<1> SUFFICES ASSUME NEW s \in Seq(Rule) PROVE InsertedOrRemoved(s)
  OBVIOUS
<1>1. ASSUME NEW e \in Rule, NEW n \in 1 .. Len(s) + 1 PROVE InsertAt(s, n, e) \in Seq(Rule)
  <2>1. PICK a \in Seq(Rule), b \in Seq(Rule) : Between(InsertAt(s, n, e), a, e, b)
    BY InsertSplits
  <2>2. <<e>> \in Seq(Rule)
    BY TupleType, Zenon
  <2> QED
    BY <2>1, <2>2, ConcatType, Zenon DEF Between
<1>2. ASSUME NEW n \in 1 .. Len(s) PROVE RemoveAt(s, n) \in Seq(Rule)
  <2>1. PICK a \in Seq(Rule), b \in Seq(Rule) : Joined(RemoveAt(s, n), a, b)
    BY RemoveSplits
  <2> QED
    BY <2>1, ConcatType, Zenon DEF Joined
<1>3. \A e \in Rule : Append(s, e) \in Seq(Rule)
  BY AppendProperties
<1> QED
  BY <1>1, <1>2, <1>3 DEF InsertedOrRemoved
Changing == {"-N", "-I", "-A", "-F", "-X", "-D", "-D rule", "qdisc del", "class add", "class del"}

WellFormed(cmd) ==
    /\ cmd \in CommandType
    /\ cmd.op \in Changing => cmd.on \in Chain
    /\ cmd.op \in {"-I", "-A", "class add"} => cmd.to \in Rule
    /\ cmd.op \in {"-I", "-D"} => cmd.at >= 1

\* Kernel l is k after command cmd.
Done(k, cmd, l) ==
    LET c == cmd.on
        s == k.rules[c]
        n == Mention(k, c, cmd.to)
    IN /\ cmd.op = "-N" => /\ c \notin k.chains /\ l.chains = k.chains \cup {c}
                           /\ l.rules = k.rules
       /\ cmd.op = "-X" => /\ l.chains = k.chains \ {c} /\ l.rules = k.rules
                           /\ s = <<>> /\ \A d \in Chain : Mention(k, d, c) = 0
       /\ cmd.op = "-I" => /\ Rewritten(k, l, c, InsertAt(s, cmd.at, cmd.to))
                           /\ cmd.at \in 1 .. Len(s) + 1
                           /\ c \in k.chains /\ (cmd.to \in OwnChain => cmd.to \in k.chains)
       /\ cmd.op = "-A" => /\ Rewritten(k, l, c, Append(s, cmd.to))
                           /\ c \in k.chains /\ (cmd.to \in OwnChain => cmd.to \in k.chains)
       /\ cmd.op = "class add" => Rewritten(k, l, c, Append(s, cmd.to)) /\ c \in k.chains
       /\ cmd.op = "-F" => Rewritten(k, l, c, <<>>)
       /\ cmd.op = "-D" => Rewritten(k, l, c, RemoveAt(s, cmd.at)) /\ cmd.at \in 1 .. Len(s)
       /\ cmd.op \in {"-D rule", "class del"} =>
             Rewritten(k, l, c, RemoveAt(s, n)) /\ n \in 1 .. Len(s) /\ s[n] = cmd.to
       /\ cmd.op = "qdisc del" =>
             /\ l.chains = k.chains \ {c} /\ l.rules[c] = <<>>
             /\ \A d \in Chain \ {c} : l.rules[d] = k.rules[d]
       /\ cmd.op \notin Changing => l = k

LEMMA EffectDone ==
    ASSUME NEW k \in Kernel, NEW cmd, WellFormed(cmd), Accepts(k, cmd)
    PROVE  Effect(k, cmd) \in Kernel /\ Done(k, cmd, Effect(k, cmd))
<1>t. cmd \in CommandType
  BY DEF WellFormed
<1>1. CASE cmd.op \notin Changing
  <2>1. Effect(k, cmd) = k
    BY <1>1 DEF Effect, Changing
  <2> QED
    BY <1>1, <2>1 DEF Done, Changing
<1>2. CASE cmd.op \in Changing
  <2>0. PICK c \in Chain : c = cmd.on
    BY <1>2 DEF WellFormed
  <2>s. PICK s \in Seq(Rule) : s = k.rules[c]
    BY DEF Kernel
  <2>l. Len(s) \in Nat /\ InsertedOrRemoved(s)
    BY LenProperties, InsertedOrRemovedType
  <2>1. CASE cmd.op = "-N"
    <3>1. Effect(k, cmd) = [k EXCEPT !.chains = @ \cup {c}] /\ c \notin k.chains
      BY <2>0, <2>1 DEF Effect, Accepts
    <3>2. /\ Effect(k, cmd) \in Kernel /\ Effect(k, cmd).chains = k.chains \cup {c}
          /\ Effect(k, cmd).rules = k.rules
      BY <3>1 DEF Kernel
    <3> QED
      BY <2>0, <2>1, <3>1, <3>2 DEF Done, Changing
  <2>2. CASE cmd.op = "-X"
    <3>1. /\ Effect(k, cmd) = [k EXCEPT !.chains = @ \ {c}] /\ s = <<>>
          /\ \A d \in Chain : Mention(k, d, c) = 0
      BY <2>0, <2>s, <2>2 DEF Effect, Accepts, Unreferenced
    <3>2. /\ Effect(k, cmd) \in Kernel /\ Effect(k, cmd).chains = k.chains \ {c}
          /\ Effect(k, cmd).rules = k.rules
      BY <3>1 DEF Kernel
    <3> QED
      BY <2>0, <2>s, <2>2, <3>1, <3>2 DEF Done, Changing
  <2>3. CASE cmd.op = "-I"
    <3>1. /\ Effect(k, cmd) = [k EXCEPT !.rules[c] = InsertAt(s, cmd.at, cmd.to)]
          /\ cmd.at <= Len(s) + 1
          /\ c \in k.chains /\ (cmd.to \in OwnChain => cmd.to \in k.chains)
      BY <2>0, <2>s, <2>3 DEF Effect, Accepts
    <3>2. cmd.at \in 1 .. Len(s) + 1 /\ cmd.to \in Rule
      <4>1. cmd.at \in Nat /\ cmd.at >= 1 /\ cmd.to \in Rule
        BY <1>t, <2>3 DEF WellFormed, CommandType
      <4> QED
        BY <2>l, <3>1, <4>1
    <3>3. InsertAt(s, cmd.at, cmd.to) \in Seq(Rule)
      BY <2>l, <3>2 DEF InsertedOrRemoved
    <3>4. Rewritten(k, Effect(k, cmd), c, InsertAt(s, cmd.at, cmd.to))
      BY <3>1, <3>3, RewrittenExcept
    <3> QED
      BY <2>0, <2>s, <2>3, <3>1, <3>2, <3>4 DEF Done, Changing, Rewritten
  <2>4. CASE cmd.op \in {"-A", "class add"}
    <3>1. /\ Effect(k, cmd) = [k EXCEPT !.rules[c] = Append(s, cmd.to)]
          /\ c \in k.chains /\ (cmd.op = "-A" /\ cmd.to \in OwnChain => cmd.to \in k.chains)
      BY <2>0, <2>s, <2>4 DEF Effect, Accepts
    <3>2. Append(s, cmd.to) \in Seq(Rule)
      BY <2>l, <2>4 DEF InsertedOrRemoved, WellFormed
    <3>3. Rewritten(k, Effect(k, cmd), c, Append(s, cmd.to))
      BY <3>1, <3>2, RewrittenExcept
    <3> QED
      BY <2>0, <2>s, <2>4, <3>1, <3>3 DEF Done, Changing, Rewritten
  <2>5. CASE cmd.op = "-F"
    <3>1. Effect(k, cmd) = [k EXCEPT !.rules[c] = <<>>]
      BY <2>0, <2>5 DEF Effect
    <3>2. Rewritten(k, Effect(k, cmd), c, <<>>)
      BY <3>1, RewrittenExcept, EmptySeq, ZenonT(40)
    <3> QED
      BY <2>0, <2>5, <3>2 DEF Done, Changing, Rewritten
  <2>6. CASE cmd.op = "-D"
    <3>1. /\ Effect(k, cmd) = [k EXCEPT !.rules[c] = RemoveAt(s, cmd.at)]
          /\ cmd.at <= Len(s)
      BY <2>0, <2>s, <2>6 DEF Effect, Accepts
    <3>2. cmd.at \in 1 .. Len(s)
      <4>1. cmd.at \in Nat /\ cmd.at >= 1
        BY <1>t, <2>6 DEF WellFormed, CommandType
      <4> QED
        BY <2>l, <3>1, <4>1
    <3>3. RemoveAt(s, cmd.at) \in Seq(Rule)
      BY <2>l, <3>2 DEF InsertedOrRemoved
    <3>4. Rewritten(k, Effect(k, cmd), c, RemoveAt(s, cmd.at))
      BY <3>1, <3>3, RewrittenExcept
    <3> QED
      BY <2>0, <2>s, <2>6, <3>2, <3>4 DEF Done, Changing, Rewritten
  <2>7. CASE cmd.op \in {"-D rule", "class del"}
    <3>n. PICK n : n = Mention(k, c, cmd.to)
      OBVIOUS
    <3>1. Effect(k, cmd) = [k EXCEPT !.rules[c] = RemoveAt(s, n)] /\ n > 0
      BY <2>0, <2>s, <2>7, <3>n DEF Effect, Accepts
    <3>2. n \in 1 .. Len(s) /\ s[n] = cmd.to
      BY <2>l, <2>s, <3>n, <3>1, MentionFirst
    <3>3. RemoveAt(s, n) \in Seq(Rule)
      BY <2>l, <3>2 DEF InsertedOrRemoved
    <3>4. Rewritten(k, Effect(k, cmd), c, RemoveAt(s, n))
      BY <3>1, <3>3, RewrittenExcept
    <3> QED
      BY <2>0, <2>s, <2>7, <3>n, <3>2, <3>4 DEF Done, Changing, Rewritten
  <2>8. CASE cmd.op = "qdisc del"
    <3>1. Effect(k, cmd) = [[k EXCEPT !.rules[c] = <<>>] EXCEPT !.chains = @ \ {c}]
      BY <2>0, <2>8 DEF Effect
    <3>2. /\ Effect(k, cmd) \in Kernel
          /\ Effect(k, cmd).chains = k.chains \ {c} /\ Effect(k, cmd).rules[c] = <<>>
          /\ \A d \in Chain \ {c} : Effect(k, cmd).rules[d] = k.rules[d]
      <4>1. PICK m : m = [k EXCEPT !.rules[c] = <<>>]
        OBVIOUS
      <4>2. Rewritten(k, m, c, <<>>)
        BY <4>1, RewrittenExcept, EmptySeq
      <4>3. Effect(k, cmd) = [m EXCEPT !.chains = @ \ {c}]
        BY <3>1, <4>1
      <4>4. m \in Kernel
        BY <4>2 DEF Rewritten
      <4>5. /\ Effect(k, cmd) \in Kernel /\ Effect(k, cmd).rules = m.rules
            /\ Effect(k, cmd).chains = m.chains \ {c}
        BY <4>3, <4>4 DEF Kernel
      <4> QED
        BY <4>2, <4>5 DEF Rewritten
    <3> QED
      BY <2>0, <2>8, <3>2 DEF Done, Changing
  <2> QED
    BY <1>2, <2>1, <2>2, <2>3, <2>4, <2>5, <2>6, <2>7, <2>8 DEF Changing
<1> QED
  BY <1>1, <1>2
----------------------------------------------------------------------------
(* The invariant.  *)

Job == {"boot", "clean", "init", "undo", "create", "serve", "terminate", "dead", "none",
        "idle", "access", "mac"}
Program == {"none", "destroy", "init", "authenticate", "deauthenticate", "block", "trust"}

LifecycleTypes ==
    /\ conf \in Conf /\ kernel \in Kernel /\ status \in {"running", "exited", "gone"}
    /\ job \in [Thread -> Job] /\ prog \in [Thread -> Program]
    /\ at \in [Thread -> Nat \ {0}] /\ found \in [Thread -> Nat] /\ rc \in {0, 1}
    /\ \A run \in inFlight : WellFormed(run[2])
    /\ sigterm_mutex \in Thread \cup {NULL}
    /\ authenticated \in BOOLEAN
    /\ faults \in Nat /\ requests \in Nat

Cleaning == {"clean", "undo", "terminate"}
Starting == {"boot", "clean", "init", "undo", "create"}

\* What a thread runs follows from what it is doing.
Placed ==
    \A t \in Thread :
        /\ job[t] \in Cleaning => prog[t] = "destroy"
        /\ job[t] = "init" => prog[t] = "init"
        /\ job[t] = "access" => prog[t] \in {"authenticate", "deauthenticate"}
        /\ job[t] = "mac" => \/ prog[t] = "block" /\ "mangle BLOCKED" \in MacChain
                             \/ prog[t] = "trust" /\ "mangle TRUSTED" \in MacChain
        /\ job[t] \in {"boot", "create", "serve", "dead", "none", "idle"} => prog[t] = "none"

\* Only the main thread starts the process, alone.
StartsAlone ==
    /\ job[Main] \in Starting \cup {"serve", "terminate", "dead"}
    /\ \A w \in Worker : job[w] \in {"none", "idle", "access", "mac", "terminate", "dead"}
    /\ job[Main] \in Starting => \A w \in Worker : job[w] = "none"

\* A thread that got sigterm_mutex is in the handler or was ended by it, and no command is
\* in flight without one.
HeldInHandler ==
    /\ \A t \in Thread : sigterm_mutex = t => job[t] \in {"terminate", "dead"}
    /\ inFlight # {} => sigterm_mutex # NULL

\* A rule that the kernel is tried with is on top of its chain when it is deleted.
FirstIs(k, c, e) == Len(k.rules[c]) >= 1 /\ k.rules[c][1] = e
TestOnTop ==
    job[Main] = "init" =>
        /\ at[Main] = 4 => FirstIs(kernel, "mangle PREROUTING", "test")
        /\ at[Main] = 6 => FirstIs(kernel, "filter FORWARD", "test")

\* A jump is where fw_init() makes it, and to a chain that is there; what is not there
\* has no rules.
JumpsTo(k, d, e) == Has(k.rules[d], e)
SoundKernel(k) ==
    /\ BuiltIn \subseteq k.chains /\ "mangle ALLOWED" \notin k.chains
    /\ \A c \in OwnChain \cup Imq : c \notin k.chains => k.rules[c] = <<>>
    /\ \A d \in Chain : \A e \in OwnChain :
          JumpsTo(k, d, e) => e \in k.chains /\ <<d, e>> \in TopJump \cup InnerJump

\* Requests are counted before they change a rule.
RequestsCounted ==
    (authenticated \/ \E t \in Thread : job[t] \in {"access", "mac"}) => requests > 0

\* What a command of the clean-up that did not fail for reasons of its own is for; a
\* request may write to a chain after it was flushed, and a command in flight may add to it.
RequestChain == MacChain \cup {"mangle OUTGOING", "mangle INCOMING"}
MayBeUsed(c) == requests > 0 /\ c \in RequestChain
MayBeLate(d, e) == d \in addedLate /\ (e \in OwnChain => e \in addedLate)
Achieved(cmd) ==
    LET rules == kernel.rules[cmd.on]
    IN /\ cmd.op = "mention" =>
             (JumpsTo(kernel, cmd.on, cmd.to) => MayBeLate(cmd.on, cmd.to))
       /\ cmd.op = "-F" =>
             \A e : Has(rules, e) => \/ e \in {"client", "mac"} /\ MayBeUsed(cmd.on)
                                    \/ MayBeLate(cmd.on, e)
       /\ cmd.op = "-X" => (cmd.on \in kernel.chains => MayBeUsed(cmd.on) \/ cmd.on \in addedLate)
CleanSoFar ==
    \A t \in Thread :
        job[t] \in Cleaning /\ faults = 0 =>
            \A i \in 1 .. Len(fw_destroy(conf)) :
                i < at[t] => Achieved(fw_destroy(conf)[i])
----------------------------------------------------------------------------
(* The command that a thread is at.  *)

LEMMA ProgramsOf ==
    ASSUME NEW c \in Conf
    PROVE  /\ Commands[c]["none"] = <<>> /\ Commands[c]["destroy"] = fw_destroy(c)
           /\ Commands[c]["init"] = fw_init(c)
           /\ Commands[c]["authenticate"] = fw_authenticate(c)
           /\ Commands[c]["deauthenticate"] = fw_deauthenticate(c)
           /\ Commands[c]["block"] = ndsctl_mac("mangle BLOCKED")
           /\ Commands[c]["trust"] = ndsctl_mac("mangle TRUSTED")
<1>1. Commands[c] = CommandsOf(c)
  BY DEF Commands, PerConf
<1>2. /\ CommandsOf(c)["none"] = <<>> /\ CommandsOf(c)["destroy"] = fw_destroy(c)
      /\ CommandsOf(c)["init"] = fw_init(c)
      /\ CommandsOf(c)["authenticate"] = fw_authenticate(c)
      /\ CommandsOf(c)["deauthenticate"] = fw_deauthenticate(c)
      /\ CommandsOf(c)["block"] = ndsctl_mac("mangle BLOCKED")
      /\ CommandsOf(c)["trust"] = ndsctl_mac("mangle TRUSTED")
  BY DEF CommandsOf
<1> QED
  BY <1>1, <1>2, Zenon

LEMMA CommandsAreWellFormed ==
    /\ \A cmd \in DestroyCommand : WellFormed(cmd)
    /\ \A cmd \in BuildCommand : WellFormed(cmd)
    /\ \A cmd \in AccessCommand : WellFormed(cmd)
    /\ \A chain \in OwnChain : \A cmd \in MacCommands(chain) : WellFormed(cmd)
    /\ \A c \in BuiltIn : WellFormed(TryInsert(c)) /\ WellFormed(DeleteNth(c, 1))
    /\ WellFormed(Lock) /\ WellFormed(Unlock)
<1> USE DEF WellFormed, Changing, Chain
<1>1. ASSUME NEW cmd \in DestroyCommand PROVE WellFormed(cmd)
  BY DEF DestroyCommand
<1>2. ASSUME NEW cmd \in BuildCommand PROVE WellFormed(cmd)
  <2>1. cmd \in CommandType
    BY DEF BuildCommand
  <2>2. cmd.op \in Changing => cmd.on \in Chain
    BY JumpTypes DEF BuildCommand, Made
  <2>3. cmd.op \in {"-I", "-A", "class add"} => cmd.to \in Rule
    BY JumpTypes DEF BuildCommand, Rule, OwnRule
  <2>4. cmd.op \in {"-I", "-D"} => cmd.at >= 1
    <3>1. cmd.op \in {"-I", "-D"} => cmd.at \in 1 .. 3
      BY DEF BuildCommand
    <3> QED
      BY <3>1
  <2> QED
    BY <2>1, <2>2, <2>3, <2>4
<1>3. ASSUME NEW cmd \in AccessCommand PROVE WellFormed(cmd)
  BY DEF AccessCommand, OwnChain, MangleChain, Rule, OwnRule
<1>4. ASSUME NEW chain \in OwnChain, NEW cmd \in MacCommands(chain) PROVE WellFormed(cmd)
  BY DEF MacCommands, Rule, OwnRule
<1>5. ASSUME NEW c \in BuiltIn PROVE WellFormed(TryInsert(c)) /\ WellFormed(DeleteNth(c, 1))
  <2>1. TryInsert(c) \in CommandType /\ DeleteNth(c, 1) \in CommandType
    BY DEF TryInsert, DeleteNth, Insert, Unchecked, Command, CommandType, Op, Rule, OwnRule
  <2>2. /\ TryInsert(c).on = c /\ DeleteNth(c, 1).on = c
        /\ TryInsert(c).to = "test" /\ TryInsert(c).op = "-I" /\ DeleteNth(c, 1).op = "-D"
    BY DEF TryInsert, DeleteNth, Insert, Unchecked, Command
  <2>3. TryInsert(c).at = 1 /\ DeleteNth(c, 1).at = 1
    BY DEF TryInsert, DeleteNth, Insert, Unchecked, Command
  <2>4. "test" \in Rule /\ 1 >= 1
    BY DEF Rule, OwnRule
  <2> QED
    BY <2>1, <2>2, <2>3, <2>4
<1>6. WellFormed(Lock) /\ WellFormed(Unlock)
  BY DEF Lock, Unlock, Command, CommandType, Op
<1> QED
  BY <1>1, <1>2, <1>3, <1>4, <1>5, <1>6

\* The commands of the start are of one of three kinds.
LEMMA InitCommands ==
    ASSUME NEW s, StartsWithTries(s), NEW i \in 1 .. Len(s)
    PROVE  /\ i \notin {4, 6} => s[i].op # "-D"
           /\ i \in {1, 2} => s[i] = Lock \/ s[i] = Unlock
           /\ i = 3 => s[i] = TryInsert("mangle PREROUTING")
           /\ i = 4 => s[i] = DeleteNth("mangle PREROUTING", 1)
           /\ i = 5 => s[i] = TryInsert("filter FORWARD")
           /\ i = 6 => s[i] = DeleteNth("filter FORWARD", 1)
           /\ i >= 7 => s[i] \in BuildCommand
           /\ WellFormed(s[i])
<1>1. i = 1 \/ i = 2 \/ i = 3 \/ i = 4 \/ i = 5 \/ i = 6 \/ (i >= 7 /\ i \in 7 .. Len(s))
  <2>1. PICK n \in Nat : n = Len(s)
    BY LenProperties DEF StartsWithTries
  <2>2. i \in 1 .. n
    BY <2>1
  <2>3. i = 1 \/ i = 2 \/ i = 3 \/ i = 4 \/ i = 5 \/ i = 6 \/ i \in 7 .. n
    BY <2>2
  <2>4. i \in 7 .. n => i >= 7
    OBVIOUS
  <2> QED
    BY <2>1, <2>3, <2>4, Zenon
<1>2. /\ Lock.op # "-D" /\ Unlock.op # "-D"
      /\ \A c : TryInsert(c).op # "-D"
      /\ \A cmd \in BuildCommand : cmd.op # "-D"
  BY DEF Lock, Unlock, TryInsert, Insert, Unchecked, Command, BuildCommand
<1>3. "mangle PREROUTING" \in BuiltIn /\ "filter FORWARD" \in BuiltIn
  BY DEF BuiltIn
<1>4. ASSUME NEW cmd, WellFormed(cmd), s[i] = cmd PROVE WellFormed(s[i])
  BY <1>4
<1>5. /\ WellFormed(Lock) /\ WellFormed(Unlock)
      /\ WellFormed(TryInsert("mangle PREROUTING")) /\ WellFormed(TryInsert("filter FORWARD"))
      /\ WellFormed(DeleteNth("mangle PREROUTING", 1)) /\ WellFormed(DeleteNth("filter FORWARD", 1))
      /\ \A cmd \in BuildCommand : WellFormed(cmd)
  BY <1>3, CommandsAreWellFormed, Zenon
<1>6. /\ s[1] = Lock /\ s[2] = Unlock
      /\ s[3] = TryInsert("mangle PREROUTING") /\ s[4] = DeleteNth("mangle PREROUTING", 1)
      /\ s[5] = TryInsert("filter FORWARD") /\ s[6] = DeleteNth("filter FORWARD", 1)
      /\ \A n \in 7 .. Len(s) : s[n] \in BuildCommand
  BY Zenon DEF StartsWithTries
<1>7. WellFormed(s[i])
  BY <1>1, <1>5, <1>6, Zenon
<1>8. i \notin {4, 6} => s[i].op # "-D"
  BY <1>1, <1>2, <1>6, Zenon
<1>9. i >= 7 => s[i] \in BuildCommand
  <2>1. i >= 7 => ~(i = 1 \/ i = 2 \/ i = 3 \/ i = 4 \/ i = 5 \/ i = 6)
    OBVIOUS
  <2> QED
    BY <1>1, <1>6, <2>1, Zenon
<1> QED
  BY <1>6, <1>7, <1>8, <1>9, Zenon

LEMMA CommandOf ==
    ASSUME LifecycleTypes, Placed, NEW t \in Thread, CanRun(t)
    PROVE  /\ job[t] \in Cleaning \cup {"init", "access", "mac"}
           /\ WellFormed(Cmd(t))
           /\ job[t] \in Cleaning => /\ at[t] \in 1 .. Len(fw_destroy(conf))
                                     /\ Cmd(t) = fw_destroy(conf)[at[t]]
                                     /\ Cmd(t) \in DestroyCommand
           /\ job[t] = "init" => /\ at[t] \in 1 .. Len(fw_init(conf))
                                 /\ Cmd(t) = fw_init(conf)[at[t]]
           /\ job[t] = "access" => Cmd(t) \in AccessCommand
           /\ job[t] = "mac" => \E chain \in MacChain : Cmd(t) \in MacCommands(chain)
<1>0. at[t] \in Nat \ {0} /\ conf \in Conf
  BY DEF LifecycleTypes
<1>m. \A chain \in MacChain : chain \in OwnChain
  BY ConfAssumption DEF OwnChain, MangleChain
<1>1. PICK s : s = Commands[conf][prog[t]]
  OBVIOUS
<1>2. ~(at[t] > Len(s)) /\ Cmd(t) = s[at[t]]
  BY <1>1 DEF CanRun, Ended, Cmd
<1>3. \A S : s \in Seq(S) => at[t] \in 1 .. Len(s) /\ Cmd(t) \in S
  <2> SUFFICES ASSUME NEW S, s \in Seq(S) PROVE at[t] \in 1 .. Len(s) /\ Cmd(t) \in S
    OBVIOUS
  <2>1. at[t] \in 1 .. Len(s)
    BY <1>0, <1>2, LenProperties
  <2> QED
    BY <1>2, <2>1, ElementOfSeq
<1>4. CASE job[t] \in Cleaning
  <2>1. s = fw_destroy(conf)
    BY <1>0, <1>1, <1>4, ProgramsOf DEF Placed
  <2>2. s \in Seq(DestroyCommand)
    BY <2>1, DestroyProgram
  <2> QED
    BY <1>2, <1>3, <1>4, <2>1, <2>2, CommandsAreWellFormed DEF Cleaning
<1>5. CASE job[t] = "init"
  <2>1. s = fw_init(conf)
    BY <1>0, <1>1, <1>5, ProgramsOf DEF Placed
  <2>2. StartsWithTries(s)
    BY <2>1, InitProgram
  <2>3. at[t] \in 1 .. Len(s)
    BY <1>3, <2>2 DEF StartsWithTries
  <2>4. WellFormed(s[at[t]])
    BY <2>2, <2>3, InitCommands
  <2> QED
    BY <1>2, <1>5, <2>1, <2>3, <2>4 DEF Cleaning
<1>6. CASE job[t] = "access"
  <2>1. s = fw_authenticate(conf) \/ s = fw_deauthenticate(conf)
    BY <1>0, <1>1, <1>6, ProgramsOf DEF Placed
  <2>2. s \in Seq(AccessCommand)
    BY <2>1, RequestPrograms
  <2> QED
    BY <1>2, <1>3, <1>6, <2>2, CommandsAreWellFormed DEF Cleaning
<1>7. CASE job[t] = "mac"
  <2>1. \E chain \in MacChain : s \in Seq(MacCommands(chain))
    <3>1. \/ prog[t] = "block" /\ "mangle BLOCKED" \in MacChain
          \/ prog[t] = "trust" /\ "mangle TRUSTED" \in MacChain
      BY <1>7 DEF Placed
    <3>2. /\ prog[t] = "block" => s = ndsctl_mac("mangle BLOCKED")
          /\ prog[t] = "trust" => s = ndsctl_mac("mangle TRUSTED")
      BY <1>0, <1>1, ProgramsOf
    <3> QED
      BY <3>1, <3>2, RequestPrograms, Zenon
  <2>2. \E chain \in MacChain : Cmd(t) \in MacCommands(chain)
    BY <1>3, <2>1, Zenon
  <2>3. WellFormed(Cmd(t))
    BY <1>m, <2>2, CommandsAreWellFormed, Zenon
  <2> QED
    BY <1>7, <2>2, <2>3 DEF Cleaning
<1>8. job[t] \in Cleaning \cup {"init", "access", "mac"}
  <2> SUFFICES ASSUME job[t] \notin Cleaning \cup {"init", "access", "mac"} PROVE FALSE
    OBVIOUS
  <2>1. prog[t] = "none"
    BY DEF Placed, LifecycleTypes, Cleaning, Job
  <2>2. s = <<>>
    BY <1>0, <1>1, <2>1, ProgramsOf
  <2>3. Len(s) = 0
    BY <2>2
  <2> QED
    BY <1>0, <1>2, <2>3
<1> QED
  BY <1>4, <1>5, <1>6, <1>7, <1>8
----------------------------------------------------------------------------
(* Types, and what each thread runs.  *)

\* The steps of the threads' programs, and those that change no program.
ProgramStep(t) ==
    \/ LockConfig(t) \/ UnlockConfig(t) \/ Succeed(t) \/ Refuse(t)
    \/ ListMention(t) \/ DeleteMention(t) \/ Fault(t) \/ Shortage(t) \/ MentionFails(t)
RequestStep(w) ==
    \/ Authenticate(w) \/ Deauthenticate(w) \/ FinishRequest(w)
    \/ \E c \in MacChain : MacCommand(w, c)

LEMMA NextSteps ==
    ASSUME [Next]_vars
    PROVE  \/ FailToStart \/ StartLoop \/ FinishClean \/ FinishInit \/ CreateThreads
           \/ (\E t \in Thread : ProgramStep(t))
           \/ (\E t \in Thread : Exit(t) \/ GiveUp(t) \/ Deliver(t))
           \/ (\E w \in Worker : RequestStep(w))
           \/ Land \/ AllGone \/ Restart \/ UNCHANGED vars
BY Zenon DEF Next, RunProgram, ProgramStep, RequestStep

\* A thread that is in iptables_fw_destroy_mention() runs the clean-up.
LEMMA MentionCommand ==
    ASSUME LifecycleTypes, Placed, NEW t \in Thread, Mentions(t)
    PROVE  /\ Cmd(t).op = "mention" /\ Cmd(t).on \in Chain /\ job[t] \in Cleaning
           /\ Cmd(t) \in DestroyCommand /\ Cmd(t).on \in BuiltIn /\ Cmd(t).to \in OwnChain
<1>r. CanRun(t)
  BY DEF Mentions
<1>t. at[t] \in Nat \ {0}
  BY DEF LifecycleTypes
<1> QED
  <2>1. Cmd(t).op = "mention"
    BY DEF Mentions
  <2>2. job[t] \in Cleaning
    <3>1. job[t] = "init" => Cmd(t).op # "mention"
      <4>1. /\ Lock.op # "mention" /\ Unlock.op # "mention"
            /\ \A c : TryInsert(c).op # "mention" /\ DeleteNth(c, 1).op # "mention"
            /\ \A b \in BuildCommand : b.op # "mention"
        BY DEF Lock, Unlock, TryInsert, DeleteNth, Insert, Unchecked, Command, BuildCommand
      <4>2. ASSUME job[t] = "init" PROVE Cmd(t).op # "mention"
        <5>1. at[t] \in 1 .. Len(fw_init(conf)) /\ Cmd(t) = fw_init(conf)[at[t]]
          BY <1>r, <4>2, CommandOf
        <5>2. StartsWithTries(fw_init(conf))
          BY InitProgram
        <5>3. at[t] \in {1, 2} \/ at[t] = 3 \/ at[t] = 4 \/ at[t] = 5 \/ at[t] = 6 \/ at[t] >= 7
          BY <1>t
        <5>4. PICK s, i : s = fw_init(conf) /\ i = at[t]
          OBVIOUS
        <5>5. /\ i \in {1, 2} => s[i] = Lock \/ s[i] = Unlock
              /\ i = 3 => s[i] = TryInsert("mangle PREROUTING")
              /\ i = 4 => s[i] = DeleteNth("mangle PREROUTING", 1)
              /\ i = 5 => s[i] = TryInsert("filter FORWARD")
              /\ i = 6 => s[i] = DeleteNth("filter FORWARD", 1)
              /\ i >= 7 => s[i] \in BuildCommand
          BY <5>1, <5>2, <5>4, InitCommands, Zenon
        <5> QED
          BY <4>1, <5>1, <5>3, <5>4, <5>5, Zenon
      <4> QED
        BY <4>2
    <3>2. job[t] = "access" => Cmd(t).op # "mention"
      BY <1>r, CommandOf DEF AccessCommand
    <3>3. job[t] = "mac" => Cmd(t).op # "mention"
      BY <1>r, CommandOf DEF MacCommands
    <3> QED
      BY <1>r, <2>1, <3>1, <3>2, <3>3, CommandOf
  <2>3. Cmd(t) \in DestroyCommand
    BY <1>r, <2>2, CommandOf
  <2> QED
    BY <2>1, <2>2, <2>3 DEF DestroyCommand, Chain

\* The command that iptables_fw_destroy_mention() deletes a rule with.
LEMMA DeletionCommand ==
    ASSUME LifecycleTypes, Placed, NEW t \in Thread, Deletes(t)
    PROVE  /\ Mentions(t) /\ WellFormed(Deletion(t))
           /\ Deletion(t).op = "-D" /\ Deletion(t).on = Cmd(t).on /\ Deletion(t).at = found[t]
<1>0. Mentions(t) /\ found[t] > 0
  BY DEF Deletes
<1>1. PICK n \in Nat : n = found[t] /\ n >= 1
  BY <1>0 DEF LifecycleTypes
<1>2. PICK d \in Chain : d = Cmd(t).on
  BY <1>0, MentionCommand
<1>3. Deletion(t) = DeleteNth(d, n)
  BY <1>1, <1>2 DEF Deletion
<1>4. DeleteNth(d, n).op = "-D" /\ DeleteNth(d, n).on = d /\ DeleteNth(d, n).at = n
  BY DEF DeleteNth, Unchecked, Command
<1>5. DeleteNth(d, n) \in CommandType
  BY <1>1, <1>2 DEF DeleteNth, Unchecked, Command, CommandType, Op
<1>6. WellFormed(DeleteNth(d, n))
  BY <1>1, <1>2, <1>4, <1>5 DEF WellFormed, Changing
<1> QED
  BY <1>0, <1>1, <1>2, <1>3, <1>4, <1>6

\* What the kernel makes of a command.
LEMMA RunDone ==
    ASSUME NEW k \in Kernel, NEW cmd, WellFormed(cmd), NEW l, l = RunCommand(k, cmd)
    PROVE  l \in Kernel /\ (l = k \/ Done(k, cmd, l))
BY EffectDone DEF RunCommand

\* What a step of a program comes to.
GoesOn(t, n) == at' = [at EXCEPT ![t] = @ + n]
Same == kernel' = kernel

Took(t) ==
    /\ Cmd(t).op \notin {"lock", "unlock", "mention"} /\ Accepts(kernel, Cmd(t))
    /\ kernel' = Effect(kernel, Cmd(t)) /\ kernel' \in Kernel
    /\ Done(kernel, Cmd(t), kernel')
    /\ GoesOn(t, 1) /\ rc' = rc /\ faults' = faults
TookMutex(t) ==
    /\ Cmd(t).op \in {"lock", "unlock"}
    /\ Same /\ GoesOn(t, 1) /\ rc' = rc /\ faults' = faults
Missed(t) ==
    /\ Cmd(t).op \notin {"lock", "unlock", "mention"}
    /\ Same /\ GoesOn(t, Cmd(t).skip + 1)
    /\ rc' = IF job[t] = "init" /\ Cmd(t).must THEN 1 ELSE rc
    /\ \/ faults' = faults /\ ~Accepts(kernel, Cmd(t))
       \/ /\ faults' = faults + 1
          /\ Cmd(t).op \in {"link", "no link"} => Cmd(t).on \notin Imq
Waited(t) == Same /\ GoesOn(t, 0) /\ rc' = rc /\ faults' = faults + 1
Deleted(t) ==
    /\ Deletes(t) /\ kernel' \in Kernel
    /\ kernel' = kernel \/ Done(kernel, Deletion(t), kernel')
    /\ GoesOn(t, 0) /\ rc' = rc /\ faults' = faults
Listed(t) ==
    /\ Mentions(t) /\ Same /\ rc' = rc
    /\ \/ faults' = faults + 1 /\ (GoesOn(t, 0) \/ GoesOn(t, 1))
       \/ faults' = faults /\ GoesOn(t, 0)
       \/ faults' = faults /\ GoesOn(t, 1) /\ Mention(kernel, Cmd(t).on, Cmd(t).to) = 0

\* What becomes of the number that a thread read in a listing.
Read(t) ==
    \/ found' = [found EXCEPT ![t] = 0]
    \/ Same /\ GoesOn(t, 0) /\ UNCHANGED found
    \/ /\ Mentions(t) /\ Same /\ GoesOn(t, 0)
       /\ found' = [found EXCEPT ![t] = Mention(kernel, Cmd(t).on, Cmd(t).to)]

LEMMA Outcomes ==
    ASSUME LifecycleTypes, Placed, NEW t \in Thread, ProgramStep(t)
    PROVE  /\ CanRun(t) /\ UNCHANGED <<conf, status, job, prog, inFlight, disturbed, addedLate,
                                       sigterm_mutex, authenticated, requests>>
           /\ \/ Took(t) \/ TookMutex(t) \/ Missed(t) \/ Waited(t) \/ Deleted(t) \/ Listed(t)
<1>r. CanRun(t)
  BY DEF ProgramStep, LockConfig, UnlockConfig, Succeed, Refuse, ListMention, DeleteMention, Fault,
         Shortage, MentionFails, Execs, Deletes, Mentions
<1>0. CanRun(t) /\ UNCHANGED <<conf, status, job, prog, inFlight, disturbed, addedLate,
                               sigterm_mutex, authenticated, requests>>
  BY <1>r DEF ProgramStep, LockConfig, UnlockConfig, Succeed, Refuse, ListMention, DeleteMention, Fault,
         Shortage, MentionFails, Failed, GoOn, progVars, lateVars, mutexVars, countVars
<1>1. CASE LockConfig(t) \/ UnlockConfig(t)
  <2>1. TookMutex(t)
    BY <1>1 DEF LockConfig, UnlockConfig, TookMutex, Same, GoesOn, GoOn, countVars
  <2> QED
    BY <1>0, <2>1
<1>2. CASE Succeed(t)
  <2>1. WellFormed(Cmd(t)) /\ kernel \in Kernel
    BY <1>0, CommandOf DEF LifecycleTypes
  <2>2. Accepts(kernel, Cmd(t)) /\ kernel' = Effect(kernel, Cmd(t))
    BY <1>2 DEF Succeed
  <2>3. kernel' \in Kernel /\ Done(kernel, Cmd(t), kernel')
    BY <2>1, <2>2, EffectDone
  <2>4. Took(t)
    BY <1>2, <2>2, <2>3 DEF Succeed, Execs, Took, GoesOn, GoOn, countVars
  <2> QED
    BY <1>0, <2>4
<1>3. CASE Refuse(t)
  <2>1. Missed(t)
    BY <1>3 DEF Refuse, Failed, Execs, Missed, Same, GoesOn, GoOn
  <2> QED
    BY <1>0, <2>1
<1>4. CASE Fault(t)
  <2>1. Missed(t)
    BY <1>4 DEF Fault, Failed, Execs, Missed, Same, GoesOn, GoOn
  <2> QED
    BY <1>0, <2>1
<1>5. CASE Shortage(t)
  <2>1. CASE Failed(t)
    <3>1. Missed(t)
      BY <1>5, <2>1 DEF Shortage, Failed, Execs, Missed, Same, GoesOn, GoOn
    <3> QED
      BY <1>0, <3>1
  <2>2. CASE ~Failed(t)
    <3>1. UNCHANGED <<kernel, prog, at, rc>> /\ faults' = faults + 1
      BY <1>5, <2>2 DEF Shortage, progVars
    <3>2. at = [at EXCEPT ![t] = @ + 0]
      BY DEF LifecycleTypes
    <3>3. Waited(t)
      BY <3>1, <3>2 DEF Waited, Same, GoesOn
    <3> QED
      BY <1>0, <3>3
  <2> QED
    BY <2>1, <2>2
<1>6. CASE MentionFails(t)
  <2>1. GoesOn(t, 0) \/ GoesOn(t, 1)
    BY <1>6 DEF MentionFails, GoesOn, GoOn
  <2>2. Listed(t)
    BY <1>6, <2>1 DEF MentionFails, Listed, Same
  <2> QED
    BY <1>0, <2>2
<1>7. CASE ListMention(t)
  <2>0. at = [at EXCEPT ![t] = @ + 0]
    BY DEF LifecycleTypes
  <2>1. Listed(t)
    BY <1>7, <2>0 DEF ListMention, Listed, Same, GoesOn, GoOn, countVars
  <2> QED
    BY <1>0, <2>1
<1>8. CASE DeleteMention(t)
  <2>1. Deletes(t) /\ kernel' = RunCommand(kernel, Deletion(t)) /\ kernel \in Kernel
    BY <1>8 DEF DeleteMention, LifecycleTypes
  <2>2. kernel' \in Kernel /\ (kernel' = kernel \/ Done(kernel, Deletion(t), kernel'))
    BY <2>1, DeletionCommand, RunDone
  <2>3. Deleted(t)
    BY <1>8, <2>1, <2>2 DEF DeleteMention, Deleted, GoesOn, GoOn, countVars
  <2> QED
    BY <1>0, <2>3
<1> QED
  BY <1>1, <1>2, <1>3, <1>4, <1>5, <1>6, <1>7, <1>8 DEF ProgramStep

LEMMA Numbers ==
    ASSUME LifecycleTypes, NEW t \in Thread, ProgramStep(t)
    PROVE  Read(t)
<1>0. at = [at EXCEPT ![t] = @ + 0]
  BY DEF LifecycleTypes
<1>1. CASE LockConfig(t) \/ UnlockConfig(t) \/ Succeed(t) \/ Refuse(t) \/ Fault(t)
  BY <1>1 DEF LockConfig, UnlockConfig, Succeed, Refuse, Fault, Failed, GoOn, Read
<1>2. CASE Shortage(t)
  BY <1>0, <1>2 DEF Shortage, Failed, GoOn, progVars, Read, Same, GoesOn
<1>3. CASE ListMention(t)
  BY <1>0, <1>3 DEF ListMention, GoOn, Read, Same, GoesOn
<1>4. CASE DeleteMention(t) \/ MentionFails(t)
  BY <1>4 DEF DeleteMention, MentionFails, GoOn, Read
<1> QED
  BY <1>1, <1>2, <1>3, <1>4 DEF ProgramStep

LEMMA ProgramSteps ==
    ASSUME LifecycleTypes, Placed, NEW t \in Thread, ProgramStep(t)
    PROVE  /\ CanRun(t) /\ UNCHANGED <<conf, status, job, prog, inFlight, disturbed, addedLate,
                                       sigterm_mutex, authenticated, requests>>
           /\ rc' \in {0, 1} /\ faults' \in Nat /\ (faults' = 0 => faults = 0)
           /\ \E n \in Nat : GoesOn(t, n)
           /\ kernel' \in Kernel /\ found' \in [Thread -> Nat]
<1>1. /\ CanRun(t) /\ UNCHANGED <<conf, status, job, prog, inFlight, disturbed, addedLate,
                                  sigterm_mutex, authenticated, requests>>
      /\ Took(t) \/ TookMutex(t) \/ Missed(t) \/ Waited(t) \/ Deleted(t) \/ Listed(t)
  BY Outcomes
<1>2. Cmd(t).skip + 1 \in Nat /\ 0 \in Nat /\ 1 \in Nat
  <2>1. WellFormed(Cmd(t))
    BY <1>1, CommandOf
  <2>2. Cmd(t) \in CommandType
    BY <2>1 DEF WellFormed
  <2>3. Cmd(t).skip \in Nat
    BY <2>2 DEF CommandType
  <2> QED
    BY <2>3
<1>3. \E n \in Nat : GoesOn(t, n)
  BY <1>1, <1>2, Zenon DEF Took, TookMutex, Missed, Waited, Deleted, Listed
<1>4. faults' = faults \/ faults' = faults + 1
  BY <1>1, Zenon DEF Took, TookMutex, Missed, Waited, Deleted, Listed
<1>5. kernel' \in Kernel /\ rc' \in {0, 1}
  BY <1>1 DEF LifecycleTypes, Took, TookMutex, Missed, Waited, Deleted, Listed, Same
<1>6. faults \in Nat
  BY DEF LifecycleTypes
<1>7. found' \in [Thread -> Nat]
  <2>1. Mentions(t) => Mention(kernel, Cmd(t).on, Cmd(t).to) \in Nat
    <3> SUFFICES ASSUME Mentions(t) PROVE Mention(kernel, Cmd(t).on, Cmd(t).to) \in Nat
      OBVIOUS
    <3>1. Cmd(t).on \in Chain /\ kernel \in Kernel
      BY MentionCommand DEF LifecycleTypes
    <3>2. Mention(kernel, Cmd(t).on, Cmd(t).to) \in 0 .. Len(kernel.rules[Cmd(t).on])
      BY <3>1, MentionFirst
    <3> QED
      BY <3>2
  <2> QED
    BY <2>1, Numbers DEF Read, LifecycleTypes
<1> QED
  BY <1>1, <1>3, <1>4, <1>5, <1>6, <1>7

\* A command in flight takes effect, or the kernel refuses it.
LEMMA Landings ==
    ASSUME LifecycleTypes, Land
    PROVE  /\ UNCHANGED <<conf, status, job, prog, at, found, rc, sigterm_mutex, authenticated,
                          faults, requests>>
           /\ kernel' \in Kernel /\ inFlight' \subseteq inFlight /\ inFlight # {}
           /\ \E run \in inFlight :
                 /\ WellFormed(run[2])
                 /\ \/ UNCHANGED <<kernel, disturbed, addedLate>>
                    \/ Done(kernel, run[2], kernel') /\ Landed(run[2])
<1>1. PICK run \in inFlight :
          /\ inFlight' = inFlight \ {run}
          /\ IF Accepts(kernel, run[2]) THEN Landed(run[2])
                                       ELSE UNCHANGED <<kernel, disturbed, addedLate>>
          /\ UNCHANGED <<conf, status, threadVars, rc, mutexVars, authenticated, countVars>>
  BY Zenon DEF Land
<1>2. UNCHANGED <<conf, status, job, prog, at, found, rc, sigterm_mutex, authenticated,
                  faults, requests>>
  BY <1>1 DEF threadVars, progVars, mutexVars, countVars
<1>3. WellFormed(run[2]) /\ kernel \in Kernel
  BY <1>1 DEF LifecycleTypes
<1>4. CASE Accepts(kernel, run[2])
  <2>1. Landed(run[2]) /\ kernel' = Effect(kernel, run[2])
    BY <1>1, <1>4 DEF Landed
  <2>2. kernel' \in Kernel /\ Done(kernel, run[2], kernel')
    BY <1>3, <1>4, <2>1, EffectDone
  <2> QED
    BY <1>1, <1>2, <1>3, <2>1, <2>2
<1>5. CASE ~Accepts(kernel, run[2])
  BY <1>1, <1>2, <1>3, <1>5
<1> QED
  BY <1>4, <1>5

Control == LifecycleTypes /\ Placed /\ StartsAlone /\ OneCleanUp /\ HeldInHandler

\* What starting a program in thread t leaves.
LEMMA DoOne ==
    ASSUME LifecycleTypes, NEW t \in Thread, NEW j \in Job, NEW p \in Program, Do(t, j, p)
    PROVE  /\ job' \in [Thread -> Job] /\ prog' \in [Thread -> Program]
           /\ at' \in [Thread -> Nat \ {0}] /\ found' \in [Thread -> Nat]
           /\ job'[t] = j /\ prog'[t] = p /\ at'[t] = 1 /\ found'[t] = 0
           /\ \A u \in Thread : u # t =>
                 job'[u] = job[u] /\ prog'[u] = prog[u] /\ at'[u] = at[u] /\ found'[u] = found[u]
<1>1. 1 \in Nat \ {0} /\ 0 \in Nat
  OBVIOUS
<1> QED
  BY <1>1, Zenon DEF LifecycleTypes, Do

LEMMA MainIsAThread == Main \in Thread /\ Worker \subseteq Thread /\ NULL \notin Thread
BY ThreadAssumption DEF Thread

\* The kernel before wifi-cat was ever started.
LEMMA EmptyKernelType == EmptyKernel(Others) \in Kernel
<1>1. PICK k : k = EmptyKernel(Others)
  OBVIOUS
<1>2. \A c \in Chain : k.rules[c] \in Seq(Rule)
  <2>1. \A c \in BuiltIn : Others[c] \in Seq(Rule)
    <3>1. \A s : s \in Seq(OtherRule) => s \in Seq(Rule)
      BY SeqDef DEF Rule
    <3> QED
      BY <3>1, OthersAssumption
  <2> QED
    BY <1>1, <2>1 DEF EmptyKernel
<1>3. k = [chains |-> BuiltIn, rules |-> [c \in Chain |-> k.rules[c]]]
  BY <1>1 DEF EmptyKernel
<1>4. BuiltIn \subseteq Chain
  BY DEF Chain
<1> QED
  BY <1>1, <1>2, <1>3, <1>4 DEF Kernel

LEMMA ControlInit ==
    ASSUME Init
    PROVE  Control
<1>1. kernel \in Kernel
  BY EmptyKernelType DEF Init
<1>2. job \in [Thread -> Job] /\ prog \in [Thread -> Program]
  BY DEF Init, JobsAtStart, Job, Program
<1>3. LifecycleTypes
  <2>1. at \in [Thread -> Nat \ {0}] /\ rc \in {0, 1} /\ faults \in Nat /\ requests \in Nat
    BY DEF Init
  <2>2. /\ conf \in Conf /\ status = "running" /\ sigterm_mutex = NULL
        /\ authenticated \in BOOLEAN
        /\ found \in [Thread -> Nat] /\ inFlight = {}
    BY DEF Init
  <2> QED
    BY <1>1, <1>2, <2>1, <2>2, Zenon DEF LifecycleTypes
<1>4. \A t \in Thread : job[t] \in {"boot", "none"} /\ prog[t] = "none"
  BY DEF Init, JobsAtStart
<1>5. Placed /\ OneCleanUp
  BY <1>4 DEF Placed, OneCleanUp, Cleaning
<1>6. StartsAlone
  BY ThreadAssumption, MainIsAThread DEF StartsAlone, Init, JobsAtStart, Starting
<1>7. HeldInHandler
  BY MainIsAThread DEF Init, HeldInHandler
<1> QED
  BY <1>3, <1>5, <1>6, <1>7 DEF Control

\* The handler makes a thread the one that cleans up, or ends it.
LEMMA Handled ==
    ASSUME Control, NEW t \in Thread, Deliver(t) \/ GiveUp(t)
    PROVE  /\ UNCHANGED <<conf, kernel, status, disturbed, addedLate, rc, authenticated, requests>>
           /\ \A run \in inFlight' \ inFlight : run[2] \in Child(t)
           /\ Running /\ job[t] \notin {"none", "dead"}
           /\ faults' \in Nat /\ (faults' = 0 => faults = 0)
           /\ \/ sigterm_mutex = NULL /\ sigterm_mutex' = t /\ Do(t, "terminate", "destroy")
              \/ sigterm_mutex # NULL /\ sigterm_mutex' = sigterm_mutex /\ Do(t, "dead", "none")
<1>1. faults \in Nat
  BY DEF Control, LifecycleTypes
<1>2. \A run \in inFlight' \ inFlight : run[2] \in Child(t)
  <2>1. CASE Deliver(t)
    <3>1. PICK running \in SUBSET Child(t) :
              inFlight' = inFlight \cup {<<troubles, cmd>> : cmd \in running}
      BY <2>1 DEF Deliver
    <3> QED
      BY <3>1
  <2>2. CASE GiveUp(t)
    BY <2>2 DEF GiveUp
  <2> QED
    BY <2>1, <2>2
<1> QED
  BY <1>1, <1>2 DEF Deliver, GiveUp, termination_handler, Begin

\* What the thread that a signal hits may leave running is a command of its own.
LEMMA ChildCommand ==
    ASSUME LifecycleTypes, Placed, NEW t \in Thread, NEW cmd \in Child(t)
    PROVE  /\ WellFormed(cmd)
           /\ \/ CanRun(t) /\ cmd = Cmd(t)
              \/ Deletes(t) /\ cmd = Deletion(t)
<1>1. CASE Execs(t)
  BY <1>1, CommandOf DEF Child, Execs
<1>2. CASE ~Execs(t)
  BY <1>2, DeletionCommand DEF Child
<1> QED
  BY <1>1, <1>2

\* The steps by which a thread starts another program, and what it was doing before.
Turn(t, j, p) ==
    /\ Do(t, j, p) /\ j \in Job /\ p \in Program
    /\ UNCHANGED <<conf, kernel, status, inFlight, disturbed, addedLate, rc, faults>>
    /\ authenticated' \in BOOLEAN /\ requests' \in Nat
    /\ Running

\* A turn of the main thread in the start, and one of a worker with a request.
MainTurn ==
    /\ UNCHANGED <<sigterm_mutex, authenticated, requests>>
    /\ \/ job[Main] = "boot" /\ Turn(Main, "clean", "destroy")
       \/ job[Main] = "clean" /\ Ended(Main) /\ Turn(Main, "init", "init")
       \/ job[Main] = "init" /\ Ended(Main) /\ rc = 0 /\ Turn(Main, "create", "none")
       \/ job[Main] = "init" /\ Ended(Main) /\ rc # 0 /\ Turn(Main, "undo", "destroy")
WorkerTurn(w) ==
    /\ UNCHANGED sigterm_mutex
    /\ \/ /\ job[w] = "idle" /\ Turn(w, "access", "authenticate")
          /\ requests' = requests + 1
       \/ /\ job[w] = "idle" /\ Turn(w, "access", "deauthenticate")
          /\ authenticated /\ UNCHANGED requests
       \/ /\ job[w] = "idle" /\ "mangle BLOCKED" \in MacChain /\ Turn(w, "mac", "block")
          /\ requests' = requests + 1 /\ UNCHANGED authenticated
       \/ /\ job[w] = "idle" /\ "mangle TRUSTED" \in MacChain /\ Turn(w, "mac", "trust")
          /\ requests' = requests + 1 /\ UNCHANGED authenticated
       \/ /\ job[w] \in {"access", "mac"} /\ Turn(w, "idle", "none")
          /\ UNCHANGED <<requests, authenticated>>

LEMMA MainTurns ==
    ASSUME LifecycleTypes, StartLoop \/ FinishClean \/ FinishInit
    PROVE  MainTurn
BY DEF LifecycleTypes, StartLoop, FinishClean, FinishInit, MainTurn, Turn, Job, Program,
       lateVars, mutexVars, countVars

LEMMA WorkerTurns ==
    ASSUME LifecycleTypes, NEW w \in Worker, RequestStep(w)
    PROVE  WorkerTurn(w)
<1>0. requests + 1 \in Nat
  BY DEF LifecycleTypes
<1>1. CASE Authenticate(w)
  <2>1. /\ Running /\ job[w] = "idle" /\ Do(w, "access", "authenticate")
        /\ requests' = requests + 1 /\ authenticated' \in BOOLEAN
        /\ UNCHANGED <<conf, kernel, status, inFlight, disturbed, addedLate, rc, faults, sigterm_mutex>>
    BY <1>1 DEF Authenticate, CountRequest, Serve, lateVars, mutexVars
  <2> QED
    BY <1>0, <2>1 DEF WorkerTurn, Turn, Job, Program
<1>2. CASE Deauthenticate(w)
  BY <1>2 DEF LifecycleTypes, Deauthenticate, Serve, WorkerTurn, Turn, Job, Program,
         lateVars, mutexVars
<1>3. CASE FinishRequest(w)
  BY <1>3 DEF LifecycleTypes, FinishRequest, WorkerTurn, Turn, Job, Program,
         lateVars, mutexVars, countVars
<1>4. ASSUME NEW c \in MacChain, MacCommand(w, c) PROVE WorkerTurn(w)
  <2>1. c \in {"mangle BLOCKED", "mangle TRUSTED"}
    BY ConfAssumption
  <2>2. /\ Running /\ job[w] = "idle"
        /\ requests' = requests + 1 /\ authenticated' = authenticated
        /\ UNCHANGED <<conf, kernel, status, inFlight, disturbed, addedLate, rc, faults, sigterm_mutex>>
        /\ Do(w, "mac", IF c = "mangle BLOCKED" THEN "block" ELSE "trust")
    BY <1>4 DEF MacCommand, CountRequest, Serve, lateVars, mutexVars
  <2>3. authenticated' \in BOOLEAN
    BY <2>2 DEF LifecycleTypes
  <2>4. CASE c = "mangle BLOCKED"
    BY <1>0, <2>2, <2>3, <2>4 DEF WorkerTurn, Turn, Job, Program
  <2>5. CASE c = "mangle TRUSTED"
    BY <1>0, <2>2, <2>3, <2>5 DEF WorkerTurn, Turn, Job, Program
  <2> QED
    BY <2>1, <2>4, <2>5
<1> QED
  BY <1>1, <1>2, <1>3, <1>4 DEF RequestStep

\* What every step but a restart may do to what threads are doing.
LEMMA ControlTurn ==
    ASSUME Control, NEW t \in Thread, NEW j, NEW p, Turn(t, j, p),
           UNCHANGED sigterm_mutex, j # "terminate",
           j \in Cleaning => p = "destroy", j = "init" => p = "init",
           j = "access" => p \in {"authenticate", "deauthenticate"},
           j = "mac" => \/ p = "block" /\ "mangle BLOCKED" \in MacChain
                        \/ p = "trust" /\ "mangle TRUSTED" \in MacChain,
           j \in {"boot", "create", "serve", "dead", "none", "idle"} => p = "none",
           \/ t = Main /\ job[Main] \in Starting /\ j \in Starting
           \/ t \in Worker /\ job[t] \in {"idle", "access", "mac"} /\ j \in {"idle", "access", "mac"}
    PROVE  Control'
<1>1. /\ job' \in [Thread -> Job] /\ prog' \in [Thread -> Program]
      /\ at' \in [Thread -> Nat \ {0}] /\ found' \in [Thread -> Nat]
      /\ job'[t] = j /\ prog'[t] = p /\ at'[t] = 1
      /\ \A u \in Thread : u # t =>
            job'[u] = job[u] /\ prog'[u] = prog[u] /\ at'[u] = at[u]
  BY DoOne, Zenon DEF Control, Turn
<1>2. LifecycleTypes'
  BY <1>1 DEF Control, LifecycleTypes, Turn
<1>3. Placed'
  BY <1>1 DEF Control, Placed
<1>4. StartsAlone'
  BY <1>1, ThreadAssumption, MainIsAThread DEF Control, StartsAlone
<1>5. OneCleanUp'
  BY <1>1 DEF Control, OneCleanUp
<1>6. HeldInHandler'
  BY <1>1 DEF Control, HeldInHandler, Turn, Starting
<1> QED
  BY <1>2, <1>3, <1>4, <1>5, <1>6 DEF Control

LEMMA ControlNext ==
    ASSUME Control, [Next]_vars
    PROVE  Control'
<1> USE DEF Control
<1>1. CASE StartLoop \/ FinishClean \/ FinishInit
  <2>1. MainTurn
    BY <1>1, MainTurns
  <2>2. \E j, p : /\ Turn(Main, j, p) /\ UNCHANGED sigterm_mutex /\ job[Main] \in Starting
                  /\ \/ j \in {"clean", "undo"} /\ p = "destroy"
                     \/ j = "init" /\ p = "init"
                     \/ j = "create" /\ p = "none"
    BY <2>1 DEF MainTurn, Starting
  <2>3. PICK j, p : /\ Turn(Main, j, p) /\ UNCHANGED sigterm_mutex /\ job[Main] \in Starting
                    /\ \/ j \in {"clean", "undo"} /\ p = "destroy"
                       \/ j = "init" /\ p = "init"
                       \/ j = "create" /\ p = "none"
    BY <2>2, Zenon
  <2> QED
    BY <2>3, ControlTurn, MainIsAThread DEF Starting, Cleaning
<1>2. ASSUME NEW w \in Worker, RequestStep(w) PROVE Control'
  <2>1. WorkerTurn(w)
    BY <1>2, WorkerTurns
  <2>2. \E j, p : /\ Turn(w, j, p) /\ UNCHANGED sigterm_mutex /\ job[w] \in {"idle", "access", "mac"}
                  /\ \/ j = "access" /\ p \in {"authenticate", "deauthenticate"}
                     \/ j = "mac" /\ p = "block" /\ "mangle BLOCKED" \in MacChain
                     \/ j = "mac" /\ p = "trust" /\ "mangle TRUSTED" \in MacChain
                     \/ j = "idle" /\ p = "none"
    BY <2>1 DEF WorkerTurn
  <2>3. PICK j, p : /\ Turn(w, j, p) /\ UNCHANGED sigterm_mutex /\ job[w] \in {"idle", "access", "mac"}
                    /\ \/ j = "access" /\ p \in {"authenticate", "deauthenticate"}
                       \/ j = "mac" /\ p = "block" /\ "mangle BLOCKED" \in MacChain
                       \/ j = "mac" /\ p = "trust" /\ "mangle TRUSTED" \in MacChain
                       \/ j = "idle" /\ p = "none"
    BY <2>2, Zenon
  <2> QED
    BY <2>3, ControlTurn, MainIsAThread DEF Cleaning
<1>3. ASSUME NEW t \in Thread, ProgramStep(t) PROVE Control'
  <2>1. PICK n \in Nat : at' = [at EXCEPT ![t] = @ + n]
    BY <1>3, ProgramSteps, Zenon DEF GoesOn
  <2>2. /\ UNCHANGED <<conf, status, job, prog, inFlight, sigterm_mutex, authenticated, requests>>
        /\ rc' \in {0, 1} /\ faults' \in Nat /\ kernel' \in Kernel /\ found' \in [Thread -> Nat]
    BY <1>3, ProgramSteps DEF LifecycleTypes
  <2>3. LifecycleTypes'
    <3>1. at' \in [Thread -> Nat \ {0}]
      BY <2>1 DEF LifecycleTypes
    <3> QED
      BY <2>2, <3>1 DEF LifecycleTypes
  <2> QED
    BY <2>2, <2>3 DEF Placed, StartsAlone, OneCleanUp, HeldInHandler
<1>4. ASSUME NEW t \in Thread, Deliver(t) \/ GiveUp(t) PROVE Control'
  <2>1. /\ UNCHANGED <<conf, kernel, status, rc, authenticated, requests>>
        /\ \A run \in inFlight' \ inFlight : run[2] \in Child(t)
        /\ Running /\ job[t] \notin {"none", "dead"} /\ faults' \in Nat
    BY <1>4, Handled
  <2>2. \E j, p : /\ Do(t, j, p) /\ j \in Job /\ p \in Program
                  /\ \/ j = "terminate" /\ p = "destroy" /\ sigterm_mutex = NULL /\ sigterm_mutex' = t
                     \/ j = "dead" /\ p = "none" /\ sigterm_mutex # NULL /\ sigterm_mutex' = sigterm_mutex
    BY <1>4, Handled DEF Job, Program
  <2>3. PICK j, p : /\ Do(t, j, p) /\ j \in Job /\ p \in Program
                    /\ \/ j = "terminate" /\ p = "destroy" /\ sigterm_mutex = NULL /\ sigterm_mutex' = t
                       \/ j = "dead" /\ p = "none" /\ sigterm_mutex # NULL /\ sigterm_mutex' = sigterm_mutex
    BY <2>2, Zenon
  <2>4. /\ job' \in [Thread -> Job] /\ prog' \in [Thread -> Program]
        /\ at' \in [Thread -> Nat \ {0}] /\ found' \in [Thread -> Nat]
        /\ job'[t] = j /\ prog'[t] = p /\ at'[t] = 1
        /\ \A u \in Thread : u # t =>
              job'[u] = job[u] /\ prog'[u] = prog[u] /\ at'[u] = at[u]
    BY <2>3, DoOne, Zenon
  <2>5. LifecycleTypes'
    <3>1. \A run \in inFlight' : WellFormed(run[2])
      BY <2>1, ChildCommand DEF LifecycleTypes
    <3> QED
      BY <2>1, <2>3, <2>4, <3>1 DEF LifecycleTypes
  <2>6. Placed'
    BY <2>3, <2>4 DEF Placed, Cleaning
  <2>7. StartsAlone'
    BY <2>1, <2>3, <2>4, ThreadAssumption, MainIsAThread DEF StartsAlone, Starting
  <2>8. OneCleanUp'
    BY <2>3, <2>4, MainIsAThread DEF OneCleanUp
  <2>9. HeldInHandler'
    <3>1. sigterm_mutex' # NULL
      BY <2>3, MainIsAThread
    <3>2. \A u \in Thread : sigterm_mutex' = u => job'[u] \in {"terminate", "dead"}
      BY <2>3, <2>4 DEF HeldInHandler
    <3> QED
      BY <3>1, <3>2 DEF HeldInHandler
  <2> QED
    BY <2>5, <2>6, <2>7, <2>8, <2>9
<1>5. CASE CreateThreads
  <2>1. /\ job' = [t \in Thread |-> IF t = Main THEN "serve" ELSE "idle"]
        /\ UNCHANGED <<conf, kernel, status, prog, at, found, inFlight, rc, sigterm_mutex, authenticated,
                      faults, requests>>
        /\ job[Main] = "create"
    BY <1>5 DEF CreateThreads, progVars, lateVars, mutexVars, countVars
  <2>2. LifecycleTypes'
    BY <2>1 DEF LifecycleTypes, Job
  <2>3. \A t \in Thread : prog'[t] = "none"
    BY <2>1, ThreadAssumption DEF Placed, StartsAlone, Thread, Starting
  <2>4. Placed' /\ OneCleanUp'
    BY <2>1, <2>3 DEF Placed, OneCleanUp, Cleaning
  <2>5. StartsAlone'
    BY <2>1, ThreadAssumption, MainIsAThread DEF StartsAlone, Starting
  <2>6. \A t \in Thread : job[t] \notin {"terminate", "dead"}
    BY <2>1 DEF StartsAlone, Starting, Thread
  <2>7. HeldInHandler'
    BY <2>1, <2>6 DEF HeldInHandler
  <2> QED
    BY <2>2, <2>4, <2>5, <2>7
<1>6. CASE FailToStart \/ AllGone \/ \E t \in Thread : Exit(t)
  <2>1. /\ status' \in {"exited", "gone"}
        /\ UNCHANGED <<conf, kernel, job, prog, at, found, inFlight, rc, sigterm_mutex, authenticated,
                      faults, requests>>
    BY <1>6 DEF FailToStart, AllGone, Exit, threadVars, progVars, lateVars, mutexVars, countVars
  <2> QED
    BY <2>1 DEF LifecycleTypes, Placed, StartsAlone, OneCleanUp, HeldInHandler
<1>7. CASE Restart
  <2>1. /\ job' = JobsAtStart /\ prog' = [t \in Thread |-> "none"] /\ at' = [t \in Thread |-> 1]
        /\ found' = [t \in Thread |-> 0] /\ inFlight = {} /\ faults' = 0
        /\ UNCHANGED <<kernel, inFlight, requests>>
        /\ conf' \in Conf /\ status' = "running" /\ rc' = 0 /\ sigterm_mutex' = NULL
        /\ authenticated' = FALSE
    BY <1>7 DEF Restart
  <2>2. LifecycleTypes'
    <3>1. job' \in [Thread -> Job] /\ prog' \in [Thread -> Program]
      BY <2>1 DEF JobsAtStart, Job, Program
    <3>2. at' \in [Thread -> Nat \ {0}] /\ found' \in [Thread -> Nat] /\ rc' \in {0, 1} /\ faults' \in Nat
      BY <2>1
    <3> QED
      BY <2>1, <3>1, <3>2, Zenon DEF LifecycleTypes
  <2>3. \A t \in Thread : job'[t] \in {"boot", "none"} /\ prog'[t] = "none"
    BY <2>1 DEF JobsAtStart
  <2>4. Placed' /\ OneCleanUp'
    BY <2>3 DEF Placed, OneCleanUp, Cleaning
  <2>5. StartsAlone'
    BY <2>1, ThreadAssumption, MainIsAThread DEF StartsAlone, JobsAtStart, Starting
  <2>6. HeldInHandler'
    BY <2>1, MainIsAThread DEF HeldInHandler
  <2> QED
    BY <2>2, <2>4, <2>5, <2>6
<1>8. CASE UNCHANGED vars
  BY <1>8 DEF vars, threadVars, progVars, lateVars, mutexVars, countVars, LifecycleTypes, Placed,
              StartsAlone, OneCleanUp, HeldInHandler
<1>9. CASE Land
  <2>1. /\ UNCHANGED <<conf, status, job, prog, at, found, rc, sigterm_mutex, authenticated,
                      faults, requests>>
        /\ kernel' \in Kernel /\ inFlight' \subseteq inFlight
    BY <1>9, Landings
  <2> QED
    BY <2>1 DEF LifecycleTypes, Placed, StartsAlone, OneCleanUp, HeldInHandler
<1> QED
  BY <1>1, <1>2, <1>3, <1>4, <1>5, <1>6, <1>7, <1>8, <1>9, NextSteps

\* While the main thread starts the process, no command is in flight.
LEMMA NoneAtStart ==
    ASSUME Control, job[Main] \in Starting
    PROVE  inFlight = {} /\ sigterm_mutex = NULL
<1>1. \A t \in Thread : job[t] \notin {"terminate", "dead"}
  BY DEF Control, StartsAlone, Starting, Thread
<1> QED
  BY <1>1 DEF Control, HeldInHandler, LifecycleTypes

\* Whatever signals come and whatever fails, what each thread runs follows from what it is
\* doing, and the others start only when the main thread has built the chains.
THEOREM ControlHolds == Spec => []Control
<1>1. Init => Control
  BY ControlInit
<1>2. Control /\ [Next]_vars => Control'
  BY ControlNext
<1> QED
  BY <1>1, <1>2, PTL DEF Spec

\* Whatever signals come and whatever fails, no two threads clean up in
\* termination_handler() at once.
THEOREM OneCleansUp == Spec => []OneCleanUp
<1>1. Control => OneCleanUp
  BY DEF Control
<1> QED
  BY ControlHolds, <1>1, PTL
----------------------------------------------------------------------------
(* Rules of other programs.  *)

\* All but wifi-cat's jumps and the rules it tries the kernel with.
Foreign == Rule \ (OwnChain \cup {"test"})
KeepsForeign(k, l) ==
    \A c \in BuiltIn : Only(l.rules[c], Foreign) = Only(k.rules[c], Foreign)

\* A command of wifi-cat's in a chain of the kernel is one that inserts a jump or a test,
\* or deletes one.
Harmless(k, cmd) ==
    /\ cmd.op \in {"-F", "-A", "-D rule", "class add", "class del", "qdisc del"} => cmd.on \notin BuiltIn
    /\ cmd.op = "-I" => cmd.to \in OwnChain \cup {"test"}
    /\ cmd.op = "-D" => k.rules[cmd.on][cmd.at] \in OwnChain \cup {"test"}

\* A command changes no other chain's rules than those of its own.
LEMMA DoneElsewhere ==
    ASSUME NEW k, NEW l, NEW cmd, Done(k, cmd, l), NEW d \in Chain, d # cmd.on
    PROVE  l.rules[d] = k.rules[d]
<1>1. CASE cmd.op \in {"-N", "-X"} \/ cmd.op \notin Changing
  BY <1>1 DEF Done
<1>2. CASE cmd.op \in {"-I", "-A", "-F", "-D", "-D rule", "class add", "class del"}
  BY <1>2 DEF Done, Rewritten
<1>3. CASE cmd.op = "qdisc del"
  BY <1>3 DEF Done
<1> QED
  BY <1>1, <1>2, <1>3 DEF Changing

LEMMA HarmlessKeepsForeign ==
    ASSUME NEW k \in Kernel, NEW l, NEW cmd, WellFormed(cmd), Done(k, cmd, l), Harmless(k, cmd)
    PROVE  KeepsForeign(k, l)
<1> SUFFICES ASSUME NEW c \in BuiltIn PROVE Only(l.rules[c], Foreign) = Only(k.rules[c], Foreign)
  BY DEF KeepsForeign
<1>0. c \in Chain /\ k.rules[c] \in Seq(Rule)
  BY DEF Chain, Kernel
<1>1. ASSUME cmd.op # "-I" \/ cmd.on # c, cmd.op # "-D" \/ cmd.on # c
      PROVE  l.rules[c] = k.rules[c]
  <2>1. CASE cmd.op \in {"-I", "-D"}
    BY <1>0, <1>1, <2>1 DEF Done, Rewritten
  <2>2. CASE cmd.op \in {"-F", "-A", "-D rule", "class add", "class del", "qdisc del"}
    BY <1>0, <2>2 DEF Done, Rewritten, Harmless
  <2>3. CASE cmd.op \in {"-N", "-X"} \/ cmd.op \notin Changing
    BY <2>3 DEF Done
  <2> QED
    BY <2>1, <2>2, <2>3 DEF Changing
<1>2. CASE cmd.op = "-I" /\ cmd.on = c
  <2>1. l.rules[c] = InsertAt(k.rules[c], cmd.at, cmd.to) /\ cmd.at \in 1 .. Len(k.rules[c]) + 1
    BY <1>2 DEF Done, Rewritten
  <2>2. cmd.to \in Rule /\ cmd.to \notin Foreign
    BY <1>2 DEF Harmless, Foreign, WellFormed
  <2>3. Only(InsertAt(k.rules[c], cmd.at, cmd.to), Foreign) = Only(k.rules[c], Foreign)
    BY <1>0, <2>1, <2>2, OnlyInsert
  <2> QED
    BY <2>1, <2>3
<1>3. CASE cmd.op = "-D" /\ cmd.on = c
  <2>1. l.rules[c] = RemoveAt(k.rules[c], cmd.at) /\ cmd.at \in 1 .. Len(k.rules[c])
    BY <1>3 DEF Done, Rewritten
  <2>2. k.rules[c][cmd.at] \notin Foreign
    BY <1>3 DEF Harmless, Foreign
  <2> QED
    BY <1>0, <2>1, <2>2, OnlyRemove, Zenon
<1> QED
  BY <1>1, <1>2, <1>3

\* Imq devices and wifi-cat's chains are not the kernel's chains.
LEMMA ChainsApart == BuiltIn \cap (OwnChain \cup Imq) = {} /\ OwnChain \cap Imq = {}
BY DEF BuiltIn, OwnChain, MangleChain, FilterChain, Imq

LEMMA CommandsAreHarmless ==
    ASSUME NEW k
    PROVE  /\ \A cmd \in DestroyCommand \cup BuildCommand \cup AccessCommand : Harmless(k, cmd)
           /\ \A chain \in OwnChain : \A cmd \in MacCommands(chain) : Harmless(k, cmd)
           /\ \A c : Harmless(k, TryInsert(c))
<1>1. ASSUME NEW cmd \in DestroyCommand PROVE Harmless(k, cmd)
  BY ChainsApart DEF DestroyCommand, Harmless
<1>2. ASSUME NEW cmd \in BuildCommand PROVE Harmless(k, cmd)
  <2>1. /\ cmd.op \notin {"-F", "-D rule", "class del", "qdisc del", "-D"}
        /\ cmd.op = "class add" => cmd.on \in Imq
    BY DEF BuildCommand
  <2>2. cmd.op = "-A" => cmd.on \in OwnChain
    BY DEF BuildCommand, InnerJump, OwnChain, FilterChain
  <2>3. cmd.op = "-I" => cmd.to \in OwnChain
    BY DEF BuildCommand, TopJump, OwnChain, MangleChain, FilterChain
  <2> QED
    BY <2>1, <2>2, <2>3, ChainsApart DEF Harmless
<1>3. ASSUME NEW cmd \in AccessCommand PROVE Harmless(k, cmd)
  BY DEF AccessCommand, Harmless, BuiltIn, Imq
<1>4. ASSUME NEW chain \in OwnChain, NEW cmd \in MacCommands(chain) PROVE Harmless(k, cmd)
  BY ChainsApart DEF MacCommands, Harmless
<1>5. ASSUME NEW c PROVE Harmless(k, TryInsert(c))
  BY DEF Harmless, TryInsert, Insert, Unchecked, Command
<1> QED
  BY <1>1, <1>2, <1>3, <1>4, <1>5

\* The invariant: what is deleted by the number 1 in the start is the test; and a number
\* read in a listing is still that of the jump, unless a late command changed the chain.
NumbersStay ==
    \A t \in Thread : Deletes(t) /\ Cmd(t).on \notin disturbed =>
        found[t] = Mention(kernel, Cmd(t).on, Cmd(t).to)
OthersInvariant == Control /\ TestOnTop /\ NumbersStay /\ OthersKept

LEMMA OthersForm ==
    OthersKept <=> \A c \in BuiltIn \ disturbed : Only(kernel.rules[c], Foreign) = Others[c]
BY DEF OthersKept, Without, Foreign

LEMMA OthersInit ==
    ASSUME Init
    PROVE  OthersInvariant
<1>1. ASSUME NEW c \in BuiltIn PROVE Only(kernel.rules[c], Foreign) = Others[c]
  <2>1. kernel.rules[c] = Others[c]
    BY DEF Init, EmptyKernel, Chain
  <2>2. Others[c] \in Seq(OtherRule)
    BY OthersAssumption
  <2>3. \A i \in 1 .. Len(Others[c]) : Others[c][i] \in Foreign
    <3>1. OtherRule \subseteq Foreign
      BY RuleAssumption DEF Foreign, Rule, OwnRule
    <3> QED
      BY <2>2, <3>1, ElementOfSeq
  <2> QED
    BY <2>1, <2>2, <2>3, OnlyAll
<1>2. TestOnTop
  BY MainIsAThread DEF TestOnTop, Init, JobsAtStart
<1>3. NumbersStay
  BY DEF NumbersStay, Deletes, Init
<1> QED
  BY <1>1, <1>2, <1>3, ControlInit, OthersForm DEF OthersInvariant

\* In the start no thread but the main one runs a program.
LEMMA StartsByMain ==
    ASSUME Control, job[Main] = "init", NEW t \in Thread, CanRun(t)
    PROVE  t = Main
<1>1. t \in Worker => job[t] = "none"
  BY DEF Control, StartsAlone, Starting
<1> QED
  BY <1>1 DEF CanRun, Thread

\* The command that the main thread is at in the start.
LEMMA StartCommand ==
    ASSUME Control, job[Main] = "init", CanRun(Main), NEW c, c = Cmd(Main), NEW i, i = at[Main]
    PROVE  /\ WellFormed(c) /\ i \in Nat \ {0}
           /\ i \in {1, 2} => c \in {Lock, Unlock}
           /\ i = 3 => c = TryInsert("mangle PREROUTING")
           /\ i = 4 => c = DeleteNth("mangle PREROUTING", 1)
           /\ i = 5 => c = TryInsert("filter FORWARD")
           /\ i = 6 => c = DeleteNth("filter FORWARD", 1)
           /\ i >= 7 => c \in BuildCommand
           /\ i = 1 \/ i = 2 \/ i = 3 \/ i = 4 \/ i = 5 \/ i = 6 \/ i >= 7
           /\ c.op # "mention" /\ c.skip \in Nat
           /\ i \in {1, 2} => c.op \in {"lock", "unlock"}
<1>1. /\ WellFormed(c) /\ i \in 1 .. Len(fw_init(conf)) /\ c = fw_init(conf)[i]
  BY CommandOf, MainIsAThread DEF Control
<1>2. i \in Nat \ {0}
  BY MainIsAThread DEF Control, LifecycleTypes
<1>3. StartsWithTries(fw_init(conf))
  BY InitProgram
<1>4. PICK s : s = fw_init(conf)
  OBVIOUS
<1>5. /\ i \in {1, 2} => s[i] = Lock \/ s[i] = Unlock
      /\ i = 3 => s[i] = TryInsert("mangle PREROUTING")
      /\ i = 4 => s[i] = DeleteNth("mangle PREROUTING", 1)
      /\ i = 5 => s[i] = TryInsert("filter FORWARD")
      /\ i = 6 => s[i] = DeleteNth("filter FORWARD", 1)
      /\ i >= 7 => s[i] \in BuildCommand
  BY <1>1, <1>3, <1>4, InitCommands, Zenon
<1>6. i = 1 \/ i = 2 \/ i = 3 \/ i = 4 \/ i = 5 \/ i = 6 \/ i >= 7
  BY <1>2
<1>7. c.skip \in Nat
  <2>1. c \in CommandType
    BY <1>1 DEF WellFormed
  <2> QED
    BY <2>1 DEF CommandType
<1>8. /\ Lock.op = "lock" /\ Unlock.op = "unlock"
      /\ \A d : TryInsert(d).op = "-I" /\ DeleteNth(d, 1).op = "-D"
      /\ \A b \in BuildCommand : b.op # "mention"
  BY DEF Lock, Unlock, TryInsert, DeleteNth, Insert, Unchecked, Command, BuildCommand
<1>9. c = s[i]
  BY <1>1, <1>4
<1>10. c.op # "mention"
  <2>1. "lock" # "mention" /\ "unlock" # "mention" /\ "-I" # "mention" /\ "-D" # "mention"
    OBVIOUS
  <2> QED
    BY <1>5, <1>6, <1>8, <1>9, <2>1, Zenon
<1>11. i \in {1, 2} => c.op \in {"lock", "unlock"}
  BY <1>5, <1>8, <1>9, Zenon
<1> QED
  BY <1>1, <1>2, <1>4, <1>5, <1>6, <1>7, <1>10, <1>11, Zenon

\* Where a step of the start takes the main thread.
LEMMA TestOnTopStep ==
    ASSUME Control, TestOnTop, NEW t \in Thread, ProgramStep(t)
    PROVE  TestOnTop'
<1> SUFFICES ASSUME job[Main] = "init" PROVE TestOnTop'
  BY ProgramSteps DEF Control, TestOnTop
<1>1. CanRun(t) /\ job' = job
  BY ProgramSteps DEF Control
<1>2. t = Main
  BY <1>1, StartsByMain
<1>3. PICK i, c : i = at[Main] /\ c = Cmd(Main)
  OBVIOUS
<1>4. /\ WellFormed(c) /\ i \in Nat \ {0}
      /\ i \in {1, 2} => c \in {Lock, Unlock}
      /\ i = 3 => c = TryInsert("mangle PREROUTING")
      /\ i = 4 => c = DeleteNth("mangle PREROUTING", 1)
      /\ i = 5 => c = TryInsert("filter FORWARD")
      /\ i = 6 => c = DeleteNth("filter FORWARD", 1)
      /\ i >= 7 => c \in BuildCommand
      /\ i = 1 \/ i = 2 \/ i = 3 \/ i = 4 \/ i = 5 \/ i = 6 \/ i >= 7
      /\ c.op # "mention" /\ c.skip \in Nat
      /\ i \in {1, 2} => c.op \in {"lock", "unlock"}
  BY <1>1, <1>2, <1>3, StartCommand
<1>i. PICK h \in Nat : h = i
  BY <1>4
<1>m. c.op # "mention"
  BY <1>4
<1>d. ~Deleted(t) /\ ~Listed(t)
  BY <1>2, <1>3, <1>m DEF Deleted, Listed, Deletes, Mentions
<1>5. \A n : GoesOn(t, n) => at'[Main] = i + n
  BY <1>2, <1>3, MainIsAThread DEF GoesOn, Control, LifecycleTypes
<1>6. c.skip \in Nat
  BY <1>4, Zenon
<1>o. Took(t) \/ TookMutex(t) \/ Missed(t) \/ Waited(t) \/ Deleted(t) \/ Listed(t)
  BY Outcomes DEF Control
<1>7. CASE at'[Main] \notin {4, 6}
  BY <1>7 DEF TestOnTop
<1>8. CASE at'[Main] = i
  <2>1. Same
    <3>1. i + 1 # i /\ i + (c.skip + 1) # i
      BY <1>i, <1>6
    <3> QED
      BY <1>2, <1>3, <1>5, <1>8, <1>d, <1>o, <3>1, Zenon DEF Took, TookMutex, Missed, Waited
  <2> QED
    BY <1>1, <1>3, <1>8, <2>1 DEF TestOnTop, Same, FirstIs
<1>9. CASE at'[Main] # i /\ at'[Main] \in {4, 6}
  <2>1. \/ Took(t) /\ at'[Main] = i + 1
        \/ TookMutex(t) /\ at'[Main] = i + 1
        \/ Missed(t) /\ at'[Main] = i + (c.skip + 1)
    <3>1. i + 0 = i
      BY <1>i
    <3> QED
      BY <1>2, <1>3, <1>5, <1>9, <1>d, <1>o, <3>1, Zenon DEF Took, TookMutex, Missed, Waited
  <2>2. /\ TryInsert("mangle PREROUTING").skip = 1 /\ TryInsert("filter FORWARD").skip = 1
        /\ DeleteNth("mangle PREROUTING", 1).skip = 0 /\ DeleteNth("filter FORWARD", 1).skip = 0
    BY DEF TryInsert, DeleteNth, Insert, Unchecked, Command
  <2>3. i \in {1, 2} => TookMutex(t)
    <3>1. i \in {1, 2} => c.op \in {"lock", "unlock"}
      BY <1>4, Zenon
    <3> QED
      BY <1>2, <1>3, <2>1, <3>1 DEF Took, Missed
  <2>5. i \in {3, 5} /\ at'[Main] = i + 1 /\ Took(t)
    <3>1. ASSUME i \in {1, 2} PROVE FALSE
      <4>1. ~Took(t) /\ ~Missed(t)
        BY <2>3, <3>1 DEF Took, Missed, TookMutex
      <4>2. at'[Main] = i + 1
        BY <2>1, <4>1
      <4> QED
        BY <1>9, <3>1, <4>2
    <3>2. ASSUME i >= 7 PROVE FALSE
      <4>1. at'[Main] = i + 1 \/ at'[Main] = i + (c.skip + 1)
        BY <2>1
      <4>2. i + 1 > 7 /\ i + (c.skip + 1) > 7
        BY <1>i, <1>6, <3>2
      <4> QED
        BY <1>9, <4>1, <4>2
    <3>3. ASSUME i \in {4, 6} PROVE FALSE
      <4>1. c.skip = 0
        BY <1>4, <2>2, <3>3
      <4>2. at'[Main] = i + 1
        BY <2>1, <4>1
      <4> QED
        BY <1>9, <3>3, <4>2
    <3>4. i \in {3, 5}
      BY <1>4, <3>1, <3>2, <3>3
    <3>5. c.skip = 1 /\ c.op = "-I"
      BY <1>4, <2>2, <3>4 DEF TryInsert, Insert, Unchecked, Command
    <3>6. ~TookMutex(t)
      BY <1>2, <1>3, <3>5 DEF TookMutex
    <3>7. ~Missed(t)
      <4>1. i + (c.skip + 1) \notin {4, 6}
        BY <3>4, <3>5
      <4> QED
        BY <1>9, <2>1, <3>6, <4>1, <3>4, <1>5, <1>2, <1>3 DEF Missed
    <3> QED
      BY <2>1, <3>4, <3>6, <3>7
  <2>6. ASSUME NEW d \in BuiltIn, c = TryInsert(d) PROVE FirstIs(kernel', d, "test")
    <3>1. c.op = "-I" /\ c.on = d /\ c.at = 1 /\ c.to = "test"
      BY <2>6 DEF TryInsert, Insert, Unchecked, Command
    <3>2. kernel'.rules[d] = InsertAt(kernel.rules[d], 1, "test")
      BY <1>2, <1>3, <2>5, <3>1 DEF Took, Done, Rewritten
    <3>3. PICK s \in Seq(Rule) : s = kernel.rules[d]
      BY DEF Control, LifecycleTypes, Kernel, Chain
    <3>4. "test" \in Rule /\ 1 \in 1 .. Len(s) + 1
      <4>1. Len(s) \in Nat
        BY LenProperties
      <4>2. 1 \in 1 .. Len(s) + 1
        BY <4>1
      <4> QED
        BY <4>2 DEF Rule, OwnRule
    <3>5. PICK a \in Seq(Rule), b \in Seq(Rule) : Len(a) = 1 - 1 /\ Between(InsertAt(s, 1, "test"), a, "test", b)
      BY <3>4, InsertSplits, Zenon
    <3>6. InsertAt(s, 1, "test") = <<"test">> \o b
      BY <3>5 DEF Between
    <3>7. Len(b) \in Nat
      BY LenProperties
    <3>8. Len(<<"test">> \o b) >= 1 /\ (<<"test">> \o b)[1] = "test"
      BY <3>7
    <3> QED
      BY <3>2, <3>3, <3>6, <3>8 DEF FirstIs
  <2>7. FirstIs(kernel', IF i = 3 THEN "mangle PREROUTING" ELSE "filter FORWARD", "test")
    BY <1>4, <2>5, <2>6 DEF BuiltIn
  <2>8. (i = 3 => at'[Main] = 4) /\ (i = 5 => at'[Main] = 6)
    BY <2>5
  <2>9. CASE i = 3
    <3>1. at'[Main] = 4 /\ 4 # 6
      BY <2>8, <2>9
    <3>2. FirstIs(kernel', "mangle PREROUTING", "test")
      BY <2>7, <2>9
    <3> QED
      BY <3>1, <3>2 DEF TestOnTop, FirstIs
  <2>10. CASE i = 5
    <3>1. at'[Main] = 6 /\ 4 # 6 /\ 3 # 5
      BY <2>8, <2>10
    <3>2. FirstIs(kernel', "filter FORWARD", "test")
      <4>1. i # 3
        BY <2>10
      <4> QED
        BY <2>7, <4>1, Zenon
    <3> QED
      BY <3>1, <3>2 DEF TestOnTop, FirstIs
  <2> QED
    BY <2>5, <2>9, <2>10
<1> QED
  BY <1>7, <1>8, <1>9

\* In a chain that no late command changed, what is deleted by its number is the jump.
LEMMA DeletedRule ==
    ASSUME OthersInvariant, NEW t \in Thread, Deletes(t), Cmd(t).on \notin disturbed
    PROVE  Harmless(kernel, Deletion(t))
<1>1. /\ Mentions(t) /\ found[t] = Mention(kernel, Cmd(t).on, Cmd(t).to) /\ found[t] > 0
      /\ kernel \in Kernel
  BY DEF OthersInvariant, NumbersStay, Deletes, Control, LifecycleTypes
<1>2. Cmd(t).on \in Chain /\ Cmd(t).to \in OwnChain
  BY <1>1, MentionCommand DEF OthersInvariant, Control
<1>3. kernel.rules[Cmd(t).on][found[t]] = Cmd(t).to
  BY <1>1, <1>2, MentionFirst
<1>4. Deletion(t).op = "-D" /\ Deletion(t).on = Cmd(t).on /\ Deletion(t).at = found[t]
  BY DeletionCommand DEF OthersInvariant, Control
<1> QED
  BY <1>2, <1>3, <1>4 DEF Harmless

LEMMA OthersStep ==
    ASSUME OthersInvariant, NEW t \in Thread, ProgramStep(t)
    PROVE  \A c \in BuiltIn \ disturbed : Only(kernel'.rules[c], Foreign) = Only(kernel.rules[c], Foreign)
<1> USE DEF OthersInvariant
<1>0. CanRun(t) /\ kernel \in Kernel
  BY ProgramSteps DEF Control, LifecycleTypes
<1>o. Took(t) \/ TookMutex(t) \/ Missed(t) \/ Waited(t) \/ Deleted(t) \/ Listed(t)
  BY Outcomes DEF Control
<1>1. CASE Took(t)
  <2>1. WellFormed(Cmd(t)) /\ Done(kernel, Cmd(t), kernel')
    BY <1>0, <1>1, CommandOf DEF Took, Control
  <2>2. Harmless(kernel, Cmd(t))
    <3>1. CASE job[t] \in Cleaning \cup {"access"}
      <4>1. Cmd(t) \in DestroyCommand \cup AccessCommand
        BY <1>0, <3>1, CommandOf DEF Control
      <4> QED
        BY <4>1, CommandsAreHarmless
    <3>2. CASE job[t] = "mac"
      <4>1. \E chain \in OwnChain : Cmd(t) \in MacCommands(chain)
        <5>1. MacChain \subseteq OwnChain
          BY ConfAssumption DEF OwnChain, MangleChain
        <5> QED
          BY <1>0, <3>2, <5>1, CommandOf DEF Control
      <4> QED
        BY <4>1, CommandsAreHarmless
    <3>3. CASE job[t] = "init"
      <4>1. t = Main
        <5>1. \A w \in Worker : job[w] # "init"
          BY DEF Control, StartsAlone
        <5> QED
          BY <3>3, <5>1 DEF Thread
      <4>2. PICK i, c : i = at[Main] /\ c = Cmd(Main)
        OBVIOUS
      <4>3. /\ i \in {1, 2} => c.op \in {"lock", "unlock"}
            /\ i = 3 => c = TryInsert("mangle PREROUTING")
            /\ i = 4 => c = DeleteNth("mangle PREROUTING", 1)
            /\ i = 5 => c = TryInsert("filter FORWARD")
            /\ i = 6 => c = DeleteNth("filter FORWARD", 1)
            /\ i >= 7 => c \in BuildCommand
            /\ i = 1 \/ i = 2 \/ i = 3 \/ i = 4 \/ i = 5 \/ i = 6 \/ i >= 7
        BY <1>0, <3>3, <4>1, <4>2, StartCommand, Zenon
      <4>4. i \notin {1, 2}
        BY <1>1, <4>1, <4>2, <4>3 DEF Took
      <4>5. ASSUME NEW d, c = DeleteNth(d, 1), FirstIs(kernel, d, "test") PROVE Harmless(kernel, c)
        <5>1. c.op = "-D" /\ c.on = d /\ c.at = 1
          BY <4>5 DEF DeleteNth, Unchecked, Command
        <5> QED
          BY <4>5, <5>1 DEF Harmless, FirstIs
      <4>6. /\ i = 4 => FirstIs(kernel, "mangle PREROUTING", "test")
            /\ i = 6 => FirstIs(kernel, "filter FORWARD", "test")
        BY <3>3, <4>1, <4>2 DEF TestOnTop
      <4>7. (i = 4 \/ i = 6) => Harmless(kernel, c)
        BY <4>3, <4>5, <4>6, Zenon
      <4>8. (i = 3 \/ i = 5 \/ i >= 7) => Harmless(kernel, c)
        BY <4>3, CommandsAreHarmless, Zenon
      <4>9. ~(i = 1) /\ ~(i = 2)
        BY <4>4
      <4> QED
        BY <4>1, <4>2, <4>3, <4>7, <4>8, <4>9, Zenon
    <3> QED
      BY <1>0, <3>1, <3>2, <3>3, CommandOf DEF Control
  <2> QED
    BY <1>0, <2>1, <2>2, HarmlessKeepsForeign DEF KeepsForeign
<1>2. CASE Deleted(t)
  <2>1. Deletes(t) /\ (kernel' = kernel \/ Done(kernel, Deletion(t), kernel'))
    BY <1>2 DEF Deleted
  <2>2. WellFormed(Deletion(t)) /\ Deletion(t).on = Cmd(t).on
    BY <2>1, DeletionCommand DEF Control
  <2>3. CASE kernel' = kernel
    BY <2>3
  <2>4. CASE Done(kernel, Deletion(t), kernel') /\ Cmd(t).on \notin disturbed
    <3>1. KeepsForeign(kernel, kernel')
      BY <1>0, <2>1, <2>2, <2>4, DeletedRule, HarmlessKeepsForeign
    <3> QED
      BY <3>1 DEF KeepsForeign
  <2>5. CASE Done(kernel, Deletion(t), kernel') /\ Cmd(t).on \in disturbed
    <3>1. ASSUME NEW c \in BuiltIn \ disturbed PROVE kernel'.rules[c] = kernel.rules[c]
      <4>1. c \in Chain /\ c # Deletion(t).on
        BY <2>2, <2>5 DEF Chain
      <4> QED
        BY <2>5, <4>1, DoneElsewhere
    <3> QED
      BY <3>1
  <2> QED
    BY <2>1, <2>3, <2>4, <2>5
<1>3. CASE Same
  BY <1>3 DEF Same
<1> QED
  BY <1>o, <1>1, <1>2, <1>3 DEF TookMutex, Missed, Waited, Listed

\* Steps that are not of a program, but a restart and the creation of threads.
LEMMA OtherSteps ==
    ASSUME Control, [Next]_vars
    PROVE  \/ UNCHANGED <<kernel, disturbed>> \/ Land
           \/ \E t \in Thread : ProgramStep(t)
<1>1. CASE StartLoop \/ FinishClean \/ FinishInit
  BY <1>1 DEF StartLoop, FinishClean, FinishInit, lateVars
<1>2. CASE FailToStart \/ CreateThreads \/ AllGone \/ Restart
  BY <1>2 DEF FailToStart, CreateThreads, AllGone, Restart, lateVars
<1>3. CASE \E t \in Thread : Exit(t) \/ GiveUp(t) \/ Deliver(t)
  BY <1>3 DEF Exit, GiveUp, Deliver, termination_handler, lateVars
<1>4. ASSUME NEW w \in Worker, RequestStep(w) PROVE UNCHANGED <<kernel, disturbed>>
  BY <1>4, WorkerTurns DEF WorkerTurn, Turn, Control
<1> QED
  BY <1>1, <1>2, <1>3, <1>4, NextSteps DEF vars, lateVars

\* Where a late command took effect is noted.
LEMMA LandsNoted ==
    ASSUME Control, Land, NEW c \in BuiltIn \ disturbed'
    PROVE  kernel'.rules[c] = kernel.rules[c] /\ c \notin disturbed
<1>1. PICK run \in inFlight :
          \/ UNCHANGED <<kernel, disturbed>>
          \/ /\ Done(kernel, run[2], kernel')
             /\ disturbed' = disturbed \cup ({run[2].on} \cap BuiltIn)
  BY Landings DEF Control, Landed
<1>2. c \in Chain
  BY DEF Chain
<1> QED
  BY <1>1, <1>2, DoneElsewhere

\* The clean-up is not hindered by other threads, and goes on while they end.
LEMMA OthersRequest ==
    ASSUME Control, NEW t \in Thread, job[t] \in Cleaning, NEW u \in Thread, u # t, CanRun(u)
    PROVE  job[u] \in {"access", "mac"} /\ Cleaning \cap {"access", "mac", "init"} = {}
<1>1. job[u] \in Cleaning \cup {"init", "access", "mac"}
  BY CommandOf DEF Control
<1>2. \A w \in Worker : /\ job[w] \in {"none", "idle", "access", "mac", "terminate", "dead"}
                        /\ job[Main] \in Starting => job[w] = "none"
  BY DEF Control, StartsAlone
<1>3. ~(job[u] = "terminate" /\ job[t] = "terminate")
  BY DEF Control, OneCleanUp
<1>4. job[u] # "none"
  BY DEF CanRun
<1>5. (t = Main \/ t \in Worker) /\ (u = Main \/ u \in Worker)
  BY DEF Thread
<1>6. Cleaning \cap {"access", "mac", "init"} = {}
  BY DEF Cleaning
<1>7. CASE t = Main
  BY <1>1, <1>2, <1>3, <1>4, <1>5, <1>6, <1>7 DEF Cleaning, Starting
<1>8. CASE t \in Worker
  <2>1. job[t] = "terminate" /\ job[Main] \notin Starting
    BY <1>2, <1>8 DEF Cleaning
  <2> QED
    BY <1>1, <1>2, <1>3, <1>5, <1>6, <2>1 DEF Cleaning, Starting
<1> QED
  BY <1>5, <1>7, <1>8

LEMMA MentionSame ==
    ASSUME NEW k, NEW l, NEW c, NEW e, l.rules[c] = k.rules[c]
    PROVE  Mention(l, c, e) = Mention(k, c, e)
BY DEF Mention

\* A step of a program keeps the numbers that other threads read, or reads one.
LEMMA NumbersStep ==
    ASSUME OthersInvariant, NEW u \in Thread, ProgramStep(u)
    PROVE  NumbersStay'
<1> USE DEF OthersInvariant
<1> SUFFICES ASSUME NEW t \in Thread, Deletes(t)', Cmd(t)'.on \notin disturbed'
             PROVE  found'[t] = Mention(kernel', Cmd(t)'.on, Cmd(t)'.to)
  BY DEF NumbersStay
<1>0. /\ CanRun(u) /\ UNCHANGED <<conf, status, job, prog, disturbed>>
      /\ at \in [Thread -> Nat \ {0}] /\ found \in [Thread -> Nat]
  BY ProgramSteps DEF Control, LifecycleTypes
<1>1. found'[t] > 0 /\ Cmd(t)'.op = "mention" /\ CanRun(t)'
  BY DEF Deletes, Mentions
<1>2. Read(u)
  BY Numbers DEF Control
<1>3. ASSUME at'[t] = at[t], found'[t] = found[t] PROVE Deletes(t) /\ Cmd(t)' = Cmd(t)
  <2>1. Cmd(t)' = Cmd(t)
    BY <1>0, <1>3 DEF Cmd
  <2>2. CanRun(t)
    BY <1>0, <1>1, <1>3 DEF CanRun, Running, Ended
  <2> QED
    BY <1>1, <1>3, <2>1, <2>2 DEF Deletes, Mentions
<1>4. ASSUME at'[t] = at[t], found'[t] = found[t], kernel'.rules[Cmd(t).on] = kernel.rules[Cmd(t).on]
      PROVE  found'[t] = Mention(kernel', Cmd(t)'.on, Cmd(t)'.to)
  <2>1. Deletes(t) /\ Cmd(t)' = Cmd(t)
    BY <1>3, <1>4
  <2>2. found[t] = Mention(kernel, Cmd(t).on, Cmd(t).to)
    BY <1>0, <2>1 DEF NumbersStay
  <2> QED
    BY <1>4, <2>1, <2>2, MentionSame
<1>5. CASE t = u
  <2>1. CASE found' = [found EXCEPT ![u] = 0]
    BY <1>0, <1>1, <1>5, <2>1
  <2>2. CASE GoesOn(u, 0) /\ Same
    <3>1. at'[t] = at[t]
      BY <1>0, <1>5, <2>2 DEF GoesOn
    <3>2. CASE UNCHANGED found
      BY <1>4, <2>2, <3>1, <3>2 DEF Same
    <3>3. CASE found' = [found EXCEPT ![u] = Mention(kernel, Cmd(u).on, Cmd(u).to)]
      <4>1. Cmd(t)' = Cmd(t)
        BY <1>0, <3>1 DEF Cmd
      <4>2. found'[t] = Mention(kernel, Cmd(t).on, Cmd(t).to)
        BY <1>0, <1>5, <3>3
      <4> QED
        BY <2>2, <4>1, <4>2 DEF Same
    <3> QED
      BY <1>2, <2>1, <3>2, <3>3 DEF Read
  <2> QED
    BY <1>2, <2>1, <2>2 DEF Read
<1>6. CASE t # u
  <2>1. at'[t] = at[t] /\ found'[t] = found[t]
    <3>1. \E n : GoesOn(u, n)
      BY ProgramSteps DEF Control
    <3> QED
      BY <1>0, <1>2, <1>6, <3>1 DEF GoesOn, Read
  <2>2. Mentions(t) /\ job[t] \in Cleaning /\ Cmd(t).on \in BuiltIn
    BY <1>3, <2>1, MentionCommand DEF Deletes, Control
  <2>3. job[u] \in {"access", "mac"} /\ job[u] \notin Cleaning
    BY <1>0, <1>6, <2>2, OthersRequest
  <2>4. ~Mentions(u)
    BY <2>3, MentionCommand DEF Control
  <2>5. CASE Took(u)
    <3>1. Cmd(u) \in AccessCommand \/ \E chain \in MacChain : Cmd(u) \in MacCommands(chain)
      BY <1>0, <2>3, CommandOf DEF Control
    <3>2. Cmd(u).on \notin BuiltIn
      BY <2>5, <3>1, ConfAssumption DEF Took, AccessCommand, MacCommands, BuiltIn, Imq
    <3>3. Cmd(t).on \in Chain /\ Cmd(t).on # Cmd(u).on
      BY <2>2, <3>2 DEF Chain
    <3>4. kernel'.rules[Cmd(t).on] = kernel.rules[Cmd(t).on]
      BY <2>5, <3>3, DoneElsewhere DEF Took
    <3> QED
      BY <1>4, <2>1, <3>4
  <2>6. CASE Same
    BY <1>4, <2>1, <2>6 DEF Same
  <2> QED
    BY <2>4, <2>5, <2>6, Outcomes DEF Control, TookMutex, Missed, Waited, Deleted, Listed, Deletes
<1> QED
  BY <1>5, <1>6

\* The other steps keep them too, or their threads do something else.
LEMMA NumbersNext ==
    ASSUME OthersInvariant, [Next]_vars
    PROVE  NumbersStay'
<1> USE DEF OthersInvariant
<1>0. at \in [Thread -> Nat \ {0}] /\ conf \in Conf
  BY DEF Control, LifecycleTypes
<1>1. ASSUME NEW u \in Thread, ProgramStep(u) PROVE NumbersStay'
  BY <1>1, NumbersStep
<1>2. ASSUME \A t \in Thread : \/ found'[t] = 0
                               \/ ~Running'
                               \/ prog'[t] = "none" /\ at'[t] \in Nat \ {0} /\ conf' \in Conf
                               \/ UNCHANGED <<conf, status, job[t], prog[t], at[t], found[t]>>,
             \A c \in BuiltIn \ disturbed' : kernel'.rules[c] = kernel.rules[c] /\ c \notin disturbed
      PROVE  NumbersStay'
  <2> SUFFICES ASSUME NEW t \in Thread, Deletes(t)', Cmd(t)'.on \notin disturbed'
               PROVE  found'[t] = Mention(kernel', Cmd(t)'.on, Cmd(t)'.to)
    BY DEF NumbersStay
  <2>1. found'[t] > 0 /\ Cmd(t)'.op = "mention" /\ CanRun(t)'
    BY DEF Deletes, Mentions
  <2>2. ~(prog'[t] = "none" /\ at'[t] \in Nat \ {0} /\ conf' \in Conf)
    <3> SUFFICES ASSUME prog'[t] = "none", at'[t] \in Nat \ {0}, conf' \in Conf PROVE FALSE
      OBVIOUS
    <3>1. Commands[conf'][prog'[t]] = <<>>
      BY ProgramsOf
    <3>2. ~(at'[t] > Len(Commands[conf'][prog'[t]]))
      BY <2>1 DEF CanRun, Ended
    <3> QED
      BY <3>1, <3>2
  <2>3. UNCHANGED <<conf, status, job[t], prog[t], at[t], found[t]>>
    <3>1. found'[t] # 0 /\ Running'
      BY <2>1 DEF CanRun
    <3> QED
      BY <1>2, <2>2, <3>1
  <2>4. Cmd(t)' = Cmd(t)
    BY <2>3 DEF Cmd
  <2>5. Deletes(t)
    <3>1. CanRun(t)
      BY <2>1, <2>3 DEF CanRun, Running, Ended
    <3> QED
      BY <2>1, <2>3, <2>4, <3>1 DEF Deletes, Mentions
  <2>6. Cmd(t).on \in BuiltIn
    BY <2>5, MentionCommand DEF Deletes, Control
  <2>7. Cmd(t).on \notin disturbed /\ kernel'.rules[Cmd(t).on] = kernel.rules[Cmd(t).on]
    BY <1>2, <2>4, <2>6
  <2>8. found[t] = Mention(kernel, Cmd(t).on, Cmd(t).to)
    BY <2>5, <2>7 DEF NumbersStay
  <2> QED
    BY <2>3, <2>4, <2>7, <2>8, MentionSame
<1>3. CASE StartLoop \/ FinishClean \/ FinishInit
  <2>1. MainTurn
    BY <1>3, MainTurns DEF Control
  <2>2. PICK j \in Job, p \in Program : Turn(Main, j, p)
    BY <2>1 DEF MainTurn, Turn
  <2> QED
    BY <1>2, <2>2, DoOne, MainIsAThread DEF Turn, Control
<1>4. ASSUME NEW w \in Worker, RequestStep(w) PROVE NumbersStay'
  <2>1. WorkerTurn(w)
    BY <1>4, WorkerTurns DEF Control
  <2>2. PICK j \in Job, p \in Program : Turn(w, j, p)
    BY <2>1 DEF WorkerTurn, Turn
  <2> QED
    BY <1>2, <2>2, DoOne, MainIsAThread DEF Turn, Control
<1>5. ASSUME NEW t \in Thread, GiveUp(t) \/ Deliver(t) PROVE NumbersStay'
  <2>1. /\ UNCHANGED <<conf, kernel, status, disturbed>>
        /\ \E j \in Job, p \in Program : Do(t, j, p)
    BY <1>5, Handled DEF Job, Program
  <2> QED
    BY <1>2, <2>1, DoOne DEF Control
<1>6. CASE CreateThreads
  <2>1. UNCHANGED <<conf, kernel, prog, at, disturbed>> /\ job[Main] = "create"
    BY <1>6 DEF CreateThreads, progVars, lateVars
  <2>2. \A t \in Thread : prog'[t] = "none"
    BY <2>1, ThreadAssumption DEF Control, Placed, StartsAlone, Thread, Starting
  <2> QED
    BY <1>0, <1>2, <2>1, <2>2
<1>7. CASE Restart
  <2>1. (\A t \in Thread : found'[t] = 0) /\ UNCHANGED <<kernel, disturbed>>
    BY <1>7 DEF Restart
  <2> QED
    BY <1>2, <2>1
<1>8. CASE FailToStart \/ AllGone \/ \E t \in Thread : Exit(t)
  <2>1. ~Running' /\ UNCHANGED <<kernel, disturbed>>
    BY <1>8 DEF FailToStart, AllGone, Exit, Running, lateVars
  <2> QED
    BY <1>2, <2>1
<1>9. CASE UNCHANGED vars
  BY <1>2, <1>9 DEF vars, threadVars, progVars, lateVars
<1>10. CASE Land
  <2>1. UNCHANGED <<conf, status, job, prog, at, found>>
    BY <1>10, Landings DEF Control
  <2> QED
    BY <1>2, <1>10, <2>1, LandsNoted
<1> QED
  BY <1>1, <1>3, <1>4, <1>5, <1>6, <1>7, <1>8, <1>9, <1>10, NextSteps

LEMMA OthersNext ==
    ASSUME OthersInvariant, [Next]_vars
    PROVE  OthersInvariant'
<1> USE DEF OthersInvariant
<1>1. Control'
  BY ControlNext
<1>2. OthersKept'
  <2> SUFFICES ASSUME NEW c \in BuiltIn \ disturbed'
               PROVE  Only(kernel'.rules[c], Foreign) = Others[c]
    BY DEF OthersKept, Without, Foreign
  <2>1. ASSUME c \notin disturbed, Only(kernel'.rules[c], Foreign) = Only(kernel.rules[c], Foreign)
        PROVE  Only(kernel'.rules[c], Foreign) = Others[c]
    BY <2>1, OthersForm
  <2>2. CASE UNCHANGED <<kernel, disturbed>>
    BY <2>1, <2>2
  <2>3. CASE Land
    BY <2>1, <2>3, LandsNoted
  <2>4. ASSUME NEW t \in Thread, ProgramStep(t) PROVE Only(kernel'.rules[c], Foreign) = Others[c]
    <3>1. UNCHANGED disturbed
      BY <2>4, ProgramSteps DEF Control
    <3> QED
      BY <2>1, <2>4, <3>1, OthersStep
  <2> QED
    BY <2>2, <2>3, <2>4, OtherSteps
<1>3. TestOnTop'
  <2>1. CASE \E t \in Thread : ProgramStep(t)
    BY <2>1, TestOnTopStep
  <2>2. CASE ~ \E t \in Thread : ProgramStep(t)
    <3>a. ASSUME at'[Main] = 1 PROVE TestOnTop'
      <4>1. at'[Main] # 4 /\ at'[Main] # 6
        BY <3>a
      <4> QED
        BY <4>1 DEF TestOnTop
    <3>b. ASSUME job'[Main] = job[Main], at'[Main] = at[Main], kernel' = kernel PROVE TestOnTop'
      BY <3>b DEF TestOnTop, FirstIs
    <3> SUFFICES ASSUME job'[Main] = "init" PROVE at'[Main] = 1 \/ UNCHANGED <<job[Main], at[Main], kernel>>
      <4>1. CASE job'[Main] # "init"
        BY <4>1 DEF TestOnTop
      <4> QED
        BY <3>a, <3>b, <4>1
    <3>i. CASE Land
      <4>1. inFlight # {} /\ job' = job
        BY <3>i, Landings DEF Control
      <4> QED
        BY <4>1, NoneAtStart DEF Starting
    <3> SUFFICES ASSUME ~Land PROVE at'[Main] = 1 \/ UNCHANGED <<job[Main], at[Main], kernel>>
      BY <3>i
    <3>k. kernel' = kernel
      BY <2>2, OtherSteps
    <3>1. CASE StartLoop \/ FinishClean \/ FinishInit
      <4>1. MainTurn
        BY <3>1, MainTurns DEF Control
      <4>2. \E j, p : Turn(Main, j, p)
        BY <4>1 DEF MainTurn
      <4>3. at'[Main] = 1
        BY <4>2, DoOne, MainIsAThread DEF Turn, Control
      <4> QED
        BY <4>3
    <3>2. CASE CreateThreads \/ Restart
      <4>1. job'[Main] \in {"serve", "boot"}
        BY <3>2, MainIsAThread DEF CreateThreads, Restart, JobsAtStart
      <4> QED
        BY <4>1
    <3>3. CASE FailToStart \/ AllGone \/ UNCHANGED vars \/ \E t \in Thread : Exit(t)
      BY <3>k, <3>3 DEF FailToStart, AllGone, Exit, vars, threadVars, progVars
    <3>4. ASSUME NEW t \in Thread, GiveUp(t) \/ Deliver(t)
          PROVE at'[Main] = 1 \/ UNCHANGED <<job[Main], at[Main], kernel>>
      <4>1. PICK j \in Job, p \in Program : Do(t, j, p)
        BY <3>4, Handled DEF Job, Program
      <4> QED
        BY <3>k, <4>1, DoOne, MainIsAThread DEF Control
    <3>5. ASSUME NEW w \in Worker, RequestStep(w)
          PROVE at'[Main] = 1 \/ UNCHANGED <<job[Main], at[Main], kernel>>
      <4>1. WorkerTurn(w)
        BY <3>5, WorkerTurns DEF Control
      <4>2. PICK j \in Job, p \in Program : Do(w, j, p)
        BY <4>1 DEF WorkerTurn, Turn
      <4> QED
        BY <3>k, <4>2, DoOne, MainIsAThread DEF Control
    <3> QED
      BY <2>2, <3>1, <3>2, <3>3, <3>4, <3>5, NextSteps
  <2> QED
    BY <2>1, <2>2
<1>4. NumbersStay'
  BY NumbersNext
<1> QED
  BY <1>1, <1>2, <1>3, <1>4

\* wifi-cat inserts before the rules of other programs in the kernel's chains, tries the
\* kernel there, and deletes rules by their number, over leftovers of a crash too; it never
\* deletes one of theirs, nor changes their order.
THEOREM OthersStay == Spec => []OthersKept
<1>1. Init => OthersInvariant
  BY OthersInit
<1>2. OthersInvariant /\ [Next]_vars => OthersInvariant'
  BY OthersNext
<1>3. OthersInvariant => OthersKept
  BY DEF OthersInvariant
<1> QED
  BY <1>1, <1>2, <1>3, PTL DEF Spec
----------------------------------------------------------------------------
(* Rules that jump to wifi-cat's chains.  *)

\* What is in a sequence with an entry more or less.
LEMMA HasInserted ==
    ASSUME NEW T, NEW s \in Seq(T), NEW e \in T, NEW n \in 1 .. Len(s) + 1, NEW x,
           Has(InsertAt(s, n, e), x)
    PROVE  x = e \/ Has(s, x)
<1>1. PICK a \in Seq(T), b \in Seq(T) : Joined(s, a, b) /\ Between(InsertAt(s, n, e), a, e, b)
  BY InsertSplits, Zenon
<1>2. PICK t : t = InsertAt(s, n, e)
  OBVIOUS
<1>3. PICK i \in 1 .. Len(t) : t[i] = x
  BY <1>2 DEF Has
<1>4. PICK m \in Nat, k \in Nat : m = Len(a) /\ k = Len(b)
  BY LenProperties
<1>5. s = a \o b /\ t = (a \o <<e>>) \o b
  BY <1>1, <1>2 DEF Joined, Between
<1>6. Len(s) = m + k /\ Len(t) = m + 1 + k
  BY <1>4, <1>5
<1>7. CASE i <= m
  <2>1. t[i] = a[i] /\ s[i] = a[i] /\ i \in 1 .. Len(s)
    BY <1>4, <1>5, <1>6, <1>7
  <2> QED
    BY <1>3, <2>1 DEF Has
<1>8. CASE i = m + 1
  <2>1. t[i] = e
    BY <1>4, <1>5, <1>6, <1>8
  <2> QED
    BY <1>3, <2>1
<1>9. CASE i > m + 1
  <2>1. t[i] = b[i - (m + 1)] /\ s[i - 1] = b[i - 1 - m] /\ i - 1 \in 1 .. Len(s) /\ i - 1 - m = i - (m + 1)
    BY <1>4, <1>5, <1>6, <1>9
  <2> QED
    BY <1>3, <2>1 DEF Has
<1> QED
  BY <1>3, <1>4, <1>6, <1>7, <1>8, <1>9

LEMMA HasRemoved ==
    ASSUME NEW T, NEW s \in Seq(T), NEW n \in 1 .. Len(s), NEW x, Has(RemoveAt(s, n), x)
    PROVE  Has(s, x)
<1>1. PICK a \in Seq(T), b \in Seq(T) : Between(s, a, s[n], b) /\ Joined(RemoveAt(s, n), a, b)
  BY RemoveSplits, Zenon
<1>2. PICK t, e : t = RemoveAt(s, n) /\ e = s[n]
  OBVIOUS
<1>3. PICK i \in 1 .. Len(t) : t[i] = x
  BY <1>2 DEF Has
<1>4. PICK m \in Nat, k \in Nat : m = Len(a) /\ k = Len(b)
  BY LenProperties
<1>5. t = a \o b /\ s = (a \o <<e>>) \o b
  BY <1>1, <1>2 DEF Joined, Between
<1>6. Len(t) = m + k /\ Len(s) = m + 1 + k
  BY <1>4, <1>5
<1>7. CASE i <= m
  <2>1. t[i] = a[i] /\ s[i] = a[i] /\ i \in 1 .. Len(s)
    BY <1>4, <1>5, <1>6, <1>7
  <2> QED
    BY <1>3, <2>1 DEF Has
<1>8. CASE i > m
  <2>1. t[i] = b[i - m] /\ s[i + 1] = b[i + 1 - (m + 1)] /\ i + 1 \in 1 .. Len(s) /\ i + 1 - (m + 1) = i - m
    BY <1>4, <1>5, <1>6, <1>8
  <2> QED
    BY <1>3, <2>1 DEF Has
<1> QED
  BY <1>3, <1>4, <1>6, <1>7, <1>8

LEMMA HasAppended ==
    ASSUME NEW T, NEW s \in Seq(T), NEW e \in T, NEW x, Has(Append(s, e), x)
    PROVE  x = e \/ Has(s, x)
<1>1. PICK m \in Nat : m = Len(s)
  BY LenProperties
<1>2. PICK t : t = Append(s, e)
  OBVIOUS
<1>3. PICK i \in 1 .. Len(t) : t[i] = x
  BY <1>2 DEF Has
<1>4. Len(t) = m + 1 /\ t[m + 1] = e /\ \A j \in 1 .. m : t[j] = s[j]
  BY <1>1, <1>2, AppendProperties
<1> QED
  BY <1>1, <1>3, <1>4 DEF Has

LEMMA HasEmpty == (\A x : ~Has(<<>>, x)) /\ \A s \in Seq(Rule) : s # <<>> => \E x : Has(s, x)
<1>1. ASSUME NEW x PROVE ~Has(<<>>, x)
  BY DEF Has
<1>2. ASSUME NEW s \in Seq(Rule), s # <<>> PROVE \E x : Has(s, x)
  <2>1. Len(s) \in Nat /\ Len(s) # 0
    BY <1>2, EmptySeq, LenProperties
  <2>2. 1 \in 1 .. Len(s)
    BY <2>1
  <2> QED
    BY <2>2 DEF Has
<1> QED
  BY <1>1, <1>2

\* What a command adds, by the kind of the command; nothing else adds anything.
Adds(cmd, d, e) == cmd.op \in {"-I", "-A", "class add"} /\ d = cmd.on /\ e = cmd.to

LEMMA DoneAdds ==
    ASSUME NEW k \in Kernel, NEW l, NEW cmd, WellFormed(cmd), Done(k, cmd, l)
    PROVE  /\ l.chains \subseteq k.chains \/ (cmd.op = "-N" /\ l.chains = k.chains \cup {cmd.on})
           /\ \A d \in Chain : \A e : Has(l.rules[d], e) => Has(k.rules[d], e) \/ Adds(cmd, d, e)
<1>1. l.chains \subseteq k.chains \/ (cmd.op = "-N" /\ l.chains = k.chains \cup {cmd.on})
  BY DEF Done, Rewritten, Changing
<1>2. ASSUME NEW d \in Chain, NEW e, Has(l.rules[d], e), ~Has(k.rules[d], e)
      PROVE  Adds(cmd, d, e)
  <2>s. PICK s \in Seq(Rule) : s = k.rules[d]
    BY DEF Kernel
  <2>1. cmd.on = d
    BY <1>2 DEF Done, Rewritten, Changing
  <2>2. CASE cmd.op = "-I"
    <3>1. l.rules[d] = InsertAt(s, cmd.at, cmd.to) /\ cmd.at \in 1 .. Len(s) + 1 /\ cmd.to \in Rule
      BY <2>s, <2>1, <2>2 DEF Done, Rewritten, WellFormed
    <3>2. e = cmd.to
      BY <1>2, <2>s, <3>1, HasInserted
    <3> QED
      BY <2>1, <2>2, <3>2 DEF Adds
  <2>3. CASE cmd.op \in {"-A", "class add"}
    <3>1. l.rules[d] = Append(s, cmd.to) /\ cmd.to \in Rule
      BY <2>s, <2>1, <2>3 DEF Done, Rewritten, WellFormed
    <3>2. e = cmd.to
      BY <1>2, <2>s, <3>1, HasAppended
    <3> QED
      BY <2>1, <2>3, <3>2 DEF Adds
  <2>4. CASE cmd.op \in {"-F", "qdisc del"}
    BY <1>2, <2>1, <2>4, HasEmpty DEF Done, Rewritten
  <2>5. CASE cmd.op = "-D"
    <3>1. l.rules[d] = RemoveAt(s, cmd.at) /\ cmd.at \in 1 .. Len(s)
      BY <2>s, <2>1, <2>5 DEF Done, Rewritten
    <3> QED
      BY <1>2, <2>s, <3>1, HasRemoved
  <2>6. CASE cmd.op \in {"-D rule", "class del"}
    <3>1. PICK n : l.rules[d] = RemoveAt(s, n) /\ n \in 1 .. Len(s)
      BY <2>s, <2>1, <2>6 DEF Done, Rewritten
    <3> QED
      BY <1>2, <2>s, <3>1, HasRemoved
  <2>7. CASE cmd.op \in {"-N", "-X"} \/ cmd.op \notin Changing
    BY <1>2, <2>7 DEF Done
  <2> QED
    BY <2>2, <2>3, <2>4, <2>5, <2>6, <2>7 DEF Changing
<1> QED
  BY <1>1, <1>2

\* A command makes what the configuration uses, deletes chains of wifi-cat and qdiscs of
\* its devices, and adds jumps where they belong.
Fitting(cmd) ==
    /\ cmd.op = "-N" => cmd.on \in Made
    /\ cmd.op = "-X" => cmd.on \in OwnChain
    /\ cmd.op = "qdisc del" => cmd.on \in Imq
    /\ cmd.op \in {"-I", "-A"} /\ cmd.to \in OwnChain => <<cmd.on, cmd.to>> \in TopJump \cup InnerJump
    /\ cmd.op = "class add" => cmd.on \in Imq /\ cmd.to \notin OwnChain

\* The kernel is sound, and what is in flight keeps it so.
Sound == SoundKernel(kernel) /\ \A run \in inFlight : Fitting(run[2])

LEMMA CommandsFit ==
    /\ \A cmd \in DestroyCommand \cup BuildCommand \cup AccessCommand : Fitting(cmd)
    /\ \A chain \in OwnChain : \A cmd \in MacCommands(chain) : Fitting(cmd)
    /\ Fitting(Lock) /\ Fitting(Unlock)
    /\ \A c, n : Fitting(TryInsert(c)) /\ Fitting(DeleteNth(c, n))
<1>o. {"client", "mac", "filter", "rule", "test", "class 1", "class 2"} \cap OwnChain = {}
  BY DEF OwnChain, MangleChain, FilterChain
<1>1. ASSUME NEW cmd \in DestroyCommand PROVE Fitting(cmd)
  BY DEF DestroyCommand, Fitting
<1>2. ASSUME NEW cmd \in BuildCommand PROVE Fitting(cmd)
  BY <1>o DEF BuildCommand, Fitting
<1>3. ASSUME NEW cmd \in AccessCommand PROVE Fitting(cmd)
  BY <1>o DEF AccessCommand, Fitting
<1>4. ASSUME NEW chain \in OwnChain, NEW cmd \in MacCommands(chain) PROVE Fitting(cmd)
  BY <1>o DEF MacCommands, Fitting
<1>5. Fitting(Lock) /\ Fitting(Unlock)
  BY DEF Fitting, Lock, Unlock, Command
<1>6. ASSUME NEW c, NEW n PROVE Fitting(TryInsert(c)) /\ Fitting(DeleteNth(c, n))
  BY <1>o DEF Fitting, TryInsert, DeleteNth, Insert, Unchecked, Command
<1> QED
  BY <1>1, <1>2, <1>3, <1>4, <1>5, <1>6

LEMMA SoundDone ==
    ASSUME NEW k \in Kernel, NEW l \in Kernel, NEW cmd, WellFormed(cmd), Fitting(cmd),
           SoundKernel(k), Done(k, cmd, l)
    PROVE  SoundKernel(l)
<1>1. /\ l.chains \subseteq k.chains \/ (cmd.op = "-N" /\ l.chains = k.chains \cup {cmd.on})
      /\ \A d \in Chain : \A e : Has(l.rules[d], e) => Has(k.rules[d], e) \/ Adds(cmd, d, e)
  BY DoneAdds
<1>2. \A c \in k.chains \ l.chains : \/ cmd.op \in {"-X", "qdisc del"} /\ c = cmd.on /\ l.rules[c] = <<>>
  BY DEF Done, Rewritten, Changing
<1>3. BuiltIn \subseteq l.chains /\ "mangle ALLOWED" \notin l.chains
  <2>1. \A c \in k.chains \ l.chains : c \notin BuiltIn
    BY <1>2, ChainsApart DEF Fitting
  <2>2. cmd.op = "-N" => cmd.on # "mangle ALLOWED"
    BY DEF Fitting, Made, Imq
  <2> QED
    BY <1>1, <2>1, <2>2 DEF SoundKernel
<1>4. ASSUME NEW c \in OwnChain \cup Imq, c \notin l.chains PROVE l.rules[c] = <<>>
  <2>0. c \in Chain /\ l.rules[c] \in Seq(Rule)
    BY DEF Chain, Kernel
  <2>1. CASE c \in k.chains
    BY <1>2, <1>4, <2>1
  <2>2. CASE c \notin k.chains
    <3>1. k.rules[c] = <<>>
      BY <2>2 DEF SoundKernel
    <3>2. ASSUME NEW e, Has(l.rules[c], e) PROVE FALSE
      <4>1. Adds(cmd, c, e)
        BY <1>1, <2>0, <3>1, <3>2, HasEmpty
      <4> QED
        BY <2>2, <4>1 DEF Adds, Done
    <3> QED
      BY <2>0, <3>2, HasEmpty
  <2> QED
    BY <2>1, <2>2
<1>5. ASSUME NEW d \in Chain, NEW e \in OwnChain, Has(l.rules[d], e)
      PROVE  e \in l.chains /\ <<d, e>> \in TopJump \cup InnerJump
  <2>1. CASE Has(k.rules[d], e)
    <3>1. e \in k.chains /\ <<d, e>> \in TopJump \cup InnerJump
      BY <2>1 DEF SoundKernel, JumpsTo
    <3>2. ASSUME e \notin l.chains PROVE FALSE
      <4>1. cmd.op \in {"-X", "qdisc del"} /\ e = cmd.on
        BY <1>2, <3>1, <3>2
      <4>2. cmd.op = "-X" /\ Mention(k, d, e) = 0
        BY <4>1, ChainsApart DEF Fitting, Done
      <4>3. \A i \in 1 .. Len(k.rules[d]) : k.rules[d][i] # e
        BY <4>2, MentionFirst
      <4> QED
        BY <2>1, <4>3 DEF Has
    <3> QED
      BY <3>1, <3>2
  <2>2. CASE Adds(cmd, d, e)
    <3>1. cmd.op \in {"-I", "-A"}
      BY <2>2 DEF Adds, Fitting
    <3>2. l.chains = k.chains /\ e \in k.chains
      BY <2>2, <3>1 DEF Adds, Done, Rewritten
    <3> QED
      BY <2>2, <3>1, <3>2 DEF Adds, Fitting
  <2> QED
    BY <1>1, <1>5, <2>1, <2>2
<1> QED
  BY <1>3, <1>4, <1>5 DEF SoundKernel, JumpsTo

\* The commands that a thread may be at.
LEMMA CommandKinds ==
    ASSUME Control, NEW t \in Thread, CanRun(t)
    PROVE  /\ WellFormed(Cmd(t)) /\ Fitting(Cmd(t))
           /\ job[t] \in Cleaning => Cmd(t) \in DestroyCommand
           /\ job[t] \notin Cleaning \cup {"init"} =>
                \/ Cmd(t) \in AccessCommand
                \/ \E chain \in MacChain : Cmd(t) \in MacCommands(chain)
<1>1. /\ job[t] \in Cleaning \cup {"init", "access", "mac"} /\ WellFormed(Cmd(t))
      /\ job[t] \in Cleaning => Cmd(t) \in DestroyCommand
      /\ job[t] = "access" => Cmd(t) \in AccessCommand
      /\ job[t] = "mac" => \E chain \in MacChain : Cmd(t) \in MacCommands(chain)
  BY CommandOf DEF Control
<1>2. MacChain \subseteq OwnChain
  BY ConfAssumption DEF OwnChain, MangleChain
<1>3. job[t] # "init" => Fitting(Cmd(t))
  BY <1>1, <1>2, CommandsFit
<1>4. ASSUME job[t] = "init" PROVE Fitting(Cmd(t))
  <2>1. t = Main
    <3>1. \A w \in Worker : job[w] # "init"
      BY DEF Control, StartsAlone
    <3> QED
      BY <1>4, <3>1 DEF Thread
  <2>2. PICK i, c : i = at[Main] /\ c = Cmd(Main)
    OBVIOUS
  <2>3. /\ i \in {1, 2} => c \in {Lock, Unlock}
        /\ i = 3 => c = TryInsert("mangle PREROUTING")
        /\ i = 4 => c = DeleteNth("mangle PREROUTING", 1)
        /\ i = 5 => c = TryInsert("filter FORWARD")
        /\ i = 6 => c = DeleteNth("filter FORWARD", 1)
        /\ i >= 7 => c \in BuildCommand
        /\ i = 1 \/ i = 2 \/ i = 3 \/ i = 4 \/ i = 5 \/ i = 6 \/ i >= 7
    BY <1>4, <2>1, <2>2, StartCommand, Zenon
  <2>4. Fitting(c)
    <3>1. /\ Fitting(Lock) /\ Fitting(Unlock)
          /\ Fitting(TryInsert("mangle PREROUTING")) /\ Fitting(TryInsert("filter FORWARD"))
          /\ Fitting(DeleteNth("mangle PREROUTING", 1)) /\ Fitting(DeleteNth("filter FORWARD", 1))
          /\ \A cmd \in BuildCommand : Fitting(cmd)
      BY CommandsFit
    <3> QED
      BY <2>3, <3>1, Zenon
  <2> QED
    BY <2>1, <2>2, <2>4
<1> QED
  BY <1>1, <1>3, <1>4

\* What a signal may leave in flight fits too.
LEMMA LateFits ==
    ASSUME Control, Sound, [Next]_vars
    PROVE  \A run \in inFlight' : Fitting(run[2])
<1>1. CASE UNCHANGED inFlight
  BY <1>1 DEF Sound
<1>2. ASSUME NEW t \in Thread, Deliver(t) \/ GiveUp(t)
      PROVE  \A run \in inFlight' : Fitting(run[2])
  <2> SUFFICES ASSUME NEW run \in inFlight', run \notin inFlight PROVE Fitting(run[2])
    BY DEF Sound
  <2>1. run[2] \in Child(t)
    BY <1>2, Handled
  <2>2. \/ CanRun(t) /\ run[2] = Cmd(t)
        \/ Deletes(t) /\ run[2] = Deletion(t)
    BY <2>1, ChildCommand DEF Control
  <2> QED
    BY <2>2, CommandKinds, CommandsFit DEF Deletion
<1>3. CASE Land
  <2>1. inFlight' \subseteq inFlight
    BY <1>3, Landings DEF Control
  <2> QED
    BY <2>1 DEF Sound
<1>4. ASSUME NEW t \in Thread, ProgramStep(t) PROVE UNCHANGED inFlight
  BY <1>4, ProgramSteps DEF Control
<1>5. ASSUME NEW w \in Worker, RequestStep(w) PROVE UNCHANGED inFlight
  BY <1>5, WorkerTurns DEF WorkerTurn, Turn, Control
<1>6. CASE StartLoop \/ FinishClean \/ FinishInit
  BY <1>1, <1>6 DEF StartLoop, FinishClean, FinishInit, lateVars
<1>7. CASE FailToStart \/ CreateThreads \/ AllGone \/ Restart \/ \E t \in Thread : Exit(t)
  BY <1>1, <1>7 DEF FailToStart, CreateThreads, AllGone, Restart, Exit, lateVars
<1> QED
  BY <1>1, <1>2, <1>3, <1>4, <1>5, <1>6, <1>7, NextSteps DEF vars, lateVars

LEMMA SoundNext ==
    ASSUME Control, Sound, [Next]_vars
    PROVE  Sound'
<1>0. kernel \in Kernel /\ kernel' \in Kernel
  BY ControlNext DEF Control, LifecycleTypes
<1> SUFFICES SoundKernel(kernel')
  BY LateFits DEF Sound
<1>1. CASE kernel' = kernel
  BY <1>1 DEF Sound
<1>2. ASSUME NEW t \in Thread, ProgramStep(t) PROVE SoundKernel(kernel')
  <2>0. CanRun(t)
    BY <1>2, ProgramSteps DEF Control
  <2>1. CASE Took(t)
    <3>1. Done(kernel, Cmd(t), kernel') /\ WellFormed(Cmd(t)) /\ Fitting(Cmd(t))
      BY <2>0, <2>1, CommandKinds DEF Took
    <3> QED
      BY <1>0, <3>1, SoundDone DEF Sound
  <2>2. CASE Deleted(t)
    <3>1. Deletes(t) /\ (kernel' = kernel \/ Done(kernel, Deletion(t), kernel'))
      BY <2>2 DEF Deleted
    <3>2. WellFormed(Deletion(t)) /\ Fitting(Deletion(t))
      BY <3>1, DeletionCommand, CommandsFit DEF Control, Deletion
    <3> QED
      BY <1>0, <1>1, <3>1, <3>2, SoundDone DEF Sound
  <2> QED
    BY <1>1, <1>2, <2>1, <2>2, Outcomes DEF Control, TookMutex, Missed, Waited, Listed, Same
<1>3. CASE Land
  <2>1. PICK run \in inFlight : WellFormed(run[2]) /\ (kernel' = kernel \/ Done(kernel, run[2], kernel'))
    BY <1>3, Landings DEF Control
  <2> QED
    BY <1>0, <1>1, <2>1, SoundDone DEF Sound
<1> QED
  BY <1>1, <1>2, <1>3, OtherSteps
----------------------------------------------------------------------------
(* What a clean-up achieves.  *)

\* A process that exited did so in the start or at the end of a clean-up.
ExitedAtEnd ==
    status = "exited" => \/ job[Main] = "boot"
                         \/ \E t \in Thread : job[t] \in Cleaning /\ Ended(t)
ExitInvariant == Control /\ Sound /\ RequestsCounted /\ CleanSoFar /\ ExitedAtEnd

\* Achieved() of kernel k when there were n requests and late commands added to S.
LateIn(S, d, e) == d \in S /\ (e \in OwnChain => e \in S)
AchievedIn(k, n, S, cmd) ==
    /\ cmd.op = "mention" => (Has(k.rules[cmd.on], cmd.to) => LateIn(S, cmd.on, cmd.to))
    /\ cmd.op = "-F" => \A e : Has(k.rules[cmd.on], e) =>
                            \/ e \in {"client", "mac"} /\ n > 0 /\ cmd.on \in RequestChain
                            \/ LateIn(S, cmd.on, e)
    /\ cmd.op = "-X" => (cmd.on \in k.chains => (n > 0 /\ cmd.on \in RequestChain) \/ cmd.on \in S)

LEMMA AchievedForm == \A cmd : Achieved(cmd) <=> AchievedIn(kernel, requests, addedLate, cmd)
BY DEF Achieved, AchievedIn, MayBeUsed, MayBeLate, LateIn, JumpsTo

\* Kernel l has no more than k, but for what requests may add when there were some, and
\* for what late commands added.
NoMore(k, l, n, S) ==
    /\ l.chains \subseteq k.chains \cup S
    /\ \A d \in Chain : \A e : Has(l.rules[d], e) =>
          \/ Has(k.rules[d], e)
          \/ n > 0 /\ d \in RequestChain /\ e \in {"client", "mac"}
          \/ d \in Imq
          \/ LateIn(S, d, e)

LEMMA AchievedStays ==
    ASSUME NEW k, NEW l, NEW n, NEW R, NEW S, R \subseteq S, NoMore(k, l, n, S),
           NEW cmd \in DestroyCommand, AchievedIn(k, n, R, cmd)
    PROVE  AchievedIn(l, n, S, cmd)
<1>0. /\ cmd.op = "mention" => cmd.on \in BuiltIn /\ cmd.on \in Chain
      /\ cmd.op = "-F" => cmd.on \in OwnChain /\ cmd.on \in Chain
  BY DEF DestroyCommand, Chain
<1>1. RequestChain \cap BuiltIn = {}
  BY ConfAssumption DEF RequestChain, BuiltIn
<1>l. \A d, e : LateIn(R, d, e) => LateIn(S, d, e)
  BY DEF LateIn
<1>2. cmd.op = "mention" => (Has(l.rules[cmd.on], cmd.to) => LateIn(S, cmd.on, cmd.to))
  BY <1>0, <1>1, <1>l, ChainsApart DEF NoMore, AchievedIn
<1>3. ASSUME cmd.op = "-F", NEW e, Has(l.rules[cmd.on], e)
      PROVE  \/ e \in {"client", "mac"} /\ n > 0 /\ cmd.on \in RequestChain
             \/ LateIn(S, cmd.on, e)
  BY <1>0, <1>3, <1>l, ChainsApart DEF NoMore, AchievedIn
<1>4. cmd.op = "-X" => (cmd.on \in l.chains => (n > 0 /\ cmd.on \in RequestChain) \/ cmd.on \in S)
  BY DEF NoMore, AchievedIn
<1> QED
  BY <1>2, <1>3, <1>4 DEF AchievedIn

LEMMA NoMoreByCommands ==
    ASSUME NEW k \in Kernel, NEW l, NEW n, NEW S, NEW cmd, WellFormed(cmd), Done(k, cmd, l),
           \/ cmd.op \notin {"-N", "-I", "-A", "class add"}
           \/ n > 0 /\ cmd \in AccessCommand
           \/ n > 0 /\ \E chain \in MacChain : cmd \in MacCommands(chain)
    PROVE  NoMore(k, l, n, S)
<1>1. /\ l.chains \subseteq k.chains \/ (cmd.op = "-N" /\ l.chains = k.chains \cup {cmd.on})
      /\ \A d \in Chain : \A e : Has(l.rules[d], e) => Has(k.rules[d], e) \/ Adds(cmd, d, e)
  BY DoneAdds
<1>2. cmd.op # "-N"
  BY DEF AccessCommand, MacCommands
<1>3. \A d, e : Adds(cmd, d, e) =>
          \/ n > 0 /\ d \in RequestChain /\ e \in {"client", "mac"}
          \/ d \in Imq
  BY DEF Adds, AccessCommand, MacCommands, RequestChain
<1> QED
  BY <1>1, <1>2, <1>3 DEF NoMore

\* What a command in flight adds is noted.
LEMMA NoMoreByLanding ==
    ASSUME Control, Sound, Land, NEW n
    PROVE  addedLate \subseteq addedLate' /\ NoMore(kernel, kernel', n, addedLate')
<1>1. PICK run \in inFlight :
          /\ WellFormed(run[2])
          /\ \/ UNCHANGED <<kernel, disturbed, addedLate>>
             \/ Done(kernel, run[2], kernel') /\ Landed(run[2])
  BY Landings DEF Control
<1>2. PICK cmd : cmd = run[2]
  OBVIOUS
<1>3. Fitting(cmd) /\ kernel \in Kernel
  BY <1>2 DEF Sound, Control, LifecycleTypes
<1>4. CASE UNCHANGED <<kernel, disturbed, addedLate>>
  BY <1>4 DEF NoMore
<1>5. CASE Done(kernel, cmd, kernel') /\ Landed(cmd)
  <2>1. addedLate' = addedLate \cup IF cmd.op \in Additions THEN {cmd.on, cmd.to} \cap Chain ELSE {}
    BY <1>5 DEF Landed
  <2>2. /\ kernel'.chains \subseteq kernel.chains \/ (cmd.op = "-N" /\ kernel'.chains = kernel.chains \cup {cmd.on})
        /\ \A d \in Chain : \A e : Has(kernel'.rules[d], e) => Has(kernel.rules[d], e) \/ Adds(cmd, d, e)
    BY <1>1, <1>2, <1>3, <1>5, DoneAdds
  <2>3. cmd.op = "-N" => cmd.on \in addedLate'
    BY <1>1, <1>2, <2>1 DEF WellFormed, Changing, Additions
  <2>4. ASSUME NEW d \in Chain, NEW e, Adds(cmd, d, e) PROVE d \in Imq \/ LateIn(addedLate', d, e)
    BY <1>3, <2>1, <2>4 DEF Adds, Fitting, Additions, LateIn, Chain
  <2> QED
    BY <2>1, <2>2, <2>3, <2>4 DEF NoMore
<1> QED
  BY <1>1, <1>2, <1>4, <1>5

\* Nothing keeps a chain that the clean-up is about to delete, but rules of requests.
LEMMA DeleteRefused ==
    ASSUME Control, Sound, CleanSoFar, NEW t \in Thread, job[t] \in Cleaning, CanRun(t),
           faults = 0, ~Accepts(kernel, Cmd(t)), Cmd(t).op \notin {"lock", "unlock", "mention"}
    PROVE  AchievedIn(kernel, requests, addedLate, Cmd(t))
<1>0. /\ kernel \in Kernel /\ conf \in Conf /\ at[t] \in Nat \ {0}
  BY DEF Control, LifecycleTypes
<1>1. PICK s, i, c : s = fw_destroy(conf) /\ i = at[t] /\ c = Cmd(t)
  OBVIOUS
<1>2. i \in 1 .. Len(s) /\ c = s[i] /\ c \in DestroyCommand
  BY <1>1, CommandOf DEF Control
<1>3. \A j \in 1 .. Len(s) : j < i => AchievedIn(kernel, requests, addedLate, s[j])
  BY <1>1, AchievedForm DEF CleanSoFar
<1>4. CASE c.op = "-F"
  <2>1. c.on \notin kernel.chains /\ c.on \in OwnChain
    BY <1>1, <1>2, <1>4 DEF Accepts, DestroyCommand
  <2>2. kernel.rules[c.on] = <<>>
    BY <2>1 DEF Sound, SoundKernel
  <2> QED
    BY <1>1, <1>4, <2>2, HasEmpty DEF AchievedIn
<1>5. CASE c.op = "-X" /\ c.on \in addedLate
  BY <1>1, <1>5 DEF AchievedIn
<1>7. CASE c.op = "-X" /\ c.on \notin addedLate
  <2>1. c.on \in OwnChain /\ c.on \in Chain
    BY <1>2, <1>7 DEF DestroyCommand, Chain
  <2>2. Prepared(s, i, c.on)
    BY <1>1, <1>2, <1>7, DestroyProgram DEF CleansUp
  <2>3. \A cmd : HasBefore(s, i, cmd) => AchievedIn(kernel, requests, addedLate, cmd)
    BY <1>3 DEF HasBefore
  <2>4. /\ \A e : Flush(e).op = "-F" /\ Flush(e).on = e
        /\ \A d, e : Unmention(d, e).op = "mention" /\ Unmention(d, e).on = d /\ Unmention(d, e).to = e
    BY DEF Flush, Unmention, Unchecked, Command
  <2>5. ASSUME NEW d \in Chain, Has(kernel.rules[d], c.on) PROVE FALSE
    <3>1. <<d, c.on>> \in TopJump \cup InnerJump
      BY <2>1, <2>5 DEF Sound, SoundKernel, JumpsTo
    <3>2. <<d, c.on>> \notin TopJump
      <4> SUFFICES ASSUME <<d, c.on>> \in TopJump PROVE FALSE
        OBVIOUS
      <4>1. AchievedIn(kernel, requests, addedLate, Unmention(d, c.on))
        BY <2>2, <2>3 DEF Prepared
      <4> QED
        BY <1>7, <2>1, <2>4, <2>5, <4>1 DEF AchievedIn, LateIn
    <3>3. <<d, c.on>> \notin InnerJump
      <4> SUFFICES ASSUME <<d, c.on>> \in InnerJump PROVE FALSE
        OBVIOUS
      <4>1. AchievedIn(kernel, requests, addedLate, Flush(d))
        BY <2>2, <2>3 DEF Prepared
      <4>2. c.on \in {"client", "mac"}
        BY <1>7, <2>1, <2>4, <2>5, <4>1 DEF AchievedIn, LateIn
      <4> QED
        BY <2>1, <4>2 DEF OwnChain, MangleChain, FilterChain
    <3> QED
      BY <3>1, <3>2, <3>3
  <2>6. \A d \in Chain : Mention(kernel, d, c.on) = 0
    BY <1>0, <2>5, MentionNone DEF Has
  <2>7. c.on \notin kernel.chains \/ kernel.rules[c.on] # <<>>
    BY <1>1, <1>7, <2>6 DEF Accepts, Unreferenced
  <2>8. AchievedIn(kernel, requests, addedLate, Flush(c.on))
    BY <2>2, <2>3 DEF Prepared
  <2>9. kernel.rules[c.on] # <<>> => requests > 0 /\ c.on \in RequestChain
    <3>1. kernel.rules[c.on] \in Seq(Rule)
      BY <1>0, <2>1 DEF Kernel
    <3> QED
      BY <1>7, <2>4, <2>8, <3>1, HasEmpty DEF AchievedIn, LateIn
  <2> QED
    BY <1>1, <1>7, <2>7, <2>9 DEF AchievedIn
<1>6. CASE c.op \notin {"-F", "-X", "mention"}
  BY <1>1, <1>6 DEF AchievedIn
<1> QED
  BY <1>1, <1>4, <1>5, <1>6, <1>7

\* CleanSoFar, for thread t and the commands before number i.
Cleaned(t, k, n, S, i) ==
    \A j \in 1 .. Len(fw_destroy(conf)) : j < i => AchievedIn(k, n, S, fw_destroy(conf)[j])

LEMMA CleanForm ==
    CleanSoFar <=> \A t \in Thread : job[t] \in Cleaning /\ faults = 0 =>
                                        Cleaned(t, kernel, requests, addedLate, at[t])
BY AchievedForm DEF CleanSoFar, Cleaned

LEMMA CleanFormNext ==
    ASSUME UNCHANGED conf,
           \A t \in Thread : job'[t] \in Cleaning /\ faults' = 0 =>
                                Cleaned(t, kernel', requests', addedLate', at'[t])
    PROVE  CleanSoFar'
BY DEF CleanSoFar, Cleaned, Achieved, AchievedIn, MayBeUsed, MayBeLate, LateIn, JumpsTo

LEMMA CleanedStays ==
    ASSUME Control, NEW t \in Thread, NEW i, NEW k, NEW l, NEW n, NEW R, NEW S, R \subseteq S,
           Cleaned(t, k, n, R, i), NoMore(k, l, n, S)
    PROVE  Cleaned(t, l, n, S, i)
<1>1. \A j \in 1 .. Len(fw_destroy(conf)) : fw_destroy(conf)[j] \in DestroyCommand
  BY DestroyProgram, ElementOfSeq
<1> QED
  BY <1>1, AchievedStays DEF Cleaned

\* A step of the thread that cleans up.
LEMMA CleansOn ==
    ASSUME Control, Sound, CleanSoFar, NEW t \in Thread, job[t] \in Cleaning, ProgramStep(t),
           faults' = 0
    PROVE  Cleaned(t, kernel', requests', addedLate', at'[t])
<1>0. /\ CanRun(t) /\ conf' = conf /\ requests' = requests /\ addedLate' = addedLate /\ faults = 0
      /\ kernel \in Kernel /\ at[t] \in Nat \ {0} /\ faults \in Nat
  BY ProgramSteps DEF Control, LifecycleTypes
<1>1. PICK s, i, c : s = fw_destroy(conf) /\ i = at[t] /\ c = Cmd(t)
  OBVIOUS
<1>2. i \in 1 .. Len(s) /\ c = s[i] /\ c \in DestroyCommand /\ WellFormed(c)
  BY <1>0, <1>1, CommandOf DEF Control
<1>3. Cleaned(t, kernel, requests, addedLate, i)
  BY <1>0, <1>1, CleanForm
<1>4. faults' # faults + 1
  BY <1>0
<1>5. \A n : GoesOn(t, n) => at'[t] = i + n
  BY <1>1 DEF GoesOn, Control, LifecycleTypes
<1>6. i + 0 = i /\ \A j \in 1 .. Len(s) : j < i + 1 => j < i \/ j = i
  BY <1>0, <1>1
<1>7. ASSUME at'[t] = i + 1, Cleaned(t, kernel', requests, addedLate, i), AchievedIn(kernel', requests, addedLate, c)
      PROVE  Cleaned(t, kernel', requests', addedLate', at'[t])
  BY <1>0, <1>1, <1>2, <1>6, <1>7 DEF Cleaned
<1>8. CASE Took(t)
  <2>1. NoMore(kernel, kernel', requests, addedLate)
    <3>1. Done(kernel, c, kernel') /\ c.op \notin {"-N", "-I", "-A", "class add"}
      BY <1>1, <1>2, <1>8 DEF Took, DestroyCommand
    <3> QED
      BY <1>0, <1>2, <3>1, NoMoreByCommands
  <2>2. AchievedIn(kernel', requests, addedLate, c)
    <3>1. c.op = "-F" => kernel'.rules[c.on] = <<>>
      BY <1>1, <1>8 DEF Took, Done, Rewritten
    <3>2. c.op = "-X" => c.on \notin kernel'.chains
      BY <1>1, <1>8 DEF Took, Done
    <3>3. c.op # "mention"
      BY <1>1, <1>8 DEF Took
    <3> QED
      BY <3>1, <3>2, <3>3, HasEmpty DEF AchievedIn
  <2>3. at'[t] = i + 1
    BY <1>5, <1>8 DEF Took
  <2> QED
    BY <1>3, <1>7, <2>1, <2>2, <2>3, CleanedStays
<1>9. CASE TookMutex(t)
  <2>1. kernel' = kernel /\ at'[t] = i + 1
    BY <1>5, <1>9 DEF TookMutex, Same
  <2>2. AchievedIn(kernel, requests, addedLate, c)
    BY <1>1, <1>9 DEF TookMutex, AchievedIn
  <2> QED
    BY <1>3, <1>7, <2>1, <2>2
<1>10. CASE Missed(t)
  <2>1. ~Accepts(kernel, c) /\ c.op \notin {"lock", "unlock", "mention"} /\ kernel' = kernel
    BY <1>1, <1>4, <1>10 DEF Missed, Same
  <2>2. AchievedIn(kernel, requests, addedLate, c)
    BY <1>0, <1>1, <2>1, DeleteRefused
  <2>3. at'[t] = i + 1
    <3>1. c.skip = 0
      BY <1>2 DEF DestroyCommand
    <3>2. c.skip + 1 = 1
      BY <3>1
    <3> QED
      BY <1>1, <1>5, <1>10, <3>2 DEF Missed
  <2> QED
    BY <1>3, <1>7, <2>1, <2>2, <2>3
<1>11. CASE Deleted(t)
  <2>1. Deletes(t) /\ (kernel' = kernel \/ Done(kernel, Deletion(t), kernel'))
    BY <1>11 DEF Deleted
  <2>2. Deletion(t).op = "-D" /\ WellFormed(Deletion(t))
    BY <2>1, DeletionCommand DEF Control
  <2>3. NoMore(kernel, kernel', requests, addedLate)
    <3>1. CASE kernel' = kernel
      BY <3>1 DEF NoMore
    <3>2. CASE Done(kernel, Deletion(t), kernel')
      BY <1>0, <2>2, <3>2, NoMoreByCommands
    <3> QED
      BY <2>1, <3>1, <3>2
  <2>4. at'[t] = i
    BY <1>5, <1>6, <1>11 DEF Deleted
  <2> QED
    BY <1>0, <1>3, <2>3, <2>4, CleanedStays
<1>12. CASE Listed(t)
  <2>1. kernel' = kernel /\ c.op = "mention"
    BY <1>1, <1>12 DEF Listed, Same, Mentions
  <2>2. c.on \in Chain
    BY <1>2, <2>1 DEF DestroyCommand, Chain
  <2>3. CASE GoesOn(t, 0)
    BY <1>0, <1>3, <1>5, <1>6, <2>1, <2>3
  <2>4. CASE GoesOn(t, 1) /\ Mention(kernel, c.on, c.to) = 0
    <3>1. AchievedIn(kernel, requests, addedLate, c)
      BY <1>0, <2>1, <2>2, <2>4, MentionFirst DEF AchievedIn, Has
    <3> QED
      BY <1>3, <1>5, <1>7, <2>1, <2>4, <3>1
  <2> QED
    BY <1>1, <1>4, <1>12, <2>3, <2>4 DEF Listed
<1>13. ~Waited(t)
  BY <1>4 DEF Waited
<1> QED
  BY <1>8, <1>9, <1>10, <1>11, <1>12, <1>13, Outcomes DEF Control

\* A step of another thread while one cleans up.
LEMMA CleansBeside ==
    ASSUME Control, RequestsCounted, NEW t \in Thread, job[t] \in Cleaning,
           NEW u \in Thread, u # t, ProgramStep(u)
    PROVE  NoMore(kernel, kernel', requests, addedLate)
<1>0. CanRun(u) /\ kernel \in Kernel
  BY ProgramSteps DEF Control, LifecycleTypes
<1>1. job[u] \in {"access", "mac"} /\ job[u] \notin Cleaning \cup {"init"}
  BY <1>0, OthersRequest
<1>2. requests > 0
  BY <1>1 DEF RequestsCounted
<1>3. CASE kernel' = kernel
  BY <1>3 DEF NoMore
<1>4. CASE Took(u)
  <2>1. /\ WellFormed(Cmd(u)) /\ Done(kernel, Cmd(u), kernel')
        /\ Cmd(u) \in AccessCommand \/ \E chain \in MacChain : Cmd(u) \in MacCommands(chain)
    BY <1>0, <1>1, <1>4, CommandKinds DEF Took
  <2> QED
    BY <1>0, <1>2, <2>1, NoMoreByCommands
<1>5. ~Mentions(u)
  BY <1>1, MentionCommand DEF Control
<1> QED
  BY <1>3, <1>4, <1>5, Outcomes DEF Control, TookMutex, Missed, Waited, Deleted, Deletes, Listed, Same

\* When a clean-up has come to its end, what it achieved is what the property says.
LEMMA CleanedAll ==
    ASSUME Control, Sound, CleanSoFar, NEW t \in Thread, job[t] \in Cleaning, Ended(t),
           faults = 0
    PROVE  /\ \A c \in BuiltIn \ addedLate : Jumps(kernel, c) = <<>>
           /\ \A c \in (OwnChain \cap kernel.chains) \ addedLate :
                 /\ requests > 0 /\ c \in RequestChain
                 /\ Skeleton(kernel, c) = <<>>
<1>1. PICK s : s = fw_destroy(conf)
  OBVIOUS
<1>2. /\ kernel \in Kernel /\ conf \in Conf /\ at[t] \in Nat \ {0}
  BY DEF Control, LifecycleTypes
<1>3. at[t] > Len(s)
  <2>1. prog[t] = "destroy"
    BY DEF Control, Placed
  <2> QED
    BY <1>1, <1>2, <2>1, ProgramsOf DEF Ended
<1>4. \A cmd : Has(s, cmd) => AchievedIn(kernel, requests, addedLate, cmd)
  <2>1. Cleaned(t, kernel, requests, addedLate, at[t])
    BY CleanForm
  <2>2. Len(s) \in Nat
    BY <1>1, DestroyProgram, LenProperties
  <2>3. \A j \in 1 .. Len(s) : j < at[t]
    BY <1>2, <1>3, <2>2
  <2> QED
    BY <1>1, <2>1, <2>3 DEF Cleaned, Has
<1>5. /\ \A e : /\ Flush(e).op = "-F" /\ Flush(e).on = e
                /\ DeleteChain(e).op = "-X" /\ DeleteChain(e).on = e
      /\ \A d, e : Unmention(d, e).op = "mention" /\ Unmention(d, e).on = d /\ Unmention(d, e).to = e
  BY DEF Flush, DeleteChain, Unmention, Unchecked, Command
<1>6. ASSUME NEW c \in BuiltIn \ addedLate PROVE Jumps(kernel, c) = <<>>
  <2>1. c \in Chain /\ kernel.rules[c] \in Seq(Rule)
    BY <1>2 DEF Chain, Kernel
  <2>2. ASSUME NEW e \in OwnChain, Has(kernel.rules[c], e) PROVE FALSE
    <3>1. <<c, e>> \in TopJump \cup InnerJump
      BY <2>1, <2>2 DEF Sound, SoundKernel, JumpsTo
    <3>2. <<c, e>> \notin InnerJump
      BY DEF InnerJump, BuiltIn
    <3>3. AchievedIn(kernel, requests, addedLate, Unmention(c, e))
      BY <1>1, <1>4, <3>1, <3>2, DestroyProgram
    <3> QED
      BY <1>5, <2>2, <3>3 DEF AchievedIn, LateIn
  <2>3. \A i \in 1 .. Len(kernel.rules[c]) : kernel.rules[c][i] \notin OwnChain
    BY <2>2 DEF Has
  <2> QED
    BY <2>1, <2>3, OnlyNone DEF Jumps
<1>7. ASSUME NEW c \in (OwnChain \cap kernel.chains) \ addedLate
      PROVE  requests > 0 /\ c \in RequestChain /\ Skeleton(kernel, c) = <<>>
  <2>1. c \in Chain /\ kernel.rules[c] \in Seq(Rule)
    BY <1>2 DEF Chain, Kernel
  <2>2. Has(s, DeleteChain(c))
    BY <1>1, DestroyProgram
  <2>3. Has(s, Flush(c))
    <3>1. PICK j \in 1 .. Len(s) : s[j] = DeleteChain(c)
      BY <2>2 DEF Has
    <3>2. Prepared(s, j, c)
      BY <1>1, <1>5, <3>1, DestroyProgram DEF CleansUp
    <3> QED
      BY <3>2 DEF Prepared, HasBefore, Has
  <2>4. requests > 0 /\ c \in RequestChain
    BY <1>4, <1>5, <2>2 DEF AchievedIn
  <2>5. \A i \in 1 .. Len(kernel.rules[c]) : kernel.rules[c][i] \in {"client", "mac"}
    <3>1. AchievedIn(kernel, requests, addedLate, Flush(c))
      BY <1>4, <2>3
    <3>2. \A e : Has(kernel.rules[c], e) => e \in {"client", "mac"}
      BY <1>5, <1>7, <3>1 DEF AchievedIn, LateIn
    <3> QED
      BY <3>2 DEF Has
  <2>6. Skeleton(kernel, c) = <<>>
    BY <2>1, <2>5, OnlyNone DEF Skeleton, Without
  <2> QED
    BY <2>4, <2>6
<1> QED
  BY <1>6, <1>7

\* Before the first start no rule jumps to a chain of wifi-cat.
LEMMA EmptyKernelSound == SoundKernel(EmptyKernel(Others)) /\ EmptyKernel(Others).chains = BuiltIn
<1>0. PICK k : k = EmptyKernel(Others)
  OBVIOUS
<1>1. /\ k.chains = BuiltIn
      /\ \A c \in Chain : k.rules[c] = IF c \in BuiltIn THEN Others[c] ELSE <<>>
  BY <1>0 DEF EmptyKernel
<1>2. \A c \in OwnChain \cup Imq : k.rules[c] = <<>>
  BY <1>1, ChainsApart DEF Chain
<1>3. "mangle ALLOWED" \notin BuiltIn
  BY DEF BuiltIn
<1>4. ASSUME NEW d \in Chain, NEW e \in OwnChain, Has(k.rules[d], e) PROVE FALSE
  <2>1. d \in BuiltIn
    BY <1>1, <1>4, HasEmpty
  <2>2. Others[d] \in Seq(OtherRule)
    BY <2>1, OthersAssumption
  <2>3. e \in OtherRule
    BY <1>1, <1>4, <2>1, <2>2, ElementOfSeq DEF Has
  <2> QED
    BY <2>3, RuleAssumption DEF OwnRule
<1> QED
  BY <1>0, <1>1, <1>2, <1>3, <1>4 DEF SoundKernel, JumpsTo

LEMMA ExitInit ==
    ASSUME Init
    PROVE  ExitInvariant
<1>1. Control
  BY ControlInit
<1>2. Sound
  BY EmptyKernelSound DEF Init, Sound
<1>3. \A t \in Thread : job[t] \in {"boot", "none"}
  BY DEF Init, JobsAtStart
<1>4. RequestsCounted /\ CleanSoFar
  BY <1>3 DEF RequestsCounted, CleanSoFar, Cleaning, Init
<1>5. ExitedAtEnd
  BY DEF Init, ExitedAtEnd
<1> QED
  BY <1>1, <1>2, <1>4, <1>5 DEF ExitInvariant

LEMMA RequestsNext ==
    ASSUME Control, RequestsCounted, [Next]_vars
    PROVE  /\ RequestsCounted' /\ requests' \in Nat /\ requests' >= requests
<1>0. requests \in Nat /\ requests + 1 > 0 /\ requests + 1 >= requests /\ requests >= requests
      /\ requests' \in Nat
  BY ControlNext DEF Control, LifecycleTypes
<1>1. ASSUME NEW w \in Worker, RequestStep(w) PROVE RequestsCounted' /\ requests' >= requests
  <2>1. WorkerTurn(w)
    BY <1>1, WorkerTurns DEF Control
  <2>2. \/ requests' = requests + 1
        \/ requests' = requests /\ authenticated
        \/ requests' = requests /\ job[w] \in {"access", "mac"}
    BY <2>1 DEF WorkerTurn
  <2>3. requests' > 0
    <3>1. requests' = requests => requests > 0
      <4>1. w \in Thread
        BY MainIsAThread
      <4>2. CASE requests' = requests + 1
        <5>1. requests' # requests
          BY <1>0, <4>2
        <5> QED
          BY <5>1
      <4>3. CASE authenticated
        BY <4>3 DEF RequestsCounted
      <4>4. CASE job[w] \in {"access", "mac"}
        BY <4>1, <4>4 DEF RequestsCounted
      <4> QED
        BY <2>2, <4>2, <4>3, <4>4
    <3> QED
      BY <1>0, <2>2, <3>1
  <2>4. requests' >= requests
    BY <1>0, <2>2
  <2> QED
    BY <2>3, <2>4 DEF RequestsCounted
<1>2. ASSUME requests' = requests,
             authenticated' \in {authenticated, FALSE},
             \A t \in Thread : job'[t] \in {"access", "mac"} => job[t] \in {"access", "mac"}
      PROVE  RequestsCounted' /\ requests' >= requests
  <2>1. requests' >= requests
    BY <1>0, <1>2
  <2>2. CASE requests > 0
    BY <1>2, <2>1, <2>2 DEF RequestsCounted
  <2>3. CASE ~(requests > 0)
    <3>1. ~authenticated /\ \A t \in Thread : job[t] \notin {"access", "mac"}
      BY <2>3, Zenon DEF RequestsCounted
    <3>2. ~authenticated'
      <4>1. authenticated' = authenticated \/ authenticated' = FALSE
        BY <1>2
      <4> QED
        BY <3>1, <4>1, Zenon
    <3>3. \A t \in Thread : job'[t] \notin {"access", "mac"}
      BY <1>2, <3>1
    <3> QED
      BY <2>1, <3>2, <3>3, Zenon DEF RequestsCounted
  <2> QED
    BY <2>2, <2>3
<1>3. ASSUME NEW t \in Thread, ProgramStep(t) PROVE RequestsCounted' /\ requests' >= requests
  BY <1>2, <1>3, ProgramSteps DEF Control
<1>4. CASE StartLoop \/ FinishClean \/ FinishInit
  <2>1. MainTurn
    BY <1>4, MainTurns DEF Control
  <2>2. \E j, p : j \notin {"access", "mac"} /\ Turn(Main, j, p)
    BY <2>1 DEF MainTurn
  <2>3. \A t \in Thread : job'[t] \in {"access", "mac"} => job[t] \in {"access", "mac"}
    BY <2>2, DoOne, MainIsAThread DEF Turn, Control
  <2>4. requests' = requests /\ authenticated' \in {authenticated, FALSE}
    BY <2>1, Zenon DEF MainTurn
  <2> QED
    BY <1>0, <1>2, <2>3, <2>4
<1>5. ASSUME NEW t \in Thread, Deliver(t) \/ GiveUp(t) PROVE RequestsCounted' /\ requests' >= requests
  <2>1. UNCHANGED <<authenticated, requests>> /\ \E j \in Job, p \in Program : j \notin {"access", "mac"} /\ Do(t, j, p)
    BY <1>5, Handled DEF Job, Program
  <2>2. \A u \in Thread : job'[u] \in {"access", "mac"} => job[u] \in {"access", "mac"}
    BY <2>1, DoOne DEF Control
  <2> QED
    BY <1>2, <2>1, <2>2
<1>6. CASE CreateThreads \/ Restart
  <2>1. requests' = requests /\ authenticated' \in {authenticated, FALSE}
    BY <1>6 DEF CreateThreads, Restart, countVars
  <2>2. \A t \in Thread : job'[t] \in {"access", "mac"} => job[t] \in {"access", "mac"}
    BY <1>6 DEF CreateThreads, Restart, JobsAtStart
  <2> QED
    BY <1>0, <1>2, <2>1, <2>2
<1>7. CASE FailToStart \/ AllGone \/ Land \/ UNCHANGED vars \/ \E t \in Thread : Exit(t)
  <2>1. requests' = requests /\ authenticated' \in {authenticated, FALSE} /\ job' = job
    BY <1>7, Landings DEF FailToStart, AllGone, Exit, vars, threadVars, countVars, Control
  <2>2. \A t \in Thread : job'[t] \in {"access", "mac"} => job[t] \in {"access", "mac"}
    BY <2>1
  <2> QED
    BY <1>0, <1>2, <2>1, <2>2
<1> QED
  BY <1>0, <1>1, <1>3, <1>4, <1>5, <1>6, <1>7, NextSteps

LEMMA CleanNext ==
    ASSUME Control, Sound, RequestsCounted, CleanSoFar, [Next]_vars
    PROVE  CleanSoFar'
<1>0. /\ Control' /\ requests \in Nat /\ requests' \in Nat /\ requests' >= requests
      /\ faults \in Nat /\ at \in [Thread -> Nat \ {0}]
  BY ControlNext, RequestsNext DEF Control, LifecycleTypes
<1>1. CASE CreateThreads \/ Restart
  <2>1. \A t \in Thread : job'[t] \notin Cleaning
    BY <1>1 DEF CreateThreads, Restart, JobsAtStart, Cleaning
  <2> QED
    BY <2>1 DEF CleanSoFar
<1>2. ASSUME UNCHANGED <<conf, kernel, addedLate>>, faults' = 0 => faults = 0,
             \A t \in Thread : \/ at'[t] = 1
                               \/ job'[t] = job[t] /\ at'[t] = at[t]
      PROVE  CleanSoFar'
  <2>1. ASSUME NEW t \in Thread, job'[t] \in Cleaning, faults' = 0
        PROVE  Cleaned(t, kernel', requests', addedLate', at'[t])
    <3>1. CASE at'[t] = 1
      <4>1. \A j \in 1 .. Len(fw_destroy(conf)) : ~(j < 1)
        BY DestroyProgram, LenProperties
      <4> QED
        BY <3>1, <4>1 DEF Cleaned
    <3>2. CASE job'[t] = job[t] /\ at'[t] = at[t]
      <4>1. Cleaned(t, kernel, requests, addedLate, at[t])
        BY <1>2, <2>1, <3>2, CleanForm
      <4>2. requests > 0 => requests' > 0
        BY <1>0
      <4> QED
        BY <1>2, <3>2, <4>1, <4>2 DEF Cleaned, AchievedIn
    <3> QED
      BY <1>2, <3>1, <3>2
  <2> QED
    BY <1>2, <2>1, CleanFormNext
<1>3. ASSUME NEW u \in Thread, ProgramStep(u) PROVE CleanSoFar'
  <2>0. UNCHANGED <<conf, job, requests, addedLate>> /\ (faults' = 0 => faults = 0) /\ \E n \in Nat : GoesOn(u, n)
    BY <1>3, ProgramSteps DEF Control
  <2>1. ASSUME NEW t \in Thread, job'[t] \in Cleaning, faults' = 0
        PROVE  Cleaned(t, kernel', requests', addedLate', at'[t])
    <3>1. CASE t = u
      BY <1>3, <2>0, <2>1, <3>1, CleansOn
    <3>2. CASE t # u
      <4>1. NoMore(kernel, kernel', requests, addedLate)
        BY <1>3, <2>0, <2>1, <3>2, CleansBeside
      <4>2. at'[t] = at[t]
        BY <1>0, <2>0, <3>2 DEF GoesOn
      <4>3. Cleaned(t, kernel, requests, addedLate, at[t])
        BY <2>0, <2>1, CleanForm
      <4> QED
        BY <2>0, <4>1, <4>2, <4>3, CleanedStays
    <3> QED
      BY <3>1, <3>2
  <2> QED
    BY <2>0, <2>1, CleanFormNext
<1>4. CASE StartLoop \/ FinishClean \/ FinishInit
  <2>1. MainTurn
    BY <1>4, MainTurns DEF Control
  <2>2. \E j, p : Turn(Main, j, p)
    BY <2>1 DEF MainTurn
  <2> QED
    BY <1>2, <2>2, DoOne, MainIsAThread DEF Turn, Control
<1>5. ASSUME NEW t \in Thread, Deliver(t) \/ GiveUp(t) PROVE CleanSoFar'
  <2>1. UNCHANGED <<conf, kernel, addedLate>> /\ (faults' = 0 => faults = 0) /\ \E j \in Job, p \in Program : Do(t, j, p)
    BY <1>5, Handled DEF Job, Program
  <2> QED
    BY <1>2, <2>1, DoOne DEF Control
<1>6. ASSUME NEW w \in Worker, RequestStep(w) PROVE CleanSoFar'
  <2>1. WorkerTurn(w)
    BY <1>6, WorkerTurns DEF Control
  <2>2. \E j, p : Turn(w, j, p)
    BY <2>1 DEF WorkerTurn
  <2> QED
    BY <1>2, <2>2, DoOne, MainIsAThread DEF Turn, Control
<1>7. CASE FailToStart \/ AllGone \/ UNCHANGED vars \/ \E t \in Thread : Exit(t)
  BY <1>2, <1>7 DEF FailToStart, AllGone, Exit, vars, threadVars, progVars, lateVars, countVars
<1>8. CASE Land
  <2>1. UNCHANGED <<conf, job, at, faults, requests>>
    BY <1>8, Landings DEF Control
  <2>2. addedLate \subseteq addedLate' /\ NoMore(kernel, kernel', requests, addedLate')
    BY <1>8, NoMoreByLanding
  <2>3. ASSUME NEW t \in Thread, job'[t] \in Cleaning, faults' = 0
        PROVE  Cleaned(t, kernel', requests', addedLate', at'[t])
    <3>1. Cleaned(t, kernel, requests, addedLate, at[t])
      BY <2>1, <2>3, CleanForm
    <3> QED
      BY <2>1, <2>2, <3>1, CleanedStays
  <2> QED
    BY <2>1, <2>3, CleanFormNext
<1> QED
  BY <1>1, <1>3, <1>4, <1>5, <1>6, <1>7, <1>8, NextSteps

LEMMA ExitNext ==
    ASSUME ExitInvariant, [Next]_vars
    PROVE  ExitInvariant'
<1> USE DEF ExitInvariant
<1>1. Control' /\ Sound' /\ RequestsCounted' /\ CleanSoFar'
  BY ControlNext, SoundNext, RequestsNext, CleanNext
<1>2. ExitedAtEnd'
  <2>1. CASE UNCHANGED <<conf, status, job, prog, at>>
    BY <2>1 DEF ExitedAtEnd, Ended
  <2>2. CASE status' # "exited"
    BY <2>2 DEF ExitedAtEnd
  <2>3. CASE FailToStart
    BY <2>3 DEF FailToStart, ExitedAtEnd, threadVars
  <2>4. ASSUME NEW t \in Thread, Exit(t) PROVE ExitedAtEnd'
    <3>1. job[t] \in Cleaning /\ Ended(t) /\ UNCHANGED <<conf, job, prog, at>>
      BY <2>4 DEF Exit, Cleaning, threadVars, progVars
    <3> QED
      BY <3>1 DEF ExitedAtEnd, Ended
  <2>5. CASE Running /\ status' = status
    BY <2>2, <2>5 DEF Running
  <2>6. CASE AllGone \/ Restart
    BY <2>2, <2>6 DEF AllGone, Restart
  <2>7. CASE StartLoop \/ FinishClean \/ FinishInit \/ CreateThreads
    BY <2>5, <2>7 DEF StartLoop, FinishClean, FinishInit, CreateThreads
  <2>8. ASSUME NEW t \in Thread, ProgramStep(t) PROVE ExitedAtEnd'
    BY <2>5, <2>8, ProgramSteps DEF Control, CanRun
  <2>9. ASSUME NEW t \in Thread, Deliver(t) \/ GiveUp(t) PROVE ExitedAtEnd'
    BY <2>5, <2>9, Handled
  <2>10. ASSUME NEW w \in Worker, RequestStep(w) PROVE ExitedAtEnd'
    BY <2>5, <2>10, WorkerTurns DEF WorkerTurn, Turn, Control
  <2>11. CASE Land \/ UNCHANGED vars
    BY <2>1, <2>11, Landings DEF Control, vars, threadVars, progVars
  <2> QED
    BY <2>3, <2>4, <2>6, <2>7, <2>8, <2>9, <2>10, <2>11, NextSteps
<1> QED
  BY <1>1, <1>2

\* What a process leaves is what its clean-up came to.
LEMMA ExitLeaves ==
    ASSUME ExitInvariant
    PROVE  ExitLeavesNoJump
<1> USE DEF ExitInvariant
<1> SUFFICES ASSUME status = "exited", faults = 0, job[Main] # "boot"
             PROVE  /\ \A c \in BuiltIn \ addedLate : Jumps(kernel, c) = <<>>
                    /\ \A c \in (OwnChain \cap kernel.chains) \ addedLate :
                          /\ requests > 0 /\ c \in RequestChain
                          /\ Skeleton(kernel, c) = <<>>
  BY DEF ExitLeavesNoJump, RequestChain
<1>1. PICK t \in Thread : job[t] \in Cleaning /\ Ended(t)
  BY DEF ExitedAtEnd
<1> QED
  BY <1>1, CleanedAll

\* A process that cleaned up to the end and exited, with no command failing for reasons of
\* its own, left no jump to its chains and no chain but those to which requests wrote
\* meanwhile.
THEOREM ExitsClean == Spec => []ExitLeavesNoJump
<1>1. Init => ExitInvariant
  BY ExitInit
<1>2. ExitInvariant /\ [Next]_vars => ExitInvariant'
  BY ExitNext
<1>3. ExitInvariant => ExitLeavesNoJump
  BY ExitLeaves
<1> QED
  BY <1>1, <1>2, <1>3, PTL DEF Spec
----------------------------------------------------------------------------
(* The order of the commands that build the chains.  *)

\* The commands of s before position i that are not passed over, and those of M.
Before(s, i, M) == M \cup {s[j] : j \in {j \in 1 .. i - 1 : ~PassedOver(s, j)}}

\* What the commands of M make and insert.
Creates(M, d) == \E cmd \in M : cmd.op = "-N" /\ cmd.on = d
Inserts(M, b, n) ==
    \E cmd \in M : cmd.op = "-I" /\ cmd.on = b /\ cmd.at = n /\ cmd.to \in OwnChain

\* Command cmd finds what it needs when those of M were carried out.
Ready(cmd, M) ==
    /\ cmd.op = "-I" /\ cmd.to \in OwnChain =>
          Creates(M, cmd.to) /\ (cmd.at = 1 \/ Inserts(M, cmd.on, cmd.at - 1))
    /\ cmd.op = "-A" => Creates(M, cmd.on) /\ (cmd.to \in OwnChain => Creates(M, cmd.to))
    /\ cmd.op = "class add" => Creates(M, cmd.on)

\* A device that does not come up passes over commands that belong to it, and they follow
\* in the same sequence.
Ordered(s, M) ==
    \A i \in 1 .. Len(s) : IF PassedOver(s, i) THEN s[i].op # "no link"
                                                ELSE Ready(s[i], Before(s, i, M))
EndsBy(cmd, i, n) == cmd.op = "no link" => i + cmd.skip <= n
Closed(s) == \A i \in 1 .. Len(s) : EndsBy(s[i], i, Len(s))

\* A sequence of commands that are ready after those of M, and that runs those of N.
Piece(s, M, N) ==
    /\ s \in Seq(CommandType) /\ Ordered(s, M) /\ Closed(s)
    /\ N \subseteq Before(s, Len(s) + 1, {})

LEMMA ReadyMore ==
    ASSUME NEW cmd, NEW M, NEW N, M \subseteq N, Ready(cmd, M)
    PROVE  Ready(cmd, N)
BY DEF Ready, Creates, Inserts

LEMMA PieceMore ==
    ASSUME NEW s, NEW M, NEW N, Piece(s, M, N), NEW P, M \subseteq P, NEW Q, Q \subseteq N
    PROVE  Piece(s, P, Q)
<1>1. \A i \in 1 .. Len(s) : Before(s, i, M) \subseteq Before(s, i, P)
  BY DEF Before
<1>2. Ordered(s, P)
  BY <1>1, ReadyMore, Zenon DEF Piece, Ordered
<1> QED
  BY <1>2 DEF Piece

\* Where one piece follows another.
Covers(cmd, j, i) == cmd.op = "no link" /\ i <= j + cmd.skip

LEMMA Covering ==
    ASSUME NEW cmd \in CommandType, NEW j \in Nat, NEW i \in Nat, NEW m \in Nat, NEW n \in Nat
    PROVE  /\ Covers(cmd, m + j, m + i) <=> Covers(cmd, j, i)
           /\ EndsBy(cmd, j, n) => EndsBy(cmd, j, n + m) /\ EndsBy(cmd, m + j, m + n)
           /\ EndsBy(cmd, j, n) /\ n < i => ~Covers(cmd, j, i)
<1>1. PICK q \in Nat : q = cmd.skip
  BY DEF CommandType
<1>2. PICK b \in BOOLEAN : b = (cmd.op = "no link")
  OBVIOUS
<1>3. /\ Covers(cmd, m + j, m + i) <=> b /\ m + i <= (m + j) + q
      /\ Covers(cmd, j, i) <=> b /\ i <= j + q
      /\ EndsBy(cmd, j, n) <=> (b => j + q <= n)
      /\ EndsBy(cmd, j, n + m) <=> (b => j + q <= n + m)
      /\ EndsBy(cmd, m + j, m + n) <=> (b => (m + j) + q <= m + n)
  BY <1>1, <1>2, Zenon DEF Covers, EndsBy
<1>4. /\ (m + i <= (m + j) + q) <=> (i <= j + q)
      /\ j + q <= n => j + q <= n + m /\ (m + j) + q <= m + n
      /\ j + q <= n /\ n < i => ~(i <= j + q)
  OBVIOUS
<1> QED
  BY <1>3, <1>4, Zenon

LEMMA PassedOverForm ==
    \A s, i : PassedOver(s, i) <=> \E j \in 1 .. i - 1 : Covers(s[j], j, i)
BY DEF PassedOver, Covers

LEMMA PassedOverParts ==
    ASSUME NEW s \in Seq(CommandType), NEW t \in Seq(CommandType), NEW u \in Seq(CommandType),
           NEW m, NEW n, Parts(u, s, t, m, n), Closed(s)
    PROVE  /\ \A i \in 1 .. m : PassedOver(u, i) <=> PassedOver(s, i)
           /\ \A i \in 1 .. n : PassedOver(u, m + i) <=> PassedOver(t, i)
<1>0. /\ m \in Nat /\ n \in Nat /\ m = Len(s) /\ n = Len(t) /\ m + n = Len(u)
      /\ \A i \in 1 .. m : u[i] = s[i]
      /\ \A i \in 1 .. n : u[m + i] = t[i]
  BY DEF Parts
<1>t. /\ \A i \in 1 .. m : s[i] \in CommandType
      /\ \A i \in 1 .. n : t[i] \in CommandType
  BY <1>0, ElementOfSeq
<1>1. ASSUME NEW i \in 1 .. m PROVE PassedOver(u, i) <=> PassedOver(s, i)
  <2>1. \A j \in 1 .. i - 1 : j \in 1 .. m
    BY <1>0
  <2>2. \A j \in 1 .. i - 1 : u[j] = s[j]
    BY <1>0, <2>1
  <2> QED
    BY <2>2, PassedOverForm, Zenon
<1>2. ASSUME NEW i \in 1 .. n PROVE PassedOver(u, m + i) <=> PassedOver(t, i)
  <2>i. i \in Nat /\ m \in Nat /\ m + i \in Nat
    BY <1>0
  <2>1. ASSUME NEW j \in 1 .. i - 1, Covers(t[j], j, i) PROVE PassedOver(u, m + i)
    <3>1. j \in 1 .. n /\ m + j \in 1 .. (m + i) - 1 /\ j \in Nat
      BY <1>0
    <3>2. u[m + j] = t[j] /\ t[j] \in CommandType
      BY <1>0, <1>t, <3>1
    <3>3. Covers(u[m + j], m + j, m + i)
      BY <2>i, <2>1, <3>1, <3>2, Covering, Zenon
    <3> QED
      BY <3>1, <3>3, PassedOverForm, Zenon
  <2>2. ASSUME NEW j \in 1 .. (m + i) - 1, Covers(u[j], j, m + i) PROVE PassedOver(t, i)
    <3>j. j \in Nat
      BY <1>0
    <3>2. CASE j <= m
      <4>1. j \in 1 .. m /\ m < m + i
        BY <1>0, <3>2
      <4>2. EndsBy(s[j], j, m) /\ u[j] = s[j] /\ s[j] \in CommandType
        BY <1>0, <1>t, <4>1 DEF Closed
      <4>3. ~Covers(s[j], j, m + i)
        BY <2>i, <3>j, <4>1, <4>2, Covering, Zenon
      <4> QED
        BY <2>2, <4>2, <4>3
    <3>3. CASE ~(j <= m)
      <4>1. PICK k \in 1 .. i - 1 : j = m + k
        <5>1. j - m \in 1 .. i - 1 /\ j = m + (j - m)
          BY <2>i, <3>j, <3>3
        <5> QED
          BY <5>1
      <4>2. k \in 1 .. n /\ k \in Nat
        BY <1>0
      <4>3. u[j] = t[k] /\ t[k] \in CommandType
        BY <1>0, <1>t, <4>1, <4>2
      <4>4. Covers(t[k], k, i)
        BY <2>i, <2>2, <4>1, <4>2, <4>3, Covering, Zenon
      <4> QED
        BY <4>4, PassedOverForm, Zenon
    <3> QED
      BY <3>2, <3>3
  <2> QED
    BY <2>1, <2>2, PassedOverForm, Zenon
<1> QED
  BY <1>1, <1>2

LEMMA BeforeParts ==
    ASSUME NEW s \in Seq(CommandType), NEW t \in Seq(CommandType), NEW u \in Seq(CommandType),
           NEW m, NEW n, Parts(u, s, t, m, n), Closed(s), NEW M
    PROVE  /\ \A i \in 1 .. m + 1 : Before(u, i, M) = Before(s, i, M)
           /\ \A i \in 1 .. n + 1 : Before(u, m + i, M) = Before(t, i, Before(s, m + 1, M))
<1>0. /\ m \in Nat /\ n \in Nat /\ m = Len(s) /\ n = Len(t) /\ m + n = Len(u)
      /\ \A i \in 1 .. m : u[i] = s[i]
      /\ \A i \in 1 .. n : u[m + i] = t[i]
  BY DEF Parts
<1>p. /\ \A i \in 1 .. m : PassedOver(u, i) <=> PassedOver(s, i)
      /\ \A i \in 1 .. n : PassedOver(u, m + i) <=> PassedOver(t, i)
  BY PassedOverParts, Zenon
<1>1. ASSUME NEW i \in 1 .. m + 1 PROVE Before(u, i, M) = Before(s, i, M)
  <2>1. \A j \in 1 .. i - 1 : j \in 1 .. m
    BY <1>0
  <2>2. {u[j] : j \in {j \in 1 .. i - 1 : ~PassedOver(u, j)}}
          = {s[j] : j \in {j \in 1 .. i - 1 : ~PassedOver(s, j)}}
    BY <1>0, <1>p, <2>1
  <2> QED
    BY <2>2 DEF Before
<1>2. ASSUME NEW i \in 1 .. n + 1 PROVE Before(u, m + i, M) = Before(t, i, Before(s, m + 1, M))
  <2> DEFINE A == {u[j] : j \in {j \in 1 .. (m + i) - 1 : ~PassedOver(u, j)}}
             B == {s[j] : j \in {j \in 1 .. (m + 1) - 1 : ~PassedOver(s, j)}}
             C == {t[j] : j \in {j \in 1 .. i - 1 : ~PassedOver(t, j)}}
  <2>1. ASSUME NEW x \in A PROVE x \in B \cup C
    <3>1. PICK j \in 1 .. (m + i) - 1 : ~PassedOver(u, j) /\ x = u[j]
      OBVIOUS
    <3>2. CASE j <= m
      <4>1. j \in 1 .. m /\ j \in 1 .. (m + 1) - 1
        BY <1>0, <3>2
      <4>2. x = s[j] /\ ~PassedOver(s, j)
        BY <1>0, <1>p, <3>1, <4>1
      <4> QED
        BY <4>1, <4>2
    <3>3. CASE ~(j <= m)
      <4>1. PICK k \in 1 .. i - 1 : j = m + k
        <5>1. j - m \in 1 .. i - 1 /\ j = m + (j - m)
          BY <1>0, <3>3
        <5> QED
          BY <5>1
      <4>2. k \in 1 .. n
        BY <1>0
      <4>3. x = t[k] /\ ~PassedOver(t, k)
        BY <1>0, <1>p, <3>1, <4>1, <4>2
      <4> QED
        BY <4>3
    <3> QED
      BY <3>2, <3>3
  <2>2. ASSUME NEW x \in B PROVE x \in A
    <3>1. PICK j \in 1 .. (m + 1) - 1 : ~PassedOver(s, j) /\ x = s[j]
      OBVIOUS
    <3>2. j \in 1 .. m /\ j \in 1 .. (m + i) - 1
      BY <1>0
    <3>3. x = u[j] /\ ~PassedOver(u, j)
      BY <1>0, <1>p, <3>1, <3>2
    <3> QED
      BY <3>2, <3>3
  <2>3. ASSUME NEW x \in C PROVE x \in A
    <3>1. PICK j \in 1 .. i - 1 : ~PassedOver(t, j) /\ x = t[j]
      OBVIOUS
    <3>2. j \in 1 .. n /\ m + j \in 1 .. (m + i) - 1
      BY <1>0
    <3>3. x = u[m + j] /\ ~PassedOver(u, m + j)
      BY <1>0, <1>p, <3>1, <3>2
    <3> QED
      BY <3>2, <3>3
  <2>4. A = B \cup C
    BY <2>1, <2>2, <2>3
  <2>5. Before(u, m + i, M) = M \cup A /\ Before(s, m + 1, M) = M \cup B
    BY DEF Before
  <2>6. Before(t, i, Before(s, m + 1, M)) = Before(s, m + 1, M) \cup C
    BY Zenon DEF Before
  <2> HIDE DEF A, B, C
  <2> QED
    BY <2>4, <2>5, <2>6
<1> QED
  BY <1>1, <1>2

LEMMA PieceJoined ==
    ASSUME NEW s, NEW t, NEW u, Joined(u, s, t), NEW M, NEW N, NEW P, NEW Q,
           Piece(s, M, N), Piece(t, P, Q), P \subseteq M \cup N
    PROVE  Piece(u, M, N \cup Q)
<1>0. s \in Seq(CommandType) /\ t \in Seq(CommandType) /\ Closed(s) /\ Closed(t)
  BY DEF Piece
<1>1. PICK m, n : m = Len(s) /\ n = Len(t)
  OBVIOUS
<1>2. u \in Seq(CommandType) /\ Parts(u, s, t, m, n)
  BY <1>0, <1>1, JoinedParts
<1>3. /\ m \in Nat /\ n \in Nat /\ m = Len(s) /\ n = Len(t) /\ m + n = Len(u)
      /\ \A i \in 1 .. m : u[i] = s[i]
      /\ \A i \in 1 .. n : u[m + i] = t[i]
  BY <1>2 DEF Parts
<1>p. /\ \A i \in 1 .. m : PassedOver(u, i) <=> PassedOver(s, i)
      /\ \A i \in 1 .. n : PassedOver(u, m + i) <=> PassedOver(t, i)
  BY <1>0, <1>2, PassedOverParts, Zenon
<1>b. /\ \A i \in 1 .. m + 1 : Before(u, i, M) = Before(s, i, M)
      /\ \A i \in 1 .. n + 1 : Before(u, m + i, M) = Before(t, i, Before(s, m + 1, M))
      /\ \A i \in 1 .. n + 1 : Before(u, m + i, {}) = Before(t, i, Before(s, m + 1, {}))
  <2>1. /\ \A i \in 1 .. m + 1 : Before(u, i, M) = Before(s, i, M)
        /\ \A i \in 1 .. n + 1 : Before(u, m + i, M) = Before(t, i, Before(s, m + 1, M))
    BY <1>0, <1>2, BeforeParts
  <2>2. \A i \in 1 .. n + 1 : Before(u, m + i, {}) = Before(t, i, Before(s, m + 1, {}))
    <3> DEFINE O == {}
    <3>1. \A i \in 1 .. n + 1 : Before(u, m + i, O) = Before(t, i, Before(s, m + 1, O))
      <4> HIDE DEF O
      <4> QED
        BY <1>0, <1>2, BeforeParts
    <3> QED
      BY <3>1
  <2> QED
    BY <2>1, <2>2
<1>4. P \subseteq Before(s, m + 1, M)
  <2>1. N \subseteq Before(s, m + 1, {})
    BY <1>3 DEF Piece
  <2> QED
    BY <2>1 DEF Before
<1>5. Piece(t, Before(s, m + 1, M), Q)
  BY <1>4, PieceMore
<1>6. Ordered(u, M)
  <2> SUFFICES ASSUME NEW i \in 1 .. Len(u)
               PROVE  IF PassedOver(u, i) THEN u[i].op # "no link" ELSE Ready(u[i], Before(u, i, M))
    BY DEF Ordered
  <2>1. CASE i <= m
    <3>1. i \in 1 .. m /\ i \in 1 .. m + 1 /\ i \in 1 .. Len(s)
      BY <1>3, <2>1
    <3>2. u[i] = s[i] /\ (PassedOver(u, i) <=> PassedOver(s, i)) /\ Before(u, i, M) = Before(s, i, M)
      BY <1>3, <1>p, <1>b, <3>1, Zenon
    <3> QED
      BY <3>1, <3>2, Zenon DEF Piece, Ordered
  <2>2. CASE ~(i <= m)
    <3>1. PICK k \in 1 .. n : i = m + k
      <4>1. i - m \in 1 .. n /\ i = m + (i - m)
        BY <1>3, <2>2
      <4> QED
        BY <4>1
    <3>2. k \in 1 .. n + 1 /\ k \in 1 .. Len(t)
      BY <1>3
    <3>3. /\ u[i] = t[k] /\ (PassedOver(u, i) <=> PassedOver(t, k))
          /\ Before(u, i, M) = Before(t, k, Before(s, m + 1, M))
      BY <1>3, <1>p, <1>b, <3>1, <3>2, Zenon
    <3> QED
      BY <1>5, <3>2, <3>3, Zenon DEF Piece, Ordered
  <2> QED
    BY <2>1, <2>2
<1>7. Closed(u)
  <2> SUFFICES ASSUME NEW i \in 1 .. m + n PROVE EndsBy(u[i], i, m + n)
    BY <1>3 DEF Closed
  <2>0. m \in Nat /\ n \in Nat /\ i \in Nat
    BY <1>3
  <2>1. CASE i <= m
    <3>1. i \in 1 .. m
      BY <2>0, <2>1
    <3>2. u[i] = s[i] /\ s[i] \in CommandType /\ EndsBy(s[i], i, m)
      <4>1. u[i] = s[i] /\ i \in 1 .. Len(s)
        BY <1>3, <3>1, Zenon
      <4>2. EndsBy(s[i], i, m)
        BY <1>0, <1>3, <4>1, Zenon DEF Closed
      <4>3. s[i] \in CommandType
        BY <1>0, <4>1, ElementOfSeq, Zenon
      <4> QED
        BY <4>1, <4>2, <4>3, Zenon
    <3> QED
      BY <2>0, <3>2, Covering, Zenon
  <2>2. CASE ~(i <= m)
    <3>1. PICK k \in 1 .. n : i = m + k
      <4>1. i - m \in 1 .. n /\ i = m + (i - m)
        BY <2>0, <2>2
      <4> QED
        BY <4>1
    <3>2. u[i] = t[k] /\ t[k] \in CommandType /\ EndsBy(t[k], k, n) /\ k \in Nat
      <4>1. u[i] = t[k] /\ k \in 1 .. Len(t)
        BY <1>3, <3>1, Zenon
      <4>2. EndsBy(t[k], k, n)
        BY <1>0, <1>3, <4>1, Zenon DEF Closed
      <4>3. t[k] \in CommandType
        BY <1>0, <4>1, ElementOfSeq, Zenon
      <4>4. k \in Nat
        BY <2>0, <3>1
      <4> QED
        BY <4>1, <4>2, <4>3, <4>4, Zenon
    <3> QED
      BY <2>0, <3>1, <3>2, Covering, Zenon
  <2> QED
    BY <2>1, <2>2
<1>8. N \cup Q \subseteq Before(u, Len(u) + 1, {})
  <2>1. N \subseteq Before(s, m + 1, {}) /\ Q \subseteq Before(t, n + 1, {})
    BY <1>3 DEF Piece
  <2>2. n + 1 \in 1 .. n + 1 /\ Len(u) + 1 = m + (n + 1)
    BY <1>3
  <2>3. Before(u, Len(u) + 1, {}) = Before(t, n + 1, Before(s, m + 1, {}))
    BY <1>b, <2>2
  <2> QED
    BY <2>1, <2>3 DEF Before
<1> QED
  BY <1>2, <1>6, <1>7, <1>8 DEF Piece

LEMMA PieceThen ==
    ASSUME NEW s, NEW t, NEW M, NEW N, NEW P, NEW Q, NEW O, Piece(s, M, N), Piece(t, P, Q),
           P \subseteq M \cup N, O \subseteq N \cup Q
    PROVE  Piece(s \o t, M, O)
<1>1. PICK u : u = s \o t
  OBVIOUS
<1>2. Piece(u, M, N \cup Q)
  BY <1>1, PieceJoined DEF Joined
<1>3. Piece(u, M, O)
  BY <1>2, PieceMore
<1> QED
  BY <1>1, <1>3

\* Pieces in which nothing is passed over.
Runs(cmd) == cmd.op # "no link"

LEMMA NothingPassedOver ==
    ASSUME NEW s, NEW n, n = Len(s), n \in Nat, \A i \in 1 .. n : Runs(s[i])
    PROVE  \A i \in 1 .. n + 1 : ~PassedOver(s, i)
<1>1. \A i \in 1 .. n + 1 : \A j \in 1 .. i - 1 : j \in 1 .. n
  OBVIOUS
<1>2. \A i \in 1 .. n + 1 : \A j \in 1 .. i - 1 : ~Covers(s[j], j, i)
  BY <1>1, Zenon DEF Runs, Covers
<1> QED
  BY <1>2, PassedOverForm, Zenon

LEMMA Rising ==
    ASSUME NEW s \in Seq(CommandType), NEW n, n = Len(s), NEW M,
           \A i \in 1 .. n : /\ Runs(s[i])
                             /\ Ready(s[i], M \cup {s[j] : j \in 1 .. i - 1})
    PROVE  Piece(s, M, {s[j] : j \in 1 .. n})
<1>0. n \in Nat
  BY LenProperties
<1>1. \A i \in 1 .. n + 1 : ~PassedOver(s, i)
  BY <1>0, NothingPassedOver
<1>2. \A i \in 1 .. n + 1 : \A O : Before(s, i, O) = O \cup {s[j] : j \in 1 .. i - 1}
  <2> SUFFICES ASSUME NEW i \in 1 .. n + 1, NEW O
               PROVE  Before(s, i, O) = O \cup {s[j] : j \in 1 .. i - 1}
    OBVIOUS
  <2>1. \A j \in 1 .. i - 1 : j \in 1 .. n + 1
    BY <1>0
  <2>2. {j \in 1 .. i - 1 : ~PassedOver(s, j)} = 1 .. i - 1
    BY <1>1, <2>1
  <2> QED
    BY <2>2 DEF Before
<1>3. Ordered(s, M)
  <2>1. \A i \in 1 .. n : i \in 1 .. n + 1
    BY <1>0
  <2>2. ASSUME NEW i \in 1 .. n PROVE ~PassedOver(s, i) /\ Ready(s[i], Before(s, i, M))
    <3>1. ~PassedOver(s, i) /\ Before(s, i, M) = M \cup {s[j] : j \in 1 .. i - 1}
      BY <1>1, <1>2, <2>1
    <3>2. Ready(s[i], M \cup {s[j] : j \in 1 .. i - 1})
      OBVIOUS
    <3> QED
      BY <3>1, <3>2
  <2> QED
    BY <2>2 DEF Ordered
<1>4. Closed(s)
  BY DEF Closed, EndsBy, Runs
<1>5. {s[j] : j \in 1 .. n} \subseteq Before(s, n + 1, {})
  <2>1. n + 1 \in 1 .. n + 1 /\ (n + 1) - 1 = n
    BY <1>0
  <2>2. Before(s, n + 1, {}) = {} \cup {s[j] : j \in 1 .. (n + 1) - 1}
    BY <1>2, <2>1
  <2> QED
    BY <2>1, <2>2
<1> QED
  BY <1>3, <1>4, <1>5 DEF Piece

\* Commands that are ready in any order.
AnyTime(M) == {cmd \in CommandType : Runs(cmd) /\ Ready(cmd, M)}

LEMMA AnyTimePiece ==
    ASSUME NEW M, NEW s \in Seq(AnyTime(M))
    PROVE  Piece(s, M, {})
<1>0. AnyTime(M) \subseteq CommandType
  BY DEF AnyTime
<1>1. s \in Seq(CommandType)
  BY <1>0, SeqMonotonic
<1>2. \A i \in 1 .. Len(s) : s[i] \in AnyTime(M)
  BY ElementOfSeq
<1>3. \A i \in 1 .. Len(s) : Runs(s[i]) /\ Ready(s[i], M)
  BY <1>2 DEF AnyTime
<1>4. \A i \in 1 .. Len(s) : Ready(s[i], M \cup {s[j] : j \in 1 .. i - 1})
  <2> TAKE i \in 1 .. Len(s)
  <2> DEFINE O == {s[j] : j \in 1 .. i - 1}
  <2>1. Ready(s[i], M)
    BY <1>3
  <2> HIDE DEF O
  <2>2. Ready(s[i], M \cup O)
    BY <2>1, ReadyMore
  <2> QED
    BY <2>2 DEF O
<1>5. Piece(s, M, {s[j] : j \in 1 .. Len(s)})
  BY <1>1, <1>3, <1>4, Rising
<1> QED
  BY <1>5, PieceMore

LEMMA EmptyPiece ==
    ASSUME NEW M
    PROVE  Piece(<<>>, M, {})
<1>1. \A S : <<>> \in Seq(S)
  BY EmptySeq
<1> QED
  BY <1>1, AnyTimePiece

\* What a command makes.
LEMMA NewCreates ==
    /\ \A d, M : New(d) \in M => Creates(M, d)
    /\ \A b, n, t, M : Insert(b, n, t) \in M /\ t \in OwnChain => Inserts(M, b, n)
BY DEF Creates, Inserts, New, Insert, Command

LEMMA CommandsReady ==
    ASSUME NEW M
    PROVE  /\ \A d \in Made : New(d) \in AnyTime(M)
           /\ \A d \in OwnChain : Creates(M, d) => AppendRule(d, "rule") \in AnyTime(M)
           /\ \A d, e : <<d, e>> \in InnerJump /\ Creates(M, d) /\ Creates(M, e) =>
                 AppendRule(d, e) \in AnyTime(M)
           /\ \A d, e : <<d, e>> \in TopJump /\ Creates(M, e) => Insert(d, 1, e) \in AnyTime(M)
           /\ \A d, e : \A n \in {2, 3} :
                 <<d, e>> \in TopJump /\ Creates(M, e) /\ Inserts(M, d, n - 1) =>
                    Insert(d, n, e) \in AnyTime(M)
           /\ \A d \in Imq : Creates(M, d) => /\ Class(d, "class 1") \in AnyTime(M)
                                              /\ Class(d, "class 2") \in AnyTime(M)
           /\ Lock \in AnyTime(M) /\ Unlock \in AnyTime(M)
           /\ \A d \in BuiltIn : TryInsert(d) \in AnyTime(M) /\ DeleteNth(d, 1) \in AnyTime(M)
<1>0. \A cmd \in DestroyCommand \cup BuildCommand : cmd \in CommandType
  BY DEF DestroyCommand, BuildCommand
<1>o. "rule" \notin OwnChain /\ "test" \notin OwnChain
  BY DEF OwnChain, MangleChain, FilterChain
<1>c. /\ \A d \in Made : New(d) \in CommandType
      /\ \A d \in OwnChain : AppendRule(d, "rule") \in CommandType
      /\ \A d, e : <<d, e>> \in InnerJump => AppendRule(d, e) \in CommandType
      /\ \A n \in 1 .. 3 : \A d, e : <<d, e>> \in TopJump => Insert(d, n, e) \in CommandType
      /\ \A d \in Imq : Class(d, "class 1") \in CommandType /\ Class(d, "class 2") \in CommandType
      /\ Lock \in CommandType /\ Unlock \in CommandType
  BY <1>0, CommandTypes
<1>d. \A d \in BuiltIn : TryInsert(d) \in CommandType /\ DeleteNth(d, 1) \in CommandType
  BY CommandsAreWellFormed DEF WellFormed
<1>1. \A d : New(d).op = "-N"
  BY DEF New, Command
<1>2. \A d, t : AppendRule(d, t).op = "-A" /\ AppendRule(d, t).on = d /\ AppendRule(d, t).to = t
  BY DEF AppendRule, Command
<1>3. \A d, n, t : /\ Insert(d, n, t).op = "-I" /\ Insert(d, n, t).on = d
                   /\ Insert(d, n, t).at = n /\ Insert(d, n, t).to = t
  BY DEF Insert, Command
<1>4. \A d, t : Class(d, t).op = "class add" /\ Class(d, t).on = d
  BY DEF Class, Command
<1>5. Lock.op = "lock" /\ Unlock.op = "unlock"
  BY DEF Lock, Unlock, Command
<1>6. \A d : /\ TryInsert(d).op = "-I" /\ TryInsert(d).to = "test" /\ DeleteNth(d, 1).op = "-D"
  BY DEF TryInsert, DeleteNth, Insert, Unchecked, Command
<1>e1. \A d \in Made : New(d) \in AnyTime(M)
  BY <1>c, <1>1 DEF AnyTime, Runs, Ready
<1>e2. \A d \in OwnChain : Creates(M, d) => AppendRule(d, "rule") \in AnyTime(M)
  BY <1>c, <1>2, <1>o, ZenonT(40) DEF AnyTime, Runs, Ready
<1>e3. \A d, e : <<d, e>> \in InnerJump /\ Creates(M, d) /\ Creates(M, e) =>
                    AppendRule(d, e) \in AnyTime(M)
  BY <1>c, <1>2 DEF AnyTime, Runs, Ready
<1>e4. ASSUME NEW d, NEW e, <<d, e>> \in TopJump, Creates(M, e) PROVE Insert(d, 1, e) \in AnyTime(M)
  <2>1. 1 \in 1 .. 3
    OBVIOUS
  <2>2. Insert(d, 1, e) \in CommandType
    BY <1>c, <1>e4, <2>1, Zenon
  <2>3. PICK cmd : cmd = Insert(d, 1, e)
    OBVIOUS
  <2>4. cmd.op = "-I" /\ cmd.on = d /\ cmd.at = 1 /\ cmd.to = e
    BY <1>3, <2>3
  <2>5. Ready(cmd, M)
    BY <1>e4, <2>4 DEF Ready
  <2> QED
    BY <2>2, <2>3, <2>4, <2>5 DEF AnyTime, Runs
<1>e5. ASSUME NEW d, NEW e, NEW n \in {2, 3}, <<d, e>> \in TopJump, Creates(M, e), Inserts(M, d, n - 1)
       PROVE  Insert(d, n, e) \in AnyTime(M)
  <2>1. n \in 1 .. 3
    OBVIOUS
  <2>2. Insert(d, n, e) \in CommandType
    BY <1>c, <1>e5, <2>1, Zenon
  <2>3. PICK cmd : cmd = Insert(d, n, e)
    OBVIOUS
  <2>4. cmd.op = "-I" /\ cmd.on = d /\ cmd.at = n /\ cmd.to = e
    BY <1>3, <2>3
  <2>5. Ready(cmd, M)
    BY <1>e5, <2>4 DEF Ready
  <2> QED
    BY <2>2, <2>3, <2>4, <2>5 DEF AnyTime, Runs
<1>e6. \A d \in Imq : Creates(M, d) => /\ Class(d, "class 1") \in AnyTime(M)
                                       /\ Class(d, "class 2") \in AnyTime(M)
  BY <1>c, <1>4 DEF AnyTime, Runs, Ready
<1>e7. Lock \in AnyTime(M) /\ Unlock \in AnyTime(M)
  BY <1>c, <1>5 DEF AnyTime, Runs, Ready
<1>e8. \A d \in BuiltIn : TryInsert(d) \in AnyTime(M) /\ DeleteNth(d, 1) \in AnyTime(M)
  BY <1>d, <1>6, <1>o DEF AnyTime, Runs, Ready
<1> QED
  BY <1>e1, <1>e2, <1>e3, <1>e4, <1>e5, <1>e6, <1>e7, <1>e8

LEMMA RisingPiece ==
    ASSUME NEW S, NEW s \in Seq(S), NEW n, n = Len(s), NEW M,
           \A i \in 1 .. n : \E P : P \subseteq M \cup {s[j] : j \in 1 .. i - 1} /\ s[i] \in AnyTime(P)
    PROVE  Piece(s, M, {s[j] : j \in 1 .. n})
<1>1. ASSUME NEW i \in 1 .. n
      PROVE  /\ s[i] \in CommandType /\ Runs(s[i])
             /\ Ready(s[i], M \cup {s[j] : j \in 1 .. i - 1})
  <2> DEFINE O == M \cup {s[j] : j \in 1 .. i - 1}
  <2>1. PICK P : P \subseteq O /\ s[i] \in AnyTime(P)
    OBVIOUS
  <2>2. s[i] \in CommandType /\ Runs(s[i]) /\ Ready(s[i], P)
    BY <2>1 DEF AnyTime
  <2> HIDE DEF O
  <2>3. Ready(s[i], O)
    BY <2>1, <2>2, ReadyMore
  <2> QED
    BY <2>2, <2>3 DEF O
<1>2. s \in Seq(CommandType)
  <2>1. n \in Nat /\ s \in [1 .. n -> S]
    BY LenProperties
  <2>2. s \in [1 .. n -> CommandType]
    BY <1>1, <2>1
  <2> QED
    BY <2>1, <2>2, FunctionSeq
<1> QED
  BY <1>1, <1>2, Rising

LEMMA NatHead ==
    Piece(<<New("nat OUTGOING"), Insert("nat PREROUTING", 1, "nat OUTGOING"),
            AppendRule("nat OUTGOING", "rule")>>, {}, {New("nat OUTGOING")})
<1>1. PICK a, b, d : /\ a = New("nat OUTGOING") /\ b = Insert("nat PREROUTING", 1, "nat OUTGOING")
                     /\ d = AppendRule("nat OUTGOING", "rule")
  OBVIOUS
<1>2. a \in AnyTime({}) /\ b \in AnyTime({a}) /\ d \in AnyTime({a})
  <2>1. Creates({a}, "nat OUTGOING")
    BY <1>1, NewCreates
  <2>2. /\ "nat OUTGOING" \in Made /\ "nat OUTGOING" \in OwnChain
        /\ <<"nat PREROUTING", "nat OUTGOING">> \in TopJump
    BY DEF Made, OwnChain, TopJump
  <2>3. a \in AnyTime({})
    BY <1>1, <2>2, CommandsReady, Zenon
  <2>4. b \in AnyTime({a})
    BY <1>1, <2>1, <2>2, CommandsReady, Zenon
  <2>5. d \in AnyTime({a})
    BY <1>1, <2>1, <2>2, CommandsReady, Zenon
  <2> QED
    BY <2>3, <2>4, <2>5
<1>3. PICK s : s = <<a, b, d>>
  OBVIOUS
<1>4. s \in Seq({a, b, d}) /\ Len(s) = 3 /\ s[1] = a /\ s[2] = b /\ s[3] = d
  BY <1>3
<1>5. ASSUME NEW i \in 1 .. 3
      PROVE \E P : P \subseteq {} \cup {s[j] : j \in 1 .. i - 1} /\ s[i] \in AnyTime(P)
  <2>1. CASE i = 1
    BY <1>2, <1>4, <2>1
  <2>2. CASE i \in {2, 3}
    <3>1. {a} \subseteq {} \cup {s[j] : j \in 1 .. i - 1}
      BY <1>4, <2>2
    <3>2. s[i] \in AnyTime({a})
      BY <1>2, <1>4, <2>2
    <3> QED
      BY <3>1, <3>2, Zenon
  <2> QED
    BY <2>1, <2>2
<1>6. Piece(s, {}, {s[j] : j \in 1 .. 3})
  BY <1>4, <1>5, RisingPiece
<1>7. Piece(s, {}, {a})
  <2>1. {a} \subseteq {s[j] : j \in 1 .. 3}
    BY <1>4
  <2> QED
    BY <1>6, <2>1, PieceMore
<1> QED
  BY <1>1, <1>3, <1>7

LEMMA MangleHead ==
    Piece(<<New("mangle TRUSTED"), New("mangle BLOCKED"), New("mangle INCOMING"),
            New("mangle OUTGOING"),
            Insert("mangle PREROUTING", 1, "mangle OUTGOING"),
            Insert("mangle PREROUTING", 2, "mangle BLOCKED"),
            Insert("mangle PREROUTING", 3, "mangle TRUSTED"),
            Insert("mangle POSTROUTING", 1, "mangle INCOMING")>>, {},
          {New("mangle TRUSTED"), New("mangle BLOCKED"), New("mangle INCOMING"),
           New("mangle OUTGOING")})
<1>1. PICK a, b, c, d, e, f, g, h :
        /\ a = New("mangle TRUSTED") /\ b = New("mangle BLOCKED")
        /\ c = New("mangle INCOMING") /\ d = New("mangle OUTGOING")
        /\ e = Insert("mangle PREROUTING", 1, "mangle OUTGOING")
        /\ f = Insert("mangle PREROUTING", 2, "mangle BLOCKED")
        /\ g = Insert("mangle PREROUTING", 3, "mangle TRUSTED")
        /\ h = Insert("mangle POSTROUTING", 1, "mangle INCOMING")
  OBVIOUS
<1>2. /\ a \in AnyTime({}) /\ b \in AnyTime({}) /\ c \in AnyTime({}) /\ d \in AnyTime({})
      /\ e \in AnyTime({d}) /\ f \in AnyTime({b, e}) /\ g \in AnyTime({a, f}) /\ h \in AnyTime({c})
  <2>1. /\ Creates({d}, "mangle OUTGOING") /\ Creates({b, e}, "mangle BLOCKED")
        /\ Creates({a, f}, "mangle TRUSTED") /\ Creates({c}, "mangle INCOMING")
    BY <1>1, NewCreates
  <2>2. /\ {"mangle TRUSTED", "mangle BLOCKED", "mangle INCOMING", "mangle OUTGOING"} \subseteq Made
        /\ {"mangle TRUSTED", "mangle BLOCKED", "mangle INCOMING", "mangle OUTGOING"} \subseteq OwnChain
    BY DEF Made, OwnChain, MangleChain
  <2>3. /\ <<"mangle PREROUTING", "mangle OUTGOING">> \in TopJump
        /\ <<"mangle PREROUTING", "mangle BLOCKED">> \in TopJump
        /\ <<"mangle PREROUTING", "mangle TRUSTED">> \in TopJump
        /\ <<"mangle POSTROUTING", "mangle INCOMING">> \in TopJump
    BY DEF TopJump
  <2>4. Inserts({b, e}, "mangle PREROUTING", 1) /\ Inserts({a, f}, "mangle PREROUTING", 2)
    <3>1. "mangle OUTGOING" \in OwnChain /\ "mangle BLOCKED" \in OwnChain
      BY <2>2
    <3>2. e \in {b, e} /\ f \in {a, f}
      OBVIOUS
    <3> QED
      BY <1>1, <3>1, <3>2, NewCreates, Zenon
  <2>5. a \in AnyTime({}) /\ b \in AnyTime({}) /\ c \in AnyTime({}) /\ d \in AnyTime({})
    BY <1>1, <2>2, CommandsReady
  <2>6. e \in AnyTime({d}) /\ h \in AnyTime({c})
    BY <1>1, <2>1, <2>3, CommandsReady, Zenon
  <2>7. f \in AnyTime({b, e}) /\ g \in AnyTime({a, f})
    <3>1. 2 \in {2, 3} /\ 3 \in {2, 3} /\ 2 - 1 = 1 /\ 3 - 1 = 2
      OBVIOUS
    <3>2. Inserts({b, e}, "mangle PREROUTING", 2 - 1) /\ Inserts({a, f}, "mangle PREROUTING", 3 - 1)
      BY <2>4, <3>1
    <3> QED
      BY <1>1, <2>1, <2>3, <3>1, <3>2, CommandsReady, Zenon
  <2> QED
    BY <2>5, <2>6, <2>7
<1>3. PICK s : s = <<a, b, c, d, e, f, g, h>>
  OBVIOUS
<1>4. /\ s \in Seq({a, b, c, d, e, f, g, h}) /\ Len(s) = 8 /\ s[1] = a /\ s[2] = b /\ s[3] = c
      /\ s[4] = d /\ s[5] = e /\ s[6] = f /\ s[7] = g /\ s[8] = h
  BY <1>3
<1>5. ASSUME NEW i \in 1 .. 8
      PROVE \E P : P \subseteq {} \cup {s[j] : j \in 1 .. i - 1} /\ s[i] \in AnyTime(P)
  <2> DEFINE O == {} \cup {s[j] : j \in 1 .. i - 1}
  <2>1. CASE i \in 1 .. 4
    <3>1. s[i] \in AnyTime({})
      BY <1>2, <1>4, <2>1
    <3> QED
      BY <3>1
  <2>2. CASE i = 5
    <3>1. {d} \subseteq O /\ s[i] \in AnyTime({d})
      BY <1>2, <1>4, <2>2
    <3> HIDE DEF O
    <3>2. \E P : P \subseteq O /\ s[i] \in AnyTime(P)
      BY <3>1, Zenon
    <3> QED
      BY <3>2 DEF O
  <2>3. CASE i = 6
    <3>1. {b, e} \subseteq O /\ s[i] \in AnyTime({b, e})
      BY <1>2, <1>4, <2>3
    <3> HIDE DEF O
    <3>2. \E P : P \subseteq O /\ s[i] \in AnyTime(P)
      BY <3>1, Zenon
    <3> QED
      BY <3>2 DEF O
  <2>4. CASE i = 7
    <3>1. {a, f} \subseteq O /\ s[i] \in AnyTime({a, f})
      BY <1>2, <1>4, <2>4
    <3> HIDE DEF O
    <3>2. \E P : P \subseteq O /\ s[i] \in AnyTime(P)
      BY <3>1, Zenon
    <3> QED
      BY <3>2 DEF O
  <2>5. CASE i = 8
    <3>1. {c} \subseteq O /\ s[i] \in AnyTime({c})
      BY <1>2, <1>4, <2>5
    <3> HIDE DEF O
    <3>2. \E P : P \subseteq O /\ s[i] \in AnyTime(P)
      BY <3>1, Zenon
    <3> QED
      BY <3>2 DEF O
  <2> QED
    BY <2>1, <2>2, <2>3, <2>4, <2>5
<1>6. Piece(s, {}, {s[j] : j \in 1 .. 8})
  BY <1>4, <1>5, RisingPiece
<1>7. Piece(s, {}, {a, b, c, d})
  <2>1. {a, b, c, d} \subseteq {s[j] : j \in 1 .. 8}
    BY <1>4
  <2> QED
    BY <1>6, <2>1, PieceMore
<1> QED
  BY <1>1, <1>3, <1>7

RouterNews == {New("TO_INTERNET"), New("TO_ROUTER"), New("AUTHENTICATED"), New("TRUSTED"),
               New("TRUSTED_TO_ROUTER")}

LEMMA RouterHead ==
    Piece(<<New("TO_INTERNET"), New("TO_ROUTER"), New("AUTHENTICATED"), New("TRUSTED"),
            New("TRUSTED_TO_ROUTER"), Insert("filter INPUT", 1, "TO_ROUTER"),
            AppendRule("TO_ROUTER", "rule")>>, {}, RouterNews)
<1>1. PICK a, b, c, d, e, f, g :
        /\ a = New("TO_INTERNET") /\ b = New("TO_ROUTER") /\ c = New("AUTHENTICATED")
        /\ d = New("TRUSTED") /\ e = New("TRUSTED_TO_ROUTER")
        /\ f = Insert("filter INPUT", 1, "TO_ROUTER") /\ g = AppendRule("TO_ROUTER", "rule")
  OBVIOUS
<1>2. /\ a \in AnyTime({}) /\ b \in AnyTime({}) /\ c \in AnyTime({}) /\ d \in AnyTime({})
      /\ e \in AnyTime({}) /\ f \in AnyTime({b}) /\ g \in AnyTime({b})
  <2>1. Creates({b}, "TO_ROUTER")
    BY <1>1, NewCreates
  <2>2. /\ FilterChain \subseteq Made /\ "TO_ROUTER" \in OwnChain
        /\ <<"filter INPUT", "TO_ROUTER">> \in TopJump
    BY DEF Made, OwnChain, FilterChain, TopJump
  <2>3. /\ a \in AnyTime({}) /\ b \in AnyTime({}) /\ c \in AnyTime({}) /\ d \in AnyTime({})
        /\ e \in AnyTime({})
    BY <1>1, <2>2, CommandsReady DEF FilterChain
  <2>4. f \in AnyTime({b}) /\ g \in AnyTime({b})
    BY <1>1, <2>1, <2>2, CommandsReady, Zenon
  <2> QED
    BY <2>3, <2>4
<1>3. PICK s : s = <<a, b, c, d, e, f, g>>
  OBVIOUS
<1>4. /\ s \in Seq({a, b, c, d, e, f, g}) /\ Len(s) = 7 /\ s[1] = a /\ s[2] = b /\ s[3] = c
      /\ s[4] = d /\ s[5] = e /\ s[6] = f /\ s[7] = g
  BY <1>3
<1>5. ASSUME NEW i \in 1 .. 7
      PROVE \E P : P \subseteq {} \cup {s[j] : j \in 1 .. i - 1} /\ s[i] \in AnyTime(P)
  <2> DEFINE O == {} \cup {s[j] : j \in 1 .. i - 1}
  <2>1. CASE i \in 1 .. 5
    <3>1. s[i] \in AnyTime({})
      BY <1>2, <1>4, <2>1
    <3> QED
      BY <3>1
  <2>2. CASE i \in {6, 7}
    <3>1. {b} \subseteq O /\ s[i] \in AnyTime({b})
      BY <1>2, <1>4, <2>2
    <3> HIDE DEF O
    <3>2. \E P : P \subseteq O /\ s[i] \in AnyTime(P)
      BY <3>1, Zenon
    <3> QED
      BY <3>2 DEF O
  <2> QED
    BY <2>1, <2>2
<1>6. Piece(s, {}, {s[j] : j \in 1 .. 7})
  BY <1>4, <1>5, RisingPiece
<1>7. Piece(s, {}, {a, b, c, d, e})
  <2>1. {a, b, c, d, e} \subseteq {s[j] : j \in 1 .. 7}
    BY <1>4
  <2> QED
    BY <1>6, <2>1, PieceMore
<1> QED
  BY <1>1, <1>3, <1>7 DEF RouterNews

\* The rules of a rule set, and the jump to its chain.
LEMMA RuleSetAnyTime ==
    ASSUME NEW c, NEW M, NEW d, NEW e, NEW r, <<d, e>> \in InnerJump, Creates(M, d), Creates(M, e)
    PROVE  /\ JumpOrPolicy(c, d, r, e) \in Seq(AnyTime(M))
           /\ _iptables_append_ruleset(c, r, d) \in Seq(AnyTime(M))
<1>1. d \in OwnChain /\ e \in OwnChain
  BY JumpTypes
<1>2. PICK a, b, f : a = AppendRule(d, "rule") /\ b = AppendRule(d, e) /\ f = AppendRule(e, "rule")
  OBVIOUS
<1>3. a \in AnyTime(M) /\ b \in AnyTime(M) /\ f \in AnyTime(M)
  BY <1>1, <1>2, CommandsReady
<1>4. <<a>> \in Seq(AnyTime(M)) /\ <<b, f>> \in Seq(AnyTime(M)) /\ <<f>> \in Seq(AnyTime(M))
  BY <1>3, TupleType, Zenon
<1>5. /\ _iptables_append_ruleset(c, r, d) \in Seq(AnyTime(M))
      /\ _iptables_append_ruleset(c, r, e) \in Seq(AnyTime(M))
  BY <1>2, <1>4, WhenType, Zenon DEF _iptables_append_ruleset
<1>6. JumpOrPolicy(c, d, r, e) \in Seq(AnyTime(M))
  <2> DEFINE S == Seq(AnyTime(M))
  <2>1. \A p, q : p \in S /\ q \in S => p \o q \in S
    BY ConcatType
  <2>2. JumpOrPolicy(c, d, r, e) = IF r \notin c.rulesets THEN <<a>>
                                   ELSE (<<b, f>> \o _iptables_append_ruleset(c, r, e)) \o <<f>>
    BY <1>2, Zenon DEF JumpOrPolicy
  <2> HIDE DEF S
  <2> QED
    BY <1>4, <1>5, <2>1, <2>2 DEF S
<1> QED
  BY <1>5, <1>6

LEMMA RouterPiece ==
    ASSUME NEW c
    PROVE  Piece(RouterInit(c), {}, RouterNews)
<1>1. PICK s : /\ s = <<New("TO_INTERNET"), New("TO_ROUTER"), New("AUTHENTICATED"), New("TRUSTED"),
                        New("TRUSTED_TO_ROUTER"), Insert("filter INPUT", 1, "TO_ROUTER"),
                        AppendRule("TO_ROUTER", "rule")>>
               /\ Piece(s, {}, RouterNews)
  BY RouterHead
<1>2. PICK a, b, d : /\ a = JumpOrPolicy(c, "TO_ROUTER", "trusted-users-to-router", "TRUSTED_TO_ROUTER")
                     /\ b = _iptables_append_ruleset(c, "users-to-router", "TO_ROUTER")
                     /\ d = <<AppendRule("TO_ROUTER", "rule")>>
  OBVIOUS
<1>3. RouterInit(c) = ((s \o a) \o b) \o d
  BY <1>1, <1>2, Zenon DEF RouterInit
<1>4. a \in Seq(AnyTime(RouterNews)) /\ b \in Seq(AnyTime(RouterNews)) /\ d \in Seq(AnyTime(RouterNews))
  <2>1. /\ <<"TO_ROUTER", "TRUSTED_TO_ROUTER">> \in InnerJump /\ "TO_ROUTER" \in OwnChain
        /\ Creates(RouterNews, "TO_ROUTER") /\ Creates(RouterNews, "TRUSTED_TO_ROUTER")
    <3>1. New("TO_ROUTER") \in RouterNews /\ New("TRUSTED_TO_ROUTER") \in RouterNews
      BY DEF RouterNews
    <3>2. <<"TO_ROUTER", "TRUSTED_TO_ROUTER">> \in InnerJump /\ "TO_ROUTER" \in OwnChain
      BY DEF InnerJump, OwnChain, FilterChain
    <3> QED
      BY <3>1, <3>2, NewCreates, Zenon
  <2>2. a \in Seq(AnyTime(RouterNews)) /\ b \in Seq(AnyTime(RouterNews))
    BY <1>2, <2>1, RuleSetAnyTime, Zenon
  <2>3. AppendRule("TO_ROUTER", "rule") \in AnyTime(RouterNews)
    BY <2>1, CommandsReady, Zenon
  <2> QED
    BY <1>2, <2>2, <2>3, TupleType, Zenon
<1>5. Piece(a, RouterNews, {}) /\ Piece(b, RouterNews, {}) /\ Piece(d, RouterNews, {})
  BY <1>4, AnyTimePiece
<1>6. RouterNews \subseteq {} \cup RouterNews /\ RouterNews \cup {} = RouterNews
  OBVIOUS
<1>7. Piece(s \o a, {}, RouterNews)
  BY <1>1, <1>5, <1>6, PieceThen
<1>8. Piece((s \o a) \o b, {}, RouterNews)
  BY <1>5, <1>6, <1>7, PieceThen
<1>9. Piece(((s \o a) \o b) \o d, {}, RouterNews)
  BY <1>5, <1>6, <1>8, PieceThen
<1> QED
  BY <1>3, <1>9

LEMMA InternetPiece ==
    ASSUME NEW c
    PROVE  Piece(InternetInit(c), RouterNews, {})
<1> DEFINE S == Seq(AnyTime(RouterNews))
<1>1. /\ New("TO_INTERNET") \in RouterNews /\ New("TRUSTED") \in RouterNews
      /\ New("AUTHENTICATED") \in RouterNews
  BY DEF RouterNews
<1>2. /\ Creates(RouterNews, "TO_INTERNET") /\ Creates(RouterNews, "TRUSTED")
      /\ Creates(RouterNews, "AUTHENTICATED")
  BY <1>1, NewCreates, Zenon
<1>3. /\ <<"TO_INTERNET", "TRUSTED">> \in InnerJump /\ <<"TO_INTERNET", "AUTHENTICATED">> \in InnerJump
      /\ <<"filter FORWARD", "TO_INTERNET">> \in TopJump /\ "TO_INTERNET" \in OwnChain
  BY DEF InnerJump, TopJump, OwnChain, FilterChain
<1>4. PICK a, b, d, e : /\ a = Insert("filter FORWARD", 1, "TO_INTERNET")
                        /\ b = AppendRule("TO_INTERNET", "rule")
                        /\ d = JumpOrPolicy(c, "TO_INTERNET", "trusted-users", "TRUSTED")
                        /\ e = JumpOrPolicy(c, "TO_INTERNET", "authenticated-users", "AUTHENTICATED")
  OBVIOUS
<1>5. a \in AnyTime(RouterNews) /\ b \in AnyTime(RouterNews)
  BY <1>2, <1>3, <1>4, CommandsReady, Zenon
<1>6. d \in S /\ e \in S
  BY <1>2, <1>3, <1>4, RuleSetAnyTime, Zenon
<1>7. <<a, b>> \in S /\ <<b>> \in S
  BY <1>5, TupleType, Zenon
<1>8. When(c.set_mss, <<b>>) \in S
  BY <1>7, WhenType, Zenon
<1>9. \A p, q : p \in S /\ q \in S => p \o q \in S
  BY ConcatType
<1>10. InternetInit(c) = (((<<a, b>> \o When(c.set_mss, <<b>>)) \o d) \o e) \o <<b>>
  BY <1>4, Zenon DEF InternetInit
<1>11. InternetInit(c) \in S
  <2> HIDE DEF S
  <2> QED
    BY <1>6, <1>7, <1>8, <1>9, <1>10
<1> QED
  BY <1>11, AnyTimePiece

LEMMA NatPiece ==
    ASSUME NEW c
    PROVE  Piece(NatInit(c), {}, {New("nat OUTGOING")})
<1>1. PICK N, s : /\ N = {New("nat OUTGOING")}
                  /\ s = <<New("nat OUTGOING"), Insert("nat PREROUTING", 1, "nat OUTGOING"),
                           AppendRule("nat OUTGOING", "rule")>>
                  /\ Piece(s, {}, N)
  BY NatHead
<1>2. AppendRule("nat OUTGOING", "rule") \in AnyTime(N)
  <2>1. "nat OUTGOING" \in OwnChain /\ Creates(N, "nat OUTGOING")
    BY <1>1, NewCreates DEF OwnChain
  <2> QED
    BY <2>1, CommandsReady, Zenon
<1>3. PICK a, b : /\ a = _iptables_append_ruleset(c, "preauthenticated-users", "nat OUTGOING")
                  /\ b = <<AppendRule("nat OUTGOING", "rule")>>
  OBVIOUS
<1>4. b \in Seq(AnyTime(N))
  BY <1>2, <1>3, TupleType, Zenon
<1>5. a \in Seq(AnyTime(N))
  BY <1>3, <1>4, WhenType, Zenon DEF _iptables_append_ruleset
<1>6. Piece(a, N, {}) /\ Piece(b, N, {})
  BY <1>4, <1>5, AnyTimePiece
<1>7. N \subseteq {} \cup N /\ N \cup {} = N
  OBVIOUS
<1>8. Piece(s \o a, {}, N)
  BY <1>1, <1>6, <1>7, PieceThen
<1>9. Piece((s \o a) \o b, {}, N)
  BY <1>6, <1>7, <1>8, PieceThen
<1>10. NatInit(c) = (s \o a) \o b
  BY <1>1, <1>3, Zenon DEF NatInit
<1> QED
  BY <1>1, <1>9, <1>10

LEMMA WhenPiece ==
    ASSUME NEW b \in BOOLEAN, NEW s, NEW M, NEW N, Piece(s, M, N)
    PROVE  Piece(When(b, s), M, IF b THEN N ELSE {})
BY EmptyPiece DEF When

\* What prepares a device: all of it, or nothing.
LEMMA DevicePiece ==
    ASSUME NEW c, NEW dev \in Imq, NEW x \in OwnChain, NEW M, Creates(M, x)
    PROVE  Piece(<<LinkUp(c, dev), AppendRule(x, "rule")>> \o tc_attach_qdisc(dev), M,
                 IF dev \in c.up THEN {New(dev)} ELSE {})
<1>1. PICK a, b, d, e, f : /\ a = LinkUp(c, dev) /\ b = AppendRule(x, "rule") /\ d = New(dev)
                           /\ e = Class(dev, "class 1") /\ f = Class(dev, "class 2")
  OBVIOUS
<1>a. /\ a \in CommandType /\ a.op = (IF dev \in c.up THEN "link" ELSE "no link") /\ a.skip = 4
  <2>1. LinkUp(c, dev) \in BuildCommand
    BY CommandTypes
  <2>2. /\ LinkUp(c, dev).op = (IF dev \in c.up THEN "link" ELSE "no link")
        /\ LinkUp(c, dev).skip = 4
    BY DEF LinkUp, Command
  <2> QED
    BY <1>1, <2>1, <2>2 DEF BuildCommand
<1>2. b \in AnyTime(M) /\ d \in AnyTime({}) /\ e \in AnyTime({d}) /\ f \in AnyTime({d})
  <2>1. dev \in Made /\ Creates({d}, dev)
    BY <1>1, NewCreates DEF Made
  <2> QED
    BY <1>1, <2>1, CommandsReady
<1>t. b \in CommandType /\ d \in CommandType /\ e \in CommandType /\ f \in CommandType
  BY <1>2 DEF AnyTime
<1>3. PICK s : s = <<a, b>> \o <<d, e, f>>
  OBVIOUS
<1>4. /\ s \in Seq({a, b, d, e, f}) /\ Len(s) = 5
      /\ s[1] = a /\ s[2] = b /\ s[3] = d /\ s[4] = e /\ s[5] = f
  BY <1>3
<1>s. s \in Seq(CommandType)
  <2>1. {a, b, d, e, f} \subseteq CommandType
    BY <1>a, <1>t
  <2> QED
    BY <1>4, <2>1, SeqMonotonic
<1>5. ASSUME dev \in c.up PROVE Piece(s, M, {New(dev)})
  <2>1. a \in AnyTime({})
    BY <1>5, <1>a DEF AnyTime, Runs, Ready
  <2>2. ASSUME NEW i \in 1 .. 5
        PROVE \E P : P \subseteq M \cup {s[j] : j \in 1 .. i - 1} /\ s[i] \in AnyTime(P)
    <3> DEFINE O == M \cup {s[j] : j \in 1 .. i - 1}
    <3>1. CASE i \in {1, 3}
      <4>1. s[i] \in AnyTime({})
        BY <1>2, <1>4, <2>1, <3>1
      <4> QED
        BY <4>1
    <3>2. CASE i = 2
      <4>1. M \subseteq O /\ s[i] \in AnyTime(M)
        BY <1>2, <1>4, <3>2
      <4> HIDE DEF O
      <4>2. \E P : P \subseteq O /\ s[i] \in AnyTime(P)
        BY <4>1, Zenon
      <4> QED
        BY <4>2 DEF O
    <3>3. CASE i \in {4, 5}
      <4>1. {d} \subseteq O /\ s[i] \in AnyTime({d})
        BY <1>2, <1>4, <3>3
      <4> HIDE DEF O
      <4>2. \E P : P \subseteq O /\ s[i] \in AnyTime(P)
        BY <4>1, Zenon
      <4> QED
        BY <4>2 DEF O
    <3> QED
      BY <3>1, <3>2, <3>3
  <2>3. Piece(s, M, {s[j] : j \in 1 .. 5})
    BY <1>4, <2>2, RisingPiece
  <2>4. {New(dev)} \subseteq {s[j] : j \in 1 .. 5}
    <3>1. s[3] = New(dev)
      BY <1>1, <1>4, Zenon
    <3>2. 3 \in 1 .. 5
      OBVIOUS
    <3> QED
      BY <3>1, <3>2
  <2> QED
    BY <2>3, <2>4, PieceMore
<1>6. ASSUME dev \notin c.up PROVE Piece(s, M, {})
  <2>1. a.op = "no link"
    BY <1>6, <1>a
  <2>2. \A i \in 2 .. 5 : Runs(s[i])
    <3>1. Runs(b) /\ Runs(d) /\ Runs(e) /\ Runs(f)
      BY <1>2 DEF AnyTime
    <3> QED
      BY <1>4, <3>1
  <2>3. ASSUME NEW i \in 2 .. 5 PROVE PassedOver(s, i)
    <3>1. i <= 1 + 4
      OBVIOUS
    <3>2. Covers(s[1], 1, i)
      BY <1>4, <1>a, <2>1, <3>1 DEF Covers
    <3>3. 1 \in 1 .. i - 1
      OBVIOUS
    <3> QED
      BY <3>2, <3>3, PassedOverForm, Zenon
  <2>4. ~PassedOver(s, 1) /\ Ready(s[1], Before(s, 1, M))
    <3>1. \A j \in 1 .. 1 - 1 : FALSE
      OBVIOUS
    <3>2. ~PassedOver(s, 1)
      BY <3>1, PassedOverForm, Zenon
    <3>3. Ready(a, Before(s, 1, M))
      BY <2>1 DEF Ready
    <3> QED
      BY <1>4, <3>2, <3>3
  <2>5. Ordered(s, M)
    <3>1. \A i \in 1 .. Len(s) : i = 1 \/ i \in 2 .. 5
      BY <1>4
    <3> QED
      BY <2>2, <2>3, <2>4, <3>1, Zenon DEF Ordered, Runs
  <2>6. Closed(s)
    <3>1. EndsBy(s[1], 1, 5)
      <4>1. 1 + 4 <= 5
        OBVIOUS
      <4>2. s[1] = a /\ a.skip = 4
        BY <1>4, <1>a
      <4> QED
        BY <4>1, <4>2, Zenon DEF EndsBy
    <3>2. \A i \in 2 .. 5 : EndsBy(s[i], i, 5)
      BY <2>2, Zenon DEF EndsBy, Runs
    <3>3. \A i \in 1 .. 5 : i = 1 \/ i \in 2 .. 5
      OBVIOUS
    <3>4. \A i \in 1 .. 5 : EndsBy(s[i], i, 5)
      BY <3>1, <3>2, <3>3, Zenon
    <3> QED
      BY <1>4, <3>4 DEF Closed
  <2> QED
    BY <1>s, <2>5, <2>6 DEF Piece
<1>7. s = <<LinkUp(c, dev), AppendRule(x, "rule")>> \o tc_attach_qdisc(dev)
  BY <1>1, <1>3, Zenon DEF tc_attach_qdisc
<1> QED
  BY <1>5, <1>6, <1>7

MangleNews == {New("mangle TRUSTED"), New("mangle BLOCKED"), New("mangle INCOMING"),
               New("mangle OUTGOING")}
DeviceNews(T) == {New(d) : d \in T}

LEMMA DevicesPiece ==
    ASSUME NEW c \in Configuration
    PROVE  Piece(tc_init_tc(c), MangleNews, DeviceNews(c.limited \cap c.up))
<1>1. PICK a, b :
        /\ a = <<LinkUp(c, "download"), AppendRule("mangle INCOMING", "rule")>>
                  \o tc_attach_qdisc("download")
        /\ b = <<LinkUp(c, "upload"), AppendRule("mangle OUTGOING", "rule")>>
                  \o tc_attach_qdisc("upload")
  OBVIOUS
<1>2. /\ Creates(MangleNews, "mangle INCOMING") /\ Creates(MangleNews, "mangle OUTGOING")
      /\ "mangle INCOMING" \in OwnChain /\ "mangle OUTGOING" \in OwnChain
      /\ "download" \in Imq /\ "upload" \in Imq
  BY NewCreates DEF MangleNews, OwnChain, MangleChain, Imq
<1>3. /\ Piece(a, MangleNews, IF "download" \in c.up THEN {New("download")} ELSE {})
      /\ Piece(b, MangleNews, IF "upload" \in c.up THEN {New("upload")} ELSE {})
  BY <1>1, <1>2, DevicePiece
<1>4. PICK N, Q : /\ N = (IF "download" \in c.limited
                          THEN IF "download" \in c.up THEN {New("download")} ELSE {} ELSE {})
                  /\ Q = (IF "upload" \in c.limited
                          THEN IF "upload" \in c.up THEN {New("upload")} ELSE {} ELSE {})
  OBVIOUS
<1>5. /\ Piece(When("download" \in c.limited, a), MangleNews, N)
      /\ Piece(When("upload" \in c.limited, b), MangleNews, Q)
  <2>1. CASE "download" \in c.limited /\ "upload" \in c.limited
    BY <1>3, <1>4, <2>1 DEF When
  <2>2. CASE "download" \in c.limited /\ "upload" \notin c.limited
    BY <1>3, <1>4, <2>2, EmptyPiece DEF When
  <2>3. CASE "download" \notin c.limited /\ "upload" \in c.limited
    BY <1>3, <1>4, <2>3, EmptyPiece DEF When
  <2>4. CASE "download" \notin c.limited /\ "upload" \notin c.limited
    BY <1>3, <1>4, <2>4, EmptyPiece DEF When
  <2> QED
    BY <2>1, <2>2, <2>3, <2>4
<1>6. DeviceNews(c.limited \cap c.up) \subseteq N \cup Q
  <2>1. c.limited \subseteq {"download", "upload"}
    BY DEF Configuration, Imq
  <2> QED
    BY <1>4, <2>1 DEF DeviceNews
<1>7. Piece(When("download" \in c.limited, a) \o When("upload" \in c.limited, b), MangleNews,
            DeviceNews(c.limited \cap c.up))
  BY <1>5, <1>6, PieceThen
<1> QED
  BY <1>1, <1>7 DEF tc_init_tc

LEMMA ManglePiece ==
    ASSUME NEW c \in Configuration
    PROVE  Piece(MangleInit(c), {}, MangleNews \cup DeviceNews(Used(c)))
<1>1. PICK s : /\ s = <<New("mangle TRUSTED"), New("mangle BLOCKED"), New("mangle INCOMING"),
                        New("mangle OUTGOING"),
                        Insert("mangle PREROUTING", 1, "mangle OUTGOING"),
                        Insert("mangle PREROUTING", 2, "mangle BLOCKED"),
                        Insert("mangle PREROUTING", 3, "mangle TRUSTED"),
                        Insert("mangle POSTROUTING", 1, "mangle INCOMING")>>
               /\ Piece(s, {}, MangleNews)
  BY MangleHead DEF MangleNews
<1>2. PICK a, b, d :
        /\ a = When("mangle TRUSTED" \in c.macs, <<AppendRule("mangle TRUSTED", "rule")>>)
        /\ b = When("mangle BLOCKED" \in c.macs, <<AppendRule("mangle BLOCKED", "rule")>>)
        /\ d = When(c.traffic_control, tc_init_tc(c))
  OBVIOUS
<1>3. Piece(a, MangleNews, {}) /\ Piece(b, MangleNews, {})
  <2>1. /\ Creates(MangleNews, "mangle TRUSTED") /\ Creates(MangleNews, "mangle BLOCKED")
        /\ "mangle TRUSTED" \in OwnChain /\ "mangle BLOCKED" \in OwnChain
    BY NewCreates DEF MangleNews, OwnChain, MangleChain
  <2>2. /\ AppendRule("mangle TRUSTED", "rule") \in AnyTime(MangleNews)
        /\ AppendRule("mangle BLOCKED", "rule") \in AnyTime(MangleNews)
    BY <2>1, CommandsReady, Zenon
  <2>3. a \in Seq(AnyTime(MangleNews)) /\ b \in Seq(AnyTime(MangleNews))
    BY <1>2, <2>2, TupleType, WhenType, Zenon
  <2> QED
    BY <2>3, AnyTimePiece
<1>4. Piece(d, MangleNews, DeviceNews(Used(c)))
  <2>1. c.traffic_control \in BOOLEAN
    BY DEF Configuration
  <2>2. Piece(d, MangleNews, IF c.traffic_control THEN DeviceNews(c.limited \cap c.up) ELSE {})
    BY <1>2, <2>1, DevicesPiece, WhenPiece
  <2>3. DeviceNews(Used(c)) = IF c.traffic_control THEN DeviceNews(c.limited \cap c.up) ELSE {}
    BY DEF DeviceNews, Used
  <2> QED
    BY <2>2, <2>3
<1>5. /\ MangleNews \subseteq {} \cup MangleNews /\ MangleNews \subseteq MangleNews \cup {}
  OBVIOUS
<1>6. Piece(s \o a, {}, MangleNews)
  BY <1>1, <1>3, <1>5, PieceThen
<1>7. Piece((s \o a) \o b, {}, MangleNews)
  BY <1>3, <1>5, <1>6, PieceThen
<1>8. Piece(((s \o a) \o b) \o d, {}, MangleNews \cup DeviceNews(Used(c)))
  BY <1>4, <1>5, <1>7, PieceThen
<1> QED
  BY <1>1, <1>2, <1>8 DEF MangleInit

\* All that fw_init() makes.
BuiltChains == OwnChain \ {"mangle ALLOWED"}
InitNews(c) == ((MangleNews \cup DeviceNews(Used(c))) \cup {New("nat OUTGOING")}) \cup RouterNews

LEMMA InitNewsCreate ==
    ASSUME NEW c, NEW d \in BuiltChains \cup Used(c)
    PROVE  Creates(InitNews(c), d)
<1>1. New(d) \in InitNews(c)
  <2>1. CASE d \in Used(c)
    BY <2>1 DEF InitNews, DeviceNews
  <2>2. CASE d \in BuiltChains
    BY <2>2 DEF BuiltChains, OwnChain, MangleChain, FilterChain, InitNews, MangleNews, RouterNews
  <2> QED
    BY <2>1, <2>2
<1> QED
  BY <1>1, NewCreates, Zenon

LEMMA InitPiece ==
    ASSUME NEW c \in Configuration
    PROVE  Piece(fw_init(c), {}, InitNews(c))
<1>1. PICK s : s = <<Lock, Unlock>> \o _iptables_check_mark_masking
  OBVIOUS
<1>2. Piece(s, {}, {})
  <2> DEFINE S == Seq(AnyTime({}))
  <2>1. "mangle PREROUTING" \in BuiltIn /\ "filter FORWARD" \in BuiltIn
    BY DEF BuiltIn
  <2>2. PICK p, q, a, b : /\ p = TryInsert("mangle PREROUTING") /\ q = DeleteNth("mangle PREROUTING", 1)
                          /\ a = TryInsert("filter FORWARD") /\ b = DeleteNth("filter FORWARD", 1)
    OBVIOUS
  <2>3. /\ p \in AnyTime({}) /\ q \in AnyTime({}) /\ a \in AnyTime({}) /\ b \in AnyTime({})
        /\ Lock \in AnyTime({}) /\ Unlock \in AnyTime({})
    BY <2>1, <2>2, CommandsReady, Zenon
  <2>4. <<Lock, Unlock>> \in S /\ <<p, q>> \in S /\ <<a, b>> \in S
    BY <2>3, TupleType, Zenon
  <2>5. s = <<Lock, Unlock>> \o (<<p, q>> \o <<a, b>>)
    BY <1>1, <2>2, Zenon DEF _iptables_check_mark_masking, TryRule, TryInsert
  <2>6. s \in S
    BY <2>4, <2>5, ConcatType, Zenon
  <2> QED
    BY <2>6, AnyTimePiece
<1>3. PICK N : N = MangleNews \cup DeviceNews(Used(c))
  OBVIOUS
<1>4. Piece(s \o MangleInit(c), {}, N)
  <2>1. Piece(MangleInit(c), {}, N)
    BY <1>3, ManglePiece
  <2> QED
    BY <1>2, <2>1, PieceThen
<1>5. PICK Q : Q = N \cup {New("nat OUTGOING")}
  OBVIOUS
<1>6. Piece((s \o MangleInit(c)) \o NatInit(c), {}, Q)
  <2>1. Piece(NatInit(c), {}, {New("nat OUTGOING")})
    BY NatPiece
  <2> QED
    <3> DEFINE R == {New("nat OUTGOING")}
    <3>1. Piece(NatInit(c), {}, R) /\ Q \subseteq N \cup R /\ {} \subseteq {} \cup N
      BY <1>5, <2>1
    <3> HIDE DEF R
    <3> QED
      BY <1>4, <3>1, PieceThen
<1>7. Piece(((s \o MangleInit(c)) \o NatInit(c)) \o RouterInit(c), {}, Q \cup RouterNews)
  <2>1. Piece(RouterInit(c), {}, RouterNews)
    BY RouterPiece
  <2> QED
    BY <1>6, <2>1, PieceThen
<1>8. Piece((((s \o MangleInit(c)) \o NatInit(c)) \o RouterInit(c)) \o InternetInit(c), {},
            Q \cup RouterNews)
  <2>1. Piece(InternetInit(c), RouterNews, {})
    BY InternetPiece
  <2> QED
    BY <1>7, <2>1, PieceThen
<1>9. InitNews(c) = Q \cup RouterNews
  BY <1>3, <1>5 DEF InitNews
<1>10. fw_init(c) = (((s \o MangleInit(c)) \o NatInit(c)) \o RouterInit(c)) \o InternetInit(c)
  BY <1>1, Zenon DEF fw_init
<1> QED
  BY <1>8, <1>9, <1>10

----------------------------------------------------------------------------
(* What a first start makes, command by command.  *)

\* FreshKernel() after i commands.
FreshAt(c, i) ==
    LET cmds == fw_init(c)
        run[j \in 0 .. Len(cmds)] ==
            IF j = 0 THEN EmptyKernel(Others)
            ELSE IF PassedOver(cmds, j) THEN run[j - 1]
            ELSE RunCommand(run[j - 1], cmds[j])
    IN  run[i]

FreshRun(f, s, n) ==
    f = [i \in 0 .. n |->
            IF i = 0 THEN EmptyKernel(Others)
            ELSE IF PassedOver(s, i) THEN f[i - 1]
            ELSE RunCommand(f[i - 1], s[i])]

\* There is such a function.
LEMMA FreshRunsExist ==
    ASSUME NEW s, NEW n \in Nat
    PROVE  \E f : FreshRun(f, s, n)
<1> DEFINE P == {i \in 0 .. n : \E f : FreshRun(f, s, i)}
<1>1. 0 \in P
  <2>1. \A f : f = [i \in 0 .. 0 |-> EmptyKernel(Others)] => FreshRun(f, s, 0)
    BY DEF FreshRun
  <2>2. \E f : FreshRun(f, s, 0)
    BY <2>1, Zenon
  <2> QED
    BY <2>2
<1>2. ASSUME NEW i \in 0 .. n - 1, i \in P PROVE i + 1 \in P
  <2>0. i \in Nat /\ i + 1 \in 0 .. n
    OBVIOUS
  <2>1. PICK f : FreshRun(f, s, i)
    BY <1>2, Zenon
  <2> DEFINE g == [j \in 0 .. i + 1 |->
                      IF j = i + 1
                      THEN IF PassedOver(s, j) THEN f[j - 1] ELSE RunCommand(f[j - 1], s[j])
                      ELSE f[j]]
             h == [j \in 0 .. i + 1 |->
                      IF j = 0 THEN EmptyKernel(Others)
                      ELSE IF PassedOver(s, j) THEN g[j - 1]
                      ELSE RunCommand(g[j - 1], s[j])]
  <2>2. \A j \in 0 .. i : g[j] = f[j]
    BY <2>0
  <2>3. \A j \in 0 .. i :
          f[j] = IF j = 0 THEN EmptyKernel(Others)
                 ELSE IF PassedOver(s, j) THEN f[j - 1]
                 ELSE RunCommand(f[j - 1], s[j])
    BY <2>1 DEF FreshRun
  <2>4. \A j \in 0 .. i + 1 : g[j] = h[j]
    <3> TAKE j \in 0 .. i + 1
    <3>1. CASE j = i + 1
      <4>1. j - 1 \in 0 .. i /\ j # 0
        BY <2>0, <3>1
      <4> QED
        BY <2>2, <3>1, <4>1
    <3>2. CASE j # i + 1
      <4>1. j \in 0 .. i /\ (j # 0 => j - 1 \in 0 .. i)
        BY <2>0, <3>2
      <4> QED
        BY <2>2, <2>3, <3>2, <4>1
    <3> QED
      BY <3>1, <3>2
  <2>5. g = h
    BY <2>4
  <2>6. FreshRun(g, s, i + 1)
    BY <2>5 DEF FreshRun
  <2>7. \E e : FreshRun(e, s, i + 1)
    <3> HIDE DEF g
    <3> QED
      BY <2>6, Zenon
  <2> QED
    BY <2>0, <2>7
<1>3. P = 0 .. n
  <2> HIDE DEF P
  <2>1. P \in SUBSET (0 .. n)
    BY DEF P
  <2> QED
    BY <1>1, <1>2, <2>1, UpTo
<1> QED
  BY <1>3

LEMMA FreshSteps ==
    ASSUME NEW c, NEW s, s = fw_init(c), NEW n \in Nat, n = Len(s)
    PROVE  /\ FreshAt(c, 0) = EmptyKernel(Others)
           /\ \A i \in 1 .. n : FreshAt(c, i) = IF PassedOver(s, i) THEN FreshAt(c, i - 1)
                                                ELSE RunCommand(FreshAt(c, i - 1), s[i])
           /\ FreshKernel(c) = FreshAt(c, n)
<1> DEFINE chosen == CHOOSE f : FreshRun(f, s, n)
<1>1. FreshRun(chosen, s, n)
  BY FreshRunsExist, Zenon
<1>2. \A i : FreshAt(c, i) = chosen[i]
  BY DEF FreshAt, FreshRun
<1>3. FreshKernel(c) = chosen[n]
  BY DEF FreshKernel, FreshRun
<1> HIDE DEF chosen
<1>4. \A i \in 0 .. n : chosen[i] = IF i = 0 THEN EmptyKernel(Others)
                                    ELSE IF PassedOver(s, i) THEN chosen[i - 1]
                                    ELSE RunCommand(chosen[i - 1], s[i])
  BY <1>1 DEF FreshRun
<1>5. 0 \in 0 .. n /\ \A i \in 1 .. n : i \in 0 .. n /\ i # 0
  OBVIOUS
<1>6. chosen[0] = EmptyKernel(Others)
  BY <1>4, <1>5
<1>7. \A i \in 1 .. n : chosen[i] = IF PassedOver(s, i) THEN chosen[i - 1]
                                    ELSE RunCommand(chosen[i - 1], s[i])
  BY <1>4, <1>5, Zenon
<1> QED
  BY <1>2, <1>3, <1>6, <1>7, Zenon

\* What comes before the next position.
LEMMA BeforeNext ==
    ASSUME NEW s, NEW i \in Nat \ {0}, NEW M
    PROVE  Before(s, i + 1, M) = IF PassedOver(s, i) THEN Before(s, i, M)
                                 ELSE Before(s, i, M) \cup {s[i]}
<1>1. \A j : j \in 1 .. (i + 1) - 1 <=> j \in 1 .. i - 1 \/ j = i
  OBVIOUS
<1>2. CASE PassedOver(s, i)
  <2>1. {j \in 1 .. (i + 1) - 1 : ~PassedOver(s, j)} = {j \in 1 .. i - 1 : ~PassedOver(s, j)}
    BY <1>1, <1>2
  <2> QED
    BY <1>2, <2>1 DEF Before
<1>3. CASE ~PassedOver(s, i)
  <2>1. {j \in 1 .. (i + 1) - 1 : ~PassedOver(s, j)} = {j \in 1 .. i - 1 : ~PassedOver(s, j)} \cup {i}
    BY <1>1, <1>3
  <2> QED
    BY <1>3, <2>1 DEF Before
<1> QED
  BY <1>2, <1>3

\* Nothing that fw_init() runs unmakes a chain.
Unmakes(cmd) == cmd.op \in {"-X", "qdisc del"}

LEMMA InitFits ==
    ASSUME NEW s, StartsWithTries(s), NEW i \in 1 .. Len(s)
    PROVE  WellFormed(s[i]) /\ Fitting(s[i]) /\ ~Unmakes(s[i])
<1>1. /\ Fitting(Lock) /\ Fitting(Unlock)
      /\ Fitting(TryInsert("mangle PREROUTING")) /\ Fitting(TryInsert("filter FORWARD"))
      /\ Fitting(DeleteNth("mangle PREROUTING", 1)) /\ Fitting(DeleteNth("filter FORWARD", 1))
      /\ \A cmd \in BuildCommand : Fitting(cmd)
  BY CommandsFit
<1>2. /\ ~Unmakes(Lock) /\ ~Unmakes(Unlock)
      /\ ~Unmakes(TryInsert("mangle PREROUTING")) /\ ~Unmakes(TryInsert("filter FORWARD"))
      /\ ~Unmakes(DeleteNth("mangle PREROUTING", 1)) /\ ~Unmakes(DeleteNth("filter FORWARD", 1))
  BY DEF Unmakes, Lock, Unlock, TryInsert, DeleteNth, Insert, Unchecked, Command
<1>3. \A cmd \in BuildCommand : ~Unmakes(cmd)
  BY DEF Unmakes, BuildCommand
<1>4. /\ i \in {1, 2} => s[i] = Lock \/ s[i] = Unlock
      /\ i = 3 => s[i] = TryInsert("mangle PREROUTING")
      /\ i = 4 => s[i] = DeleteNth("mangle PREROUTING", 1)
      /\ i = 5 => s[i] = TryInsert("filter FORWARD")
      /\ i = 6 => s[i] = DeleteNth("filter FORWARD", 1)
      /\ i >= 7 => s[i] \in BuildCommand
      /\ WellFormed(s[i])
  BY InitCommands
<1>5. i = 1 \/ i = 2 \/ i = 3 \/ i = 4 \/ i = 5 \/ i = 6 \/ i >= 7
  <2>1. Len(s) \in Nat
    BY LenProperties DEF StartsWithTries
  <2> QED
    BY <2>1
<1>6. i = 1 \/ i = 2 => i \in {1, 2}
  OBVIOUS
<1> QED
  BY <1>1, <1>2, <1>3, <1>4, <1>5, <1>6, Zenon

\* One command of a first start.
LEMMA RunOnce ==
    ASSUME NEW k \in Kernel, SoundKernel(k), NEW cmd, WellFormed(cmd), Fitting(cmd), ~Unmakes(cmd),
           NEW l, l = RunCommand(k, cmd)
    PROVE  /\ l \in Kernel /\ SoundKernel(l)
           /\ l.chains = IF cmd.op = "-N" THEN k.chains \cup {cmd.on} ELSE k.chains
<1>1. CASE Accepts(k, cmd)
  <2>1. l \in Kernel /\ Done(k, cmd, l)
    BY <1>1, EffectDone DEF RunCommand
  <2>2. SoundKernel(l)
    BY <2>1, SoundDone
  <2>3. l.chains = IF cmd.op = "-N" THEN k.chains \cup {cmd.on} ELSE k.chains
    BY <2>1 DEF Done, Rewritten, Unmakes, Changing
  <2> QED
    BY <2>1, <2>2, <2>3
<1>2. CASE ~Accepts(k, cmd)
  <2>1. l = k
    BY <1>2 DEF RunCommand
  <2>2. cmd.op = "-N" => cmd.on \in k.chains
    BY <1>2 DEF Accepts
  <2> QED
    BY <2>1, <2>2
<1> QED
  BY <1>1, <1>2

\* The kernel of a first start is sound, and has what the commands so far make.
FreshIs(f, M) ==
    /\ f \in Kernel /\ SoundKernel(f)
    /\ \A d : d \in f.chains <=> d \in BuiltIn \/ Creates(M, d)

LEMMA FreshGoesOn ==
    ASSUME NEW f, NEW M, FreshIs(f, M), NEW cmd, WellFormed(cmd), Fitting(cmd), ~Unmakes(cmd)
    PROVE  FreshIs(RunCommand(f, cmd), M \cup {cmd})
<1>1. PICK l : l = RunCommand(f, cmd)
  OBVIOUS
<1>2. /\ l \in Kernel /\ SoundKernel(l)
      /\ l.chains = IF cmd.op = "-N" THEN f.chains \cup {cmd.on} ELSE f.chains
  BY <1>1, RunOnce DEF FreshIs
<1>3. \A d : Creates(M \cup {cmd}, d) <=> Creates(M, d) \/ (cmd.op = "-N" /\ cmd.on = d)
  BY DEF Creates
<1>4. \A d : d \in l.chains <=> d \in BuiltIn \/ Creates(M \cup {cmd}, d)
  BY <1>2, <1>3 DEF FreshIs
<1> QED
  BY <1>1, <1>2, <1>4, Zenon DEF FreshIs

LEMMA FreshInvariant ==
    ASSUME NEW c, NEW s, s = fw_init(c), NEW n, n = Len(s)
    PROVE  \A i \in 0 .. n : FreshIs(FreshAt(c, i), Before(s, i + 1, {}))
<1>0. StartsWithTries(s) /\ n \in Nat
  <2>1. StartsWithTries(s)
    BY InitProgram
  <2> QED
    BY <2>1, LenProperties DEF StartsWithTries
<1>1. /\ FreshAt(c, 0) = EmptyKernel(Others)
      /\ \A i \in 1 .. n : FreshAt(c, i) = IF PassedOver(s, i) THEN FreshAt(c, i - 1)
                                           ELSE RunCommand(FreshAt(c, i - 1), s[i])
  BY <1>0, FreshSteps
<1> DEFINE P == {i \in 0 .. n : FreshIs(FreshAt(c, i), Before(s, i + 1, {}))}
<1>2. 0 \in P
  <2>1. \A j \in 1 .. (0 + 1) - 1 : FALSE
    OBVIOUS
  <2>2. Before(s, 0 + 1, {}) = {}
    BY <2>1 DEF Before
  <2>3. FreshIs(EmptyKernel(Others), {})
    BY EmptyKernelType, EmptyKernelSound DEF FreshIs, Creates
  <2> QED
    BY <1>0, <1>1, <2>2, <2>3
<1>3. ASSUME NEW i \in 0 .. n - 1, i \in P PROVE i + 1 \in P
  <2>1. PICK j : j = i + 1
    OBVIOUS
  <2>2. j \in 1 .. n /\ j \in 0 .. n /\ j - 1 = i /\ j \in Nat \ {0}
    BY <1>0, <2>1
  <2>3. FreshIs(FreshAt(c, i), Before(s, j, {}))
    BY <1>3, <2>1
  <2>4. Before(s, j + 1, {}) = IF PassedOver(s, j) THEN Before(s, j, {})
                               ELSE Before(s, j, {}) \cup {s[j]}
    BY <2>2, BeforeNext
  <2>5. FreshAt(c, j) = IF PassedOver(s, j) THEN FreshAt(c, i) ELSE RunCommand(FreshAt(c, i), s[j])
    BY <1>1, <2>2
  <2>6. WellFormed(s[j]) /\ Fitting(s[j]) /\ ~Unmakes(s[j])
    BY <1>0, <2>2, InitFits
  <2>7. FreshIs(RunCommand(FreshAt(c, i), s[j]), Before(s, j, {}) \cup {s[j]})
    BY <2>3, <2>6, FreshGoesOn
  <2>8. FreshIs(FreshAt(c, j), Before(s, j + 1, {}))
    BY <2>3, <2>4, <2>5, <2>7
  <2> QED
    BY <2>1, <2>2, <2>8
<1>4. P = 0 .. n
  <2> HIDE DEF P
  <2>1. P \in SUBSET (0 .. n)
    BY DEF P
  <2> QED
    BY <1>0, <1>2, <1>3, <2>1, UpTo
<1> QED
  BY <1>4

----------------------------------------------------------------------------
(* A start over what others left, and a first start.  *)

\* The first n rules of two chains are the same jumps to chains of wifi-cat; those behind
\* lead to none in C, and in the second chain to none at all.
Aligned(p, q, n, C) ==
    /\ n \in Nat /\ n <= Len(p) /\ n <= Len(q)
    /\ \A i \in 1 .. n : p[i] = q[i] /\ p[i] \in OwnChain
    /\ \A i \in 1 .. Len(p) : i > n => p[i] \notin C
    /\ \A i \in 1 .. Len(q) : i > n => q[i] \notin OwnChain

\* Kernel k has what kernel f has, after commands M.
Alike(k, f, M) ==
    /\ f.chains \subseteq k.chains
    /\ \A c \in f.chains \ BuiltIn : k.rules[c] = f.rules[c]
    /\ \A b \in BuiltIn : \E n : /\ Aligned(k.rules[b], f.rules[b], n, OwnChain \cap f.chains)
                                 /\ \A m \in Nat : Inserts(M, b, m) => m <= n

InsertedIn(s, t, m, e) ==
    /\ Len(t) = Len(s) + 1
    /\ \A i \in 1 .. Len(t) : t[i] = IF i < m THEN s[i] ELSE IF i = m THEN e ELSE s[i - 1]

LEMMA InsertElements ==
    ASSUME NEW T, NEW s \in Seq(T), NEW e \in T, NEW m \in 1 .. Len(s) + 1
    PROVE  InsertedIn(s, InsertAt(s, m, e), m, e)
<1>1. PICK a \in Seq(T), b \in Seq(T) :
         Len(a) = m - 1 /\ Joined(s, a, b) /\ Between(InsertAt(s, m, e), a, e, b)
  BY InsertSplits, Zenon
<1>2. PICK t : t = InsertAt(s, m, e)
  OBVIOUS
<1>3. PICK n \in Nat, k \in Nat : n = Len(a) /\ k = Len(b)
  BY LenProperties
<1>4. s = a \o b /\ t = (a \o <<e>>) \o b
  BY <1>1, <1>2 DEF Joined, Between
<1>5. Len(s) = n + k /\ Len(t) = n + 1 + k /\ m = n + 1
  <2>1. Len(s) = n + k /\ Len(t) = n + 1 + k
    BY <1>3, <1>4
  <2>2. m \in Int
    OBVIOUS
  <2> QED
    BY <1>1, <1>3, <2>1, <2>2
<1>6. ASSUME NEW i \in 1 .. Len(t)
      PROVE  t[i] = IF i < m THEN s[i] ELSE IF i = m THEN e ELSE s[i - 1]
  <2>1. CASE i <= n
    <3>1. t[i] = a[i] /\ s[i] = a[i]
      BY <1>3, <1>4, <1>5, <2>1
    <3>2. i < m
      BY <1>3, <1>5, <2>1
    <3> QED
      BY <3>1, <3>2
  <2>2. CASE i = n + 1
    <3>1. t[i] = e
      BY <1>3, <1>4, <1>5, <2>2
    <3>2. ~(i < m) /\ i = m
      BY <1>3, <1>5, <2>2
    <3> QED
      BY <3>1, <3>2
  <2>3. CASE i > n + 1
    <3>1. PICK j \in 1 .. k : i = n + 1 + j
      <4>1. i - (n + 1) \in 1 .. k /\ i = n + 1 + (i - (n + 1))
        BY <1>5, <2>3
      <4> QED
        BY <4>1
    <3>2. t[n + 1 + j] = b[j] /\ s[n + j] = b[j]
      BY <1>3, <1>4
    <3>3. ~(i < m) /\ i # m /\ i - 1 = n + j
      BY <1>5, <2>3, <3>1
    <3> QED
      BY <3>1, <3>2, <3>3
  <2> QED
    BY <1>3, <1>5, <2>1, <2>2, <2>3
<1>7. Len(t) = Len(s) + 1
  BY <1>3, <1>5
<1> QED
  BY <1>2, <1>6, <1>7, Zenon DEF InsertedIn

LEMMA AlignedInsert ==
    ASSUME NEW p \in Seq(Rule), NEW q \in Seq(Rule), NEW n, NEW C, Aligned(p, q, n, C),
           NEW e \in OwnChain, NEW m \in 1 .. n + 1
    PROVE  Aligned(InsertAt(p, m, e), InsertAt(q, m, e), n + 1, C)
<1>0. e \in Rule
  BY DEF Rule, OwnRule
<1>1. PICK x, y : x = Len(p) /\ y = Len(q)
  OBVIOUS
<1>2. x \in Nat /\ y \in Nat /\ n \in Nat /\ n <= x /\ n <= y
  BY <1>1, LenProperties DEF Aligned
<1>3. m \in 1 .. x + 1 /\ m \in 1 .. y + 1
  BY <1>2
<1>4. PICK u, v : u = InsertAt(p, m, e) /\ v = InsertAt(q, m, e)
  OBVIOUS
<1>5. InsertedIn(p, u, m, e) /\ InsertedIn(q, v, m, e)
  BY <1>0, <1>1, <1>3, <1>4, InsertElements
<1>6. /\ Len(u) = x + 1 /\ Len(v) = y + 1
      /\ \A i \in 1 .. x + 1 : u[i] = IF i < m THEN p[i] ELSE IF i = m THEN e ELSE p[i - 1]
      /\ \A i \in 1 .. y + 1 : v[i] = IF i < m THEN q[i] ELSE IF i = m THEN e ELSE q[i - 1]
  BY <1>1, <1>5 DEF InsertedIn
<1>7. /\ \A i \in 1 .. n : p[i] = q[i] /\ p[i] \in OwnChain
      /\ \A i \in 1 .. x : i > n => p[i] \notin C
      /\ \A i \in 1 .. y : i > n => q[i] \notin OwnChain
  BY <1>1 DEF Aligned
<1>8. ASSUME NEW i \in 1 .. n + 1 PROVE u[i] = v[i] /\ u[i] \in OwnChain
  <2>1. i \in 1 .. x + 1 /\ i \in 1 .. y + 1
    BY <1>2
  <2>2. CASE i < m
    <3>1. i \in 1 .. n
      BY <1>2, <2>2
    <3> QED
      BY <1>6, <1>7, <2>1, <2>2, <3>1
  <2>3. CASE i = m
    BY <1>6, <2>1, <2>3
  <2>4. CASE i > m
    <3>1. i - 1 \in 1 .. n /\ ~(i < m) /\ i # m
      BY <1>2, <2>4
    <3> QED
      BY <1>6, <1>7, <2>1, <3>1
  <2> QED
    BY <1>2, <2>2, <2>3, <2>4
<1>9. ASSUME NEW i \in 1 .. x + 1, i > n + 1 PROVE u[i] \notin C
  <2>1. i - 1 \in 1 .. x /\ i - 1 > n /\ ~(i < m) /\ i # m
    BY <1>2, <1>9
  <2> QED
    BY <1>6, <1>7, <2>1
<1>10. ASSUME NEW i \in 1 .. y + 1, i > n + 1 PROVE v[i] \notin OwnChain
  <2>1. i - 1 \in 1 .. y /\ i - 1 > n /\ ~(i < m) /\ i # m
    BY <1>2, <1>10
  <2> QED
    BY <1>6, <1>7, <2>1
<1>11. n + 1 \in Nat /\ n + 1 <= x + 1 /\ n + 1 <= y + 1
  BY <1>2
<1> QED
  BY <1>4, <1>6, <1>8, <1>9, <1>10, <1>11 DEF Aligned

\* What the commands of the start insert and make.
LEMMA InsertsMore ==
    ASSUME NEW M, NEW cmd, NEW b, NEW m, Inserts(M \cup {cmd}, b, m)
    PROVE  Inserts(M, b, m) \/ (cmd.op = "-I" /\ cmd.on = b /\ cmd.at = m)
BY DEF Inserts

\* A command that is ready, and that is accepted over what others left, is accepted in a
\* first start too.
LEMMA AlikeAccepts ==
    ASSUME NEW k \in Kernel, SoundKernel(k), NEW f, NEW M, FreshIs(f, M), Alike(k, f, M),
           NEW cmd \in BuildCommand, Runs(cmd), Ready(cmd, M), Accepts(k, cmd)
    PROVE  Accepts(f, cmd)
<1>1. CASE cmd.op = "-N"
  BY <1>1 DEF Accepts, Alike
<1>2. CASE cmd.op = "-I"
  <2>1. cmd.at \in 1 .. 3 /\ <<cmd.on, cmd.to>> \in TopJump
    BY <1>2 DEF BuildCommand
  <2>2. cmd.on \in BuiltIn /\ cmd.to \in OwnChain
    BY <2>1, JumpTypes
  <2>3. cmd.on \in f.chains /\ cmd.to \in f.chains
    BY <1>2, <2>2 DEF FreshIs, Ready
  <2>4. PICK n : /\ Aligned(k.rules[cmd.on], f.rules[cmd.on], n, OwnChain \cap f.chains)
                 /\ \A m \in Nat : Inserts(M, cmd.on, m) => m <= n
    BY <2>2, Zenon DEF Alike
  <2>5. PICK a, y : a = cmd.at /\ y = Len(f.rules[cmd.on])
    OBVIOUS
  <2>6. n \in Nat /\ n <= y /\ a \in 1 .. 3
    BY <2>1, <2>4, <2>5 DEF Aligned
  <2>7. y \in Nat
    <3>1. f.rules[cmd.on] \in Seq(Rule)
      BY <2>2 DEF FreshIs, Kernel, Chain
    <3> QED
      BY <2>5, <3>1, LenProperties
  <2>8. a = 1 \/ Inserts(M, cmd.on, a - 1)
    BY <1>2, <2>2, <2>5 DEF Ready
  <2>9. a - 1 \in Nat
    BY <2>6
  <2>10. a = 1 \/ a - 1 <= n
    BY <2>4, <2>8, <2>9, Zenon
  <2>11. a <= y + 1
    BY <2>6, <2>7, <2>10
  <2> QED
    BY <1>2, <2>3, <2>5, <2>11 DEF Accepts
<1>3. CASE cmd.op = "-A"
  BY <1>3 DEF Accepts, Ready, FreshIs
<1>4. CASE cmd.op = "class add"
  <2>1. cmd.on \in f.chains /\ cmd.on \notin BuiltIn
    BY <1>4, ChainsApart DEF Ready, FreshIs, BuildCommand
  <2>2. k.rules[cmd.on] = f.rules[cmd.on]
    BY <2>1 DEF Alike
  <2>3. Mention(f, cmd.on, cmd.to) = Mention(k, cmd.on, cmd.to)
    BY <2>2 DEF Mention
  <2> QED
    BY <1>4, <2>1, <2>3 DEF Accepts
<1>5. CASE cmd.op = "link"
  BY <1>5 DEF Accepts
<1> QED
  BY <1>1, <1>2, <1>3, <1>4, <1>5 DEF BuildCommand, Runs

\* A command of the start that is accepted over what others left does there what it does in
\* a first start.
LEMMA AlikeStep ==
    ASSUME NEW k \in Kernel, SoundKernel(k), NEW f, NEW M, FreshIs(f, M), Alike(k, f, M),
           NEW cmd \in BuildCommand, Runs(cmd), Ready(cmd, M), Accepts(k, cmd)
    PROVE  Alike(Effect(k, cmd), RunCommand(f, cmd), M \cup {cmd})
<1>1. PICK l, g : l = Effect(k, cmd) /\ g = RunCommand(f, cmd)
  OBVIOUS
<1>2. Accepts(f, cmd)
  BY AlikeAccepts
<1>3. WellFormed(cmd) /\ f \in Kernel
  BY CommandsAreWellFormed DEF FreshIs
<1>4. Done(k, cmd, l) /\ l \in Kernel
  BY <1>1, <1>3, EffectDone
<1>5. Done(f, cmd, g) /\ g \in Kernel
  <2>1. g = Effect(f, cmd)
    BY <1>1, <1>2 DEF RunCommand
  <2> QED
    BY <1>2, <1>3, <2>1, EffectDone
<1>6. ASSUME cmd.op # "-I", NEW b, NEW m, Inserts(M \cup {cmd}, b, m) PROVE Inserts(M, b, m)
  BY <1>6, InsertsMore
<1> DEFINE On(n, b) == \A m \in Nat : Inserts(M, b, m) => m <= n
           OnNow(n, b) == \A m \in Nat : Inserts(M \cup {cmd}, b, m) => m <= n
<1>a. /\ f.chains \subseteq k.chains
      /\ \A c \in f.chains \ BuiltIn : k.rules[c] = f.rules[c]
      /\ \A b \in BuiltIn : \E n : Aligned(k.rules[b], f.rules[b], n, OwnChain \cap f.chains) /\ On(n, b)
  BY DEF Alike
<1>n. ASSUME cmd.op # "-I", NEW n, NEW b, On(n, b) PROVE OnNow(n, b)
  BY <1>6, <1>n
<1>q. ASSUME g.chains \subseteq l.chains,
             \A c \in g.chains \ BuiltIn : l.rules[c] = g.rules[c],
             \A b \in BuiltIn : \E n : /\ Aligned(l.rules[b], g.rules[b], n, OwnChain \cap g.chains)
                                       /\ OnNow(n, b)
      PROVE  Alike(l, g, M \cup {cmd})
  BY <1>q DEF Alike
<1> HIDE DEF On, OnNow
<1>7. CASE cmd.op = "link"
  <2>1. l = k /\ g = f /\ cmd.op # "-I"
    BY <1>4, <1>5, <1>7 DEF Done, Changing
  <2> QED
    BY <1>1, <1>a, <1>n, <1>q, <2>1, Zenon
<1>8. CASE cmd.op = "-N"
  <2>1. PICK c : c = cmd.on
    OBVIOUS
  <2>2. /\ c \in OwnChain \cup Imq /\ c \notin f.chains /\ c \notin k.chains
        /\ g.chains = f.chains \cup {c} /\ l.chains = k.chains \cup {c}
        /\ g.rules = f.rules /\ l.rules = k.rules
    BY <1>4, <1>5, <1>8, <2>1 DEF Done, BuildCommand, Made
  <2>3. k.rules[c] = <<>> /\ f.rules[c] = <<>>
    BY <2>2 DEF SoundKernel, FreshIs
  <2>4. ASSUME NEW b \in BuiltIn, NEW n,
               Aligned(k.rules[b], f.rules[b], n, OwnChain \cap f.chains)
        PROVE  Aligned(l.rules[b], g.rules[b], n, OwnChain \cap g.chains)
    <3>1. ASSUME NEW i \in 1 .. Len(k.rules[b]), k.rules[b][i] = c, c \in OwnChain PROVE FALSE
      <4>1. JumpsTo(k, b, c)
        BY <3>1 DEF JumpsTo, Has
      <4> QED
        BY <2>2, <3>1, <4>1 DEF SoundKernel, Chain
    <3> QED
      BY <2>2, <2>4, <3>1 DEF Aligned
  <2>5. \A b \in BuiltIn : \E n : /\ Aligned(l.rules[b], g.rules[b], n, OwnChain \cap g.chains)
                                  /\ OnNow(n, b)
    <3>1. cmd.op # "-I"
      BY <1>8
    <3> QED
      BY <1>a, <1>n, <2>4, <3>1, Zenon
  <2>6. \A d \in g.chains \ BuiltIn : l.rules[d] = g.rules[d]
    BY <1>a, <2>2, <2>3
  <2>7. g.chains \subseteq l.chains
    BY <1>a, <2>2
  <2> QED
    BY <1>1, <1>q, <2>5, <2>6, <2>7
<1>9. CASE cmd.op \in {"-A", "class add"}
  <2>1. PICK c, s : c = cmd.on /\ s = Append(k.rules[c], cmd.to)
    OBVIOUS
  <2>2. c \in f.chains /\ c \notin BuiltIn
    <3>1. cmd.on \in OwnChain \cup Imq
      BY <1>9, JumpTypes DEF BuildCommand
    <3> QED
      BY <1>2, <1>9, <2>1, <3>1, ChainsApart DEF Accepts
  <2>3. s = Append(f.rules[c], cmd.to)
    BY <1>a, <2>1, <2>2
  <2>4. Rewritten(k, l, c, s) /\ Rewritten(f, g, c, s)
    BY <1>4, <1>5, <1>9, <2>1, <2>3 DEF Done
  <2>5. /\ g.chains = f.chains /\ l.chains = k.chains
        /\ l.rules[c] = s /\ g.rules[c] = s
        /\ \A d \in Chain \ {c} : l.rules[d] = k.rules[d] /\ g.rules[d] = f.rules[d]
    BY <2>4 DEF Rewritten
  <2>6. \A d \in g.chains \ BuiltIn : l.rules[d] = g.rules[d]
    BY <1>3, <1>a, <2>5 DEF Kernel
  <2>7. \A b \in BuiltIn : l.rules[b] = k.rules[b] /\ g.rules[b] = f.rules[b]
    BY <2>2, <2>5 DEF Chain
  <2>8. \A b \in BuiltIn : \E n : /\ Aligned(l.rules[b], g.rules[b], n, OwnChain \cap g.chains)
                                  /\ OnNow(n, b)
    <3>1. cmd.op # "-I"
      BY <1>9
    <3> QED
      BY <1>a, <1>n, <2>5, <2>7, <3>1
  <2> QED
    BY <1>1, <1>a, <1>q, <2>5, <2>6, <2>8
<1>10. CASE cmd.op = "-I"
  <2>1. PICK c, e, a : c = cmd.on /\ e = cmd.to /\ a = cmd.at
    OBVIOUS
  <2>2. c \in BuiltIn /\ e \in OwnChain /\ a \in 1 .. 3
    BY <1>10, <2>1, JumpTypes DEF BuildCommand
  <2>3. /\ Rewritten(k, l, c, InsertAt(k.rules[c], a, e))
        /\ Rewritten(f, g, c, InsertAt(f.rules[c], a, e))
    BY <1>4, <1>5, <1>10, <2>1 DEF Done
  <2>4. /\ g.chains = f.chains /\ l.chains = k.chains
        /\ l.rules[c] = InsertAt(k.rules[c], a, e) /\ g.rules[c] = InsertAt(f.rules[c], a, e)
        /\ \A d \in Chain \ {c} : l.rules[d] = k.rules[d] /\ g.rules[d] = f.rules[d]
    BY <2>3 DEF Rewritten
  <2>5. \A d \in g.chains \ BuiltIn : l.rules[d] = g.rules[d]
    BY <1>3, <1>a, <2>2, <2>4 DEF Kernel
  <2>6. ASSUME NEW b \in BuiltIn
        PROVE  \E n : Aligned(l.rules[b], g.rules[b], n, OwnChain \cap g.chains) /\ OnNow(n, b)
    <3>1. PICK n : Aligned(k.rules[b], f.rules[b], n, OwnChain \cap f.chains) /\ On(n, b)
      BY <1>a
    <3>2. n \in Nat
      BY <3>1 DEF Aligned
    <3>3. CASE b # c
      <4>1. l.rules[b] = k.rules[b] /\ g.rules[b] = f.rules[b]
        BY <2>4, <3>3 DEF Chain
      <4>2. OnNow(n, b)
        BY <2>1, <3>1, <3>3, InsertsMore DEF On, OnNow
      <4> QED
        BY <2>4, <3>1, <4>1, <4>2
    <3>4. CASE b = c
      <4>1. a = 1 \/ Inserts(M, c, a - 1)
        BY <1>10, <2>1, <2>2 DEF Ready
      <4>2. a - 1 \in Nat
        BY <2>2
      <4>3. a = 1 \/ a - 1 <= n
        BY <3>1, <3>4, <4>1, <4>2 DEF On
      <4>4. a \in 1 .. n + 1
        BY <2>2, <3>2, <4>3
      <4>5. k.rules[c] \in Seq(Rule) /\ f.rules[c] \in Seq(Rule)
        BY <1>3, <2>2 DEF Kernel, Chain
      <4>6. Aligned(InsertAt(k.rules[c], a, e), InsertAt(f.rules[c], a, e), n + 1, OwnChain \cap f.chains)
        BY <2>2, <3>1, <3>4, <4>4, <4>5, AlignedInsert
      <4>7. OnNow(n + 1, c)
        <5> SUFFICES ASSUME NEW m \in Nat, Inserts(M \cup {cmd}, c, m) PROVE m <= n + 1
          BY DEF OnNow
        <5>1. Inserts(M, c, m) \/ m = a
          BY <2>1, InsertsMore
        <5>2. m <= n \/ m = a
          BY <3>1, <3>4, <5>1 DEF On
        <5> QED
          BY <3>2, <4>4, <5>2
      <4> QED
        BY <2>4, <3>4, <4>6, <4>7
    <3> QED
      BY <3>3, <3>4
  <2>7. g.chains \subseteq l.chains
    BY <1>a, <2>4
  <2> QED
    BY <1>1, <1>q, <2>5, <2>6, <2>7
<1> QED
  BY <1>7, <1>8, <1>9, <1>10 DEF BuildCommand, Runs

----------------------------------------------------------------------------
(* The main thread on its way through the commands of fw_init().  *)

\* The commands before the i-th that were not passed over took effect in kernel k as they
\* do in a first start.
BuiltSoFar(k, c, i) ==
    /\ i \in 7 .. Len(fw_init(c)) + 1
    /\ ~PassedOver(fw_init(c), i)
    /\ Alike(k, FreshAt(c, i - 1), Before(fw_init(c), i, {}))

\* The kernel is tried, whatever is in it, before anything is built.
LEMMA StartsAlike ==
    ASSUME NEW c, NEW k \in Kernel, SoundKernel(k)
    PROVE  BuiltSoFar(k, c, 7)
<1>1. PICK s, n : s = fw_init(c) /\ n = Len(s)
  OBVIOUS
<1>2. StartsWithTries(s)
  BY <1>1, InitProgram
<1>3. n \in Nat /\ n >= 6
  BY <1>1, <1>2, LenProperties DEF StartsWithTries
<1>4. /\ Lock.op = "lock" /\ Unlock.op = "unlock"
      /\ \A d : DeleteNth(d, 1).op = "-D" /\ TryInsert(d).op = "-I" /\ TryInsert(d).to = "test"
  BY DEF Lock, Unlock, TryInsert, DeleteNth, Insert, Unchecked, Command
<1>5. \A i \in 1 .. 6 : s[i].op \notin {"no link", "-N"} /\ (s[i].op = "-I" => s[i].to \notin OwnChain)
  <2>1. /\ s[1] = Lock /\ s[2] = Unlock
        /\ s[3] = TryInsert("mangle PREROUTING") /\ s[4] = DeleteNth("mangle PREROUTING", 1)
        /\ s[5] = TryInsert("filter FORWARD") /\ s[6] = DeleteNth("filter FORWARD", 1)
    BY <1>2 DEF StartsWithTries
  <2>2. /\ "test" \notin OwnChain
    BY DEF OwnChain, MangleChain, FilterChain
  <2>3. \A i \in 1 .. 6 : i = 1 \/ i = 2 \/ i = 3 \/ i = 4 \/ i = 5 \/ i = 6
    OBVIOUS
  <2> QED
    BY <1>4, <2>1, <2>2, <2>3, ZenonT(40)
<1>6. ~PassedOver(s, 7)
  <2>1. \A j \in 1 .. 7 - 1 : j \in 1 .. 6
    OBVIOUS
  <2>2. \A j \in 1 .. 7 - 1 : ~Covers(s[j], j, 7)
    BY <1>5, <2>1, Zenon DEF Covers
  <2> QED
    BY <2>2, PassedOverForm, Zenon
<1>7. PICK M : M = Before(s, 7, {})
  OBVIOUS
<1>8. \A cmd \in M : \E i \in 1 .. 6 : cmd = s[i]
  <2>1. \A j \in 1 .. 7 - 1 : j \in 1 .. 6
    OBVIOUS
  <2> QED
    BY <1>7, <2>1 DEF Before
<1>9. (\A d : ~Creates(M, d)) /\ (\A b, m : ~Inserts(M, b, m))
  BY <1>5, <1>8, Zenon DEF Creates, Inserts
<1>10. PICK f : f = FreshAt(c, 6)
  OBVIOUS
<1>11. FreshIs(f, M)
  <2>1. 6 \in 0 .. n /\ 6 + 1 = 7
    BY <1>3
  <2>2. FreshIs(FreshAt(c, 6), Before(s, 6 + 1, {}))
    BY <1>1, <2>1, FreshInvariant
  <2> QED
    BY <1>7, <1>10, <2>1, <2>2
<1>12. f.chains = BuiltIn /\ f \in Kernel /\ SoundKernel(f)
  BY <1>9, <1>11 DEF FreshIs
<1>13. ASSUME NEW b \in BuiltIn PROVE Aligned(k.rules[b], f.rules[b], 0, OwnChain \cap f.chains)
  <2>1. k.rules[b] \in Seq(Rule) /\ f.rules[b] \in Seq(Rule)
    BY <1>12 DEF Kernel, Chain
  <2>2. PICK x \in Nat, y \in Nat : x = Len(k.rules[b]) /\ y = Len(f.rules[b])
    BY <2>1, LenProperties
  <2>3. OwnChain \cap f.chains = {}
    BY <1>12, ChainsApart
  <2>4. \A i \in 1 .. Len(f.rules[b]) : f.rules[b][i] \notin OwnChain
    <3> SUFFICES ASSUME NEW i \in 1 .. Len(f.rules[b]), f.rules[b][i] \in OwnChain PROVE FALSE
      OBVIOUS
    <3>1. JumpsTo(f, b, f.rules[b][i])
      BY DEF JumpsTo, Has
    <3>2. f.rules[b][i] \in BuiltIn
      BY <1>12, <3>1 DEF SoundKernel, Chain
    <3> QED
      BY <3>2, ChainsApart
  <2>5. 0 \in Nat /\ 0 <= x /\ 0 <= y /\ \A i \in 1 .. 0 : FALSE
    OBVIOUS
  <2> QED
    BY <2>2, <2>3, <2>4, <2>5 DEF Aligned
<1>14. Alike(k, f, M)
  <2>1. BuiltIn \subseteq k.chains
    BY DEF SoundKernel
  <2>2. \A b \in BuiltIn : \E m : /\ Aligned(k.rules[b], f.rules[b], m, OwnChain \cap f.chains)
                                  /\ \A j \in Nat : Inserts(M, b, j) => j <= m
    BY <1>9, <1>13, Zenon
  <2> QED
    BY <1>12, <2>1, <2>2 DEF Alike
<1>15. 7 \in 7 .. n + 1 /\ 7 - 1 = 6
  BY <1>3
<1> QED
  BY <1>1, <1>6, <1>7, <1>10, <1>14, <1>15 DEF BuiltSoFar

\* Where a command that is not passed over leads to.
LEMMA RunsOn ==
    ASSUME NEW s, NEW i \in Nat \ {0}, ~PassedOver(s, i), Runs(s[i]), s[i] \in CommandType,
           \A j \in 1 .. i - 1 : s[j] \in CommandType
    PROVE  ~PassedOver(s, i + 1)
<1> SUFFICES ASSUME NEW j \in 1 .. (i + 1) - 1, Covers(s[j], j, i + 1) PROVE FALSE
  BY PassedOverForm, Zenon
<1>1. CASE j = i
  BY <1>1, Zenon DEF Covers, Runs
<1>2. CASE j # i
  <2>1. j \in 1 .. i - 1 /\ j \in Nat
    BY <1>2
  <2>2. s[j] \in CommandType
    BY <2>1
  <2>3. PICK q \in Nat : q = s[j].skip
    BY <2>2 DEF CommandType
  <2>4. s[j].op = "no link" /\ i + 1 <= j + q
    BY <2>3 DEF Covers
  <2>5. i <= j + q
    <3>1. i + 1 <= j + q => i <= j + q
      BY <2>1
    <3> QED
      BY <2>4, <3>1, Zenon
  <2>6. Covers(s[j], j, i)
    BY <2>3, <2>4, <2>5, Zenon DEF Covers
  <2> QED
    BY <2>1, <2>6, PassedOverForm, Zenon
<1> QED
  BY <1>1, <1>2

LEMMA LeavesOut ==
    ASSUME NEW s \in Seq(CommandType), NEW n, n = Len(s), NEW i \in 1 .. n,
           ~PassedOver(s, i), ~Runs(s[i]), s[i].skip = 4, Ordered(s, {}), Closed(s)
    PROVE  /\ i + 4 <= n
           /\ \A j \in i + 1 .. i + 4 : PassedOver(s, j)
           /\ ~PassedOver(s, i + 5)
<1>0. n \in Nat /\ i \in Nat
  BY LenProperties
<1>t. \A j \in 1 .. n : s[j] \in CommandType
  BY ElementOfSeq
<1>1. i + 4 <= n
  BY DEF Closed, EndsBy, Runs
<1>2. ASSUME NEW j \in i + 1 .. i + 4 PROVE PassedOver(s, j)
  <2>1. i \in 1 .. j - 1 /\ j <= i + 4
    BY <1>0
  <2>2. Covers(s[i], i, j)
    BY <2>1, Zenon DEF Covers, Runs
  <2> QED
    BY <2>1, <2>2, PassedOverForm, Zenon
<1>3. ASSUME NEW j \in 1 .. (i + 5) - 1, Covers(s[j], j, i + 5) PROVE FALSE
  <2>0. j \in 1 .. n /\ j \in Nat
    BY <1>0, <1>1
  <2>1. PICK q \in Nat : q = s[j].skip
    BY <1>t, <2>0 DEF CommandType
  <2>2. s[j].op = "no link" /\ i + 5 <= j + q
    BY <1>3, <2>1, Zenon DEF Covers
  <2>3. i <= j + q
    <3>1. i + 5 <= j + q => i <= j + q
      BY <1>0, <2>0
    <3> QED
      BY <2>2, <3>1, Zenon
  <2>4. CASE j < i
    <3>1. j \in 1 .. i - 1
      BY <1>0, <2>0, <2>4
    <3>2. Covers(s[j], j, i)
      BY <2>1, <2>2, <2>3, Zenon DEF Covers
    <3> QED
      BY <3>1, <3>2, PassedOverForm, Zenon
  <2>5. CASE j = i
    <3>1. q = 4
      BY <2>1, <2>5, Zenon
    <3>2. ~(i + 5 <= i + 4)
      BY <1>0
    <3> QED
      BY <2>2, <2>5, <3>1, <3>2, Zenon
  <2>6. CASE j > i
    <3>1. j \in i + 1 .. i + 4
      BY <1>0, <2>0, <2>6
    <3>2. PassedOver(s, j)
      BY <1>2, <3>1, Zenon
    <3>3. s[j].op # "no link"
      BY <2>0, <3>2, Zenon DEF Ordered
    <3> QED
      BY <2>2, <3>3, Zenon
  <2> QED
    BY <1>0, <2>0, <2>4, <2>5, <2>6
<1>4. ~PassedOver(s, i + 5)
  BY <1>3, PassedOverForm, Zenon
<1> QED
  BY <1>1, <1>2, <1>4

\* What is known of fw_init(), by number of the command.
LEMMA InitFacts ==
    ASSUME NEW c \in Configuration, NEW s, s = fw_init(c), NEW n, n = Len(s)
    PROVE  /\ s \in Seq(CommandType) /\ n \in Nat /\ n >= 6
           /\ Ordered(s, {}) /\ Closed(s)
           /\ \A i \in 7 .. n : s[i] \in BuildCommand
           /\ \A i \in 1 .. n : FreshAt(c, i) = IF PassedOver(s, i) THEN FreshAt(c, i - 1)
                                                ELSE RunCommand(FreshAt(c, i - 1), s[i])
           /\ \A i \in 0 .. n : FreshIs(FreshAt(c, i), Before(s, i + 1, {}))
           /\ InitNews(c) \subseteq Before(s, n + 1, {})
<1>1. Piece(s, {}, InitNews(c))
  BY InitPiece
<1>2. StartsWithTries(s)
  BY InitProgram
<1>3. s \in Seq(CommandType) /\ n \in Nat /\ n >= 6
  BY <1>2, LenProperties DEF StartsWithTries
<1>4. Ordered(s, {}) /\ Closed(s) /\ InitNews(c) \subseteq Before(s, n + 1, {})
  BY <1>1 DEF Piece
<1>5. \A i \in 7 .. n : s[i] \in BuildCommand
  BY <1>2 DEF StartsWithTries
<1>6. \A i \in 1 .. n : FreshAt(c, i) = IF PassedOver(s, i) THEN FreshAt(c, i - 1)
                                        ELSE RunCommand(FreshAt(c, i - 1), s[i])
  BY <1>3, FreshSteps, ZenonT(40)
<1>7. \A i \in 0 .. n : FreshIs(FreshAt(c, i), Before(s, i + 1, {}))
  BY FreshInvariant, Zenon
<1> QED
  BY <1>3, <1>4, <1>5, <1>6, <1>7

LEMMA BuildsOn ==
    ASSUME NEW c \in Configuration, NEW s, s = fw_init(c), NEW n, n = Len(s),
           NEW k \in Kernel, SoundKernel(k), NEW i \in 1 .. n, BuiltSoFar(k, c, i),
           Runs(s[i]), Accepts(k, s[i])
    PROVE  BuiltSoFar(Effect(k, s[i]), c, i + 1)
<1>1. /\ s \in Seq(CommandType) /\ n \in Nat /\ n >= 6
      /\ Ordered(s, {})
      /\ \A j \in 7 .. n : s[j] \in BuildCommand
      /\ \A j \in 1 .. n : FreshAt(c, j) = IF PassedOver(s, j) THEN FreshAt(c, j - 1)
                                           ELSE RunCommand(FreshAt(c, j - 1), s[j])
      /\ \A j \in 0 .. n : FreshIs(FreshAt(c, j), Before(s, j + 1, {}))
  BY InitFacts
<1>2. i \in 7 .. n + 1 /\ ~PassedOver(s, i) /\ Alike(k, FreshAt(c, i - 1), Before(s, i, {}))
  BY DEF BuiltSoFar
<1>3. /\ i \in Nat \ {0} /\ i \in 7 .. n /\ i - 1 \in 0 .. n /\ i + 1 \in 7 .. n + 1
      /\ (i + 1) - 1 = i /\ (i - 1) + 1 = i
  BY <1>1, <1>2
<1>4. PICK f, M, cmd : f = FreshAt(c, i - 1) /\ M = Before(s, i, {}) /\ cmd = s[i]
  OBVIOUS
<1>5. FreshIs(f, M)
  <2>1. FreshIs(FreshAt(c, i - 1), Before(s, (i - 1) + 1, {}))
    BY <1>1, <1>3
  <2> QED
    BY <1>3, <1>4, <2>1
<1>6. cmd \in BuildCommand /\ Ready(cmd, M)
  BY <1>1, <1>2, <1>3, <1>4 DEF Ordered
<1>7. Alike(Effect(k, cmd), RunCommand(f, cmd), M \cup {cmd})
  BY <1>2, <1>4, <1>5, <1>6, AlikeStep
<1>8. FreshAt(c, i) = RunCommand(f, cmd)
  BY <1>1, <1>2, <1>3, <1>4
<1>9. Before(s, i + 1, {}) = M \cup {cmd}
  BY <1>2, <1>3, <1>4, BeforeNext
<1>10. ~PassedOver(s, i + 1)
  <2>1. \A j \in 1 .. i - 1 : j \in 1 .. n
    BY <1>1, <1>3
  <2>2. \A j \in 1 .. n : s[j] \in CommandType
    BY <1>1, ElementOfSeq
  <2> QED
    BY <1>2, <1>3, <2>1, <2>2, RunsOn
<1>11. Alike(Effect(k, cmd), FreshAt(c, (i + 1) - 1), Before(s, i + 1, {}))
  BY <1>3, <1>7, <1>8, <1>9
<1> QED
  BY <1>3, <1>4, <1>10, <1>11 DEF BuiltSoFar

\* A device that does not come up is left out here as in a first start.
LEMMA BuildsWithout ==
    ASSUME NEW c \in Configuration, NEW s, s = fw_init(c), NEW n, n = Len(s),
           NEW k, NEW i \in 1 .. n, BuiltSoFar(k, c, i), ~Runs(s[i])
    PROVE  s[i].skip = 4 /\ BuiltSoFar(k, c, i + 5)
<1>1. /\ s \in Seq(CommandType) /\ n \in Nat /\ n >= 6
      /\ Ordered(s, {}) /\ Closed(s)
      /\ \A j \in 7 .. n : s[j] \in BuildCommand
      /\ \A j \in 1 .. n : FreshAt(c, j) = IF PassedOver(s, j) THEN FreshAt(c, j - 1)
                                           ELSE RunCommand(FreshAt(c, j - 1), s[j])
  BY InitFacts
<1>2. i \in 7 .. n + 1 /\ ~PassedOver(s, i) /\ Alike(k, FreshAt(c, i - 1), Before(s, i, {}))
  BY DEF BuiltSoFar
<1>3. i \in Nat \ {0} /\ i \in 7 .. n /\ i - 1 \in 0 .. n
  BY <1>1, <1>2
<1>4. PICK f, M, cmd : f = FreshAt(c, i - 1) /\ M = Before(s, i, {}) /\ cmd = s[i]
  OBVIOUS
<1>5. cmd \in BuildCommand /\ cmd.op = "no link" /\ cmd.skip = 4
  BY <1>1, <1>3, <1>4 DEF Runs, BuildCommand
<1>6. /\ i + 4 <= n /\ ~PassedOver(s, i + 5)
      /\ \A j \in i + 1 .. i + 4 : PassedOver(s, j)
  BY <1>1, <1>2, <1>4, <1>5, LeavesOut
<1>7. FreshAt(c, i) = f /\ Before(s, i + 1, {}) = M \cup {cmd}
  <2>1. FreshAt(c, i) = RunCommand(f, cmd) /\ Before(s, i + 1, {}) = M \cup {cmd}
    BY <1>1, <1>2, <1>3, <1>4, BeforeNext
  <2>2. ~Accepts(f, cmd)
    BY <1>5 DEF Accepts
  <2> QED
    BY <2>1, <2>2 DEF RunCommand
<1>8. ASSUME NEW j \in Nat, NEW h \in Nat, h = j - 1, j \in i + 1 .. i + 4
      PROVE  FreshAt(c, j) = FreshAt(c, h) /\ Before(s, j + 1, {}) = Before(s, h + 1, {})
  <2>1. j \in 1 .. n /\ j \in Nat \ {0} /\ h + 1 = j
    BY <1>3, <1>6, <1>8
  <2>2. PassedOver(s, j)
    BY <1>6, <1>8
  <2> QED
    BY <1>1, <1>8, <2>1, <2>2, BeforeNext
<1>9. FreshAt(c, i + 4) = f /\ Before(s, (i + 4) + 1, {}) = M \cup {cmd}
  <2>0. /\ i \in Nat /\ i + 1 \in Nat /\ i + 2 \in Nat /\ i + 3 \in Nat /\ i + 4 \in Nat
        /\ i = (i + 1) - 1 /\ i + 1 = (i + 2) - 1 /\ i + 2 = (i + 3) - 1 /\ i + 3 = (i + 4) - 1
        /\ i + 1 \in i + 1 .. i + 4 /\ i + 2 \in i + 1 .. i + 4
        /\ i + 3 \in i + 1 .. i + 4 /\ i + 4 \in i + 1 .. i + 4
    BY <1>3
  <2>1. FreshAt(c, i + 1) = f /\ Before(s, (i + 1) + 1, {}) = M \cup {cmd}
    BY <1>7, <1>8, <2>0, Zenon
  <2>2. FreshAt(c, i + 2) = f /\ Before(s, (i + 2) + 1, {}) = M \cup {cmd}
    BY <1>8, <2>0, <2>1, Zenon
  <2>3. FreshAt(c, i + 3) = f /\ Before(s, (i + 3) + 1, {}) = M \cup {cmd}
    BY <1>8, <2>0, <2>2, Zenon
  <2> QED
    BY <1>8, <2>0, <2>3, Zenon
<1>10. Alike(k, f, M \cup {cmd})
  <2>1. \A b, m : Inserts(M \cup {cmd}, b, m) => Inserts(M, b, m)
    BY <1>5, InsertsMore
  <2>2. Alike(k, f, M)
    BY <1>2, <1>4
  <2> QED
    BY <2>1, <2>2 DEF Alike
<1>11. i + 5 \in 7 .. n + 1 /\ (i + 5) - 1 = i + 4 /\ (i + 4) + 1 = i + 5
  BY <1>1, <1>3, <1>6
<1>12. Alike(k, FreshAt(c, (i + 5) - 1), Before(s, i + 5, {}))
  BY <1>9, <1>10, <1>11
<1> QED
  BY <1>4, <1>5, <1>6, <1>11, <1>12 DEF BuiltSoFar

----------------------------------------------------------------------------
(* The chains that the process serves with.  *)

\* Kernel k has the chains of a first start with configuration c, but for what requests add.
FreshLike(k, c) ==
    LET fresh == FreshKernel(c)
        looked == OwnChain \cup Used(c)
    IN /\ k.chains \cap looked = fresh.chains \cap looked
       /\ \A d \in looked : Skeleton(k, d) = Skeleton(fresh, d)
       /\ \A b \in BuiltIn : Jumps(k, b) = Jumps(fresh, b)

LEMMA ServesForm ==
    ServesFreshChains <=>
        (Running /\ job[Main] \in {"create", "serve"} /\ sigterm_mutex = NULL =>
            FreshLike(kernel, conf))
BY DEF ServesFreshChains, FreshLike

LEMMA OnlyAligned ==
    ASSUME NEW p \in Seq(Rule), NEW q \in Seq(Rule), NEW m, Aligned(p, q, m, OwnChain)
    PROVE  Only(p, OwnChain) = Only(q, OwnChain)
<1>1. PICK x \in Nat, y \in Nat : x = Len(p) /\ y = Len(q)
  BY LenProperties
<1>2. /\ m \in Nat /\ m <= x /\ m <= y
      /\ \A i \in 1 .. m : p[i] = q[i]
      /\ \A i \in 1 .. x : i > m => p[i] \notin OwnChain
      /\ \A i \in 1 .. y : i > m => q[i] \notin OwnChain
  BY <1>1 DEF Aligned
<1>e. /\ \A i \in 1 .. x : p[i] \in Rule
      /\ \A i \in 1 .. y : q[i] \in Rule
  BY <1>1, ElementOfSeq
<1>3. PICK h : h = [i \in 1 .. m |-> p[i]]
  OBVIOUS
<1>4. h \in Seq(Rule) /\ Len(h) = m /\ \A i \in 1 .. m : h[i] = p[i] /\ h[i] = q[i]
  <2>1. \A i \in 1 .. m : i \in 1 .. x
    BY <1>2
  <2>2. h \in [1 .. m -> Rule]
    BY <1>3, <1>e, <2>1
  <2>3. h \in Seq(Rule) /\ Len(h) = m
    BY <1>2, <2>2, FunctionSeq
  <2> QED
    BY <1>2, <1>3, <2>3
<1>5. ASSUME NEW u \in Seq(Rule), NEW z \in Nat, z = Len(u), m <= z,
             \A i \in 1 .. m : h[i] = u[i],
             \A i \in 1 .. z : i > m => u[i] \notin OwnChain
      PROVE  Only(u, OwnChain) = Only(h, OwnChain) \o <<>>
  <2>1. PICK t : t = [i \in 1 .. z - m |-> u[m + i]]
    OBVIOUS
  <2>2. z - m \in Nat /\ m + (z - m) = z /\ \A i \in 1 .. z - m : m + i \in 1 .. z /\ m + i > m
    BY <1>2, <1>5
  <2>3. \A i \in 1 .. z : u[i] \in Rule
    BY <1>5, ElementOfSeq
  <2>4. t \in [1 .. z - m -> Rule]
    BY <2>1, <2>2, <2>3
  <2>5. t \in Seq(Rule) /\ Len(t) = z - m
    BY <2>2, <2>4, FunctionSeq
  <2>6. Parts(u, h, t, m, z - m)
    BY <1>2, <1>4, <1>5, <2>1, <2>2, <2>5 DEF Parts
  <2>7. \A i \in 1 .. Len(t) : t[i] \notin OwnChain
    BY <1>5, <2>1, <2>2, <2>5
  <2>8. Only(t, OwnChain) = <<>>
    BY <2>5, <2>7, OnlyNone
  <2>9. Only(u, OwnChain) = Only(h, OwnChain) \o Only(t, OwnChain)
    BY <1>4, <2>5, <2>6, OnlyParts, SMTT(30)
  <2> QED
    BY <2>8, <2>9
<1>6. Only(p, OwnChain) = Only(h, OwnChain) \o <<>>
  BY <1>1, <1>2, <1>4, <1>5
<1>7. Only(q, OwnChain) = Only(h, OwnChain) \o <<>>
  BY <1>1, <1>2, <1>4, <1>5
<1> QED
  BY <1>6, <1>7

\* When fw_init() has come to its end without a failure, all is as in a first start.
LEMMA BuiltIsFresh ==
    ASSUME NEW c \in Configuration, NEW n, n = Len(fw_init(c)),
           NEW k \in Kernel, SoundKernel(k), BuiltSoFar(k, c, n + 1)
    PROVE  FreshLike(k, c)
<1>1. PICK s, f, M : s = fw_init(c) /\ f = FreshAt(c, n) /\ M = Before(s, n + 1, {})
  OBVIOUS
<1>2. n \in Nat /\ FreshIs(f, M) /\ InitNews(c) \subseteq M
  <2>1. /\ n \in Nat /\ InitNews(c) \subseteq Before(s, n + 1, {})
        /\ \A i \in 0 .. n : FreshIs(FreshAt(c, i), Before(s, i + 1, {}))
    BY <1>1, InitFacts
  <2>2. n \in 0 .. n
    BY <2>1
  <2> QED
    BY <1>1, <2>1, <2>2
<1>3. f = FreshKernel(c)
  BY <1>1, <1>2, FreshSteps
<1>4. Alike(k, f, M)
  <2>1. (n + 1) - 1 = n
    BY <1>2
  <2> QED
    BY <1>1, <2>1 DEF BuiltSoFar
<1>5. BuiltChains \cup Used(c) \subseteq f.chains
  <2> SUFFICES ASSUME NEW d \in BuiltChains \cup Used(c) PROVE d \in f.chains
    OBVIOUS
  <2>1. Creates(InitNews(c), d)
    BY InitNewsCreate
  <2>2. Creates(M, d)
    BY <1>2, <2>1 DEF Creates
  <2> QED
    BY <1>2, <2>2 DEF FreshIs
<1>6. f \in Kernel /\ SoundKernel(f) /\ f.chains \subseteq k.chains
  BY <1>2, <1>4 DEF FreshIs, Alike
<1>7. "mangle ALLOWED" \notin f.chains /\ "mangle ALLOWED" \notin k.chains
  BY <1>6 DEF SoundKernel
<1>8. Used(c) \subseteq Imq /\ OwnChain = BuiltChains \cup {"mangle ALLOWED"}
  BY DEF Used, Configuration, BuiltChains, OwnChain, MangleChain
<1>9. PICK looked : looked = OwnChain \cup Used(c)
  OBVIOUS
<1>10. k.chains \cap looked = f.chains \cap looked
  BY <1>5, <1>6, <1>7, <1>8, <1>9
<1>11. ASSUME NEW d \in looked PROVE k.rules[d] = f.rules[d]
  <2>1. CASE d = "mangle ALLOWED"
    BY <1>6, <1>7, <1>8, <1>9, <2>1 DEF SoundKernel
  <2>2. CASE d # "mangle ALLOWED"
    <3>1. d \in f.chains /\ d \notin BuiltIn
      BY <1>5, <1>8, <1>9, <2>2, ChainsApart
    <3> QED
      BY <1>4, <3>1 DEF Alike
  <2> QED
    BY <2>1, <2>2
<1>12. ASSUME NEW b \in BuiltIn PROVE Jumps(k, b) = Jumps(f, b)
  <2>1. PICK m : Aligned(k.rules[b], f.rules[b], m, OwnChain \cap f.chains)
    BY <1>4 DEF Alike
  <2>2. k.rules[b] \in Seq(Rule) /\ f.rules[b] \in Seq(Rule)
    BY <1>6 DEF Kernel, Chain
  <2>3. ASSUME NEW i \in 1 .. Len(k.rules[b]), k.rules[b][i] = "mangle ALLOWED" PROVE FALSE
    <3>1. JumpsTo(k, b, "mangle ALLOWED")
      BY <2>3 DEF JumpsTo, Has
    <3> QED
      BY <1>7, <1>8, <3>1 DEF SoundKernel, Chain
  <2>4. \A e \in OwnChain : e = "mangle ALLOWED" \/ e \in OwnChain \cap f.chains
    BY <1>5, <1>8
  <2>5. Aligned(k.rules[b], f.rules[b], m, OwnChain)
    BY <2>1, <2>3, <2>4 DEF Aligned
  <2> QED
    BY <2>2, <2>5, OnlyAligned DEF Jumps
<1>13. \A d \in looked : Skeleton(k, d) = Skeleton(f, d)
  BY <1>11 DEF Skeleton
<1> QED
  BY <1>3, <1>9, <1>10, <1>12, <1>13 DEF FreshLike

\* What requests do while the process serves.
LEMMA RequestsKeep ==
    ASSUME NEW k \in Kernel, NEW l, NEW cmd, WellFormed(cmd), Done(k, cmd, l),
           \/ cmd \in AccessCommand
           \/ \E chain \in MacChain : cmd \in MacCommands(chain),
           NEW c \in Configuration, FreshLike(k, c)
    PROVE  FreshLike(l, c)
<1> DEFINE Kept == Rule \ {"client", "mac", "filter"}
<1>1. ASSUME NEW s \in Seq(Rule), NEW e \in {"client", "mac", "filter"}
      PROVE  Only(Append(s, e), Kept) = Only(s, Kept)
  <2>1. e \in Rule /\ e \notin Kept
    BY DEF Rule, OwnRule
  <2> HIDE DEF Kept
  <2> QED
    BY <2>1, OnlyAppended
<1>2. ASSUME NEW s \in Seq(Rule), NEW i \in 1 .. Len(s), s[i] \in {"client", "mac", "filter"}
      PROVE  Only(RemoveAt(s, i), Kept) = Only(s, Kept)
  <2>1. s[i] \notin Kept
    BY <1>2
  <2> HIDE DEF Kept
  <2> QED
    BY <2>1, OnlyRemove
<1>3. PICK x : x = cmd.on
  OBVIOUS
<1>4. CASE cmd.op \in {"lock", "unlock"}
  <2>1. l = k
    BY <1>4 DEF Done, Changing
  <2> QED
    BY <2>1
<1>5. CASE cmd.op \notin {"lock", "unlock"}
  <2>1. /\ cmd.op \in {"-A", "-D rule", "class add", "class del"}
        /\ cmd.to \in {"client", "mac", "filter"} /\ x \in OwnChain \cup Imq
    BY <1>3, <1>5, ConfAssumption DEF AccessCommand, MacCommands, OwnChain, MangleChain
  <2>2. x \notin BuiltIn /\ x \in Chain
    BY <2>1, ChainsApart DEF Chain
  <2>3. PICK s \in Seq(Rule) : s = k.rules[x]
    BY <2>2 DEF Kernel
  <2>4. \E t : Rewritten(k, l, x, t) /\ Only(t, Kept) = Only(s, Kept)
    <3>1. CASE cmd.op \in {"-A", "class add"}
      <4>1. Rewritten(k, l, x, Append(s, cmd.to))
        BY <1>3, <2>3, <3>1 DEF Done
      <4>2. Only(Append(s, cmd.to), Kept) = Only(s, Kept)
        BY <1>1, <2>1
      <4> QED
        BY <4>1, <4>2
    <3>2. CASE cmd.op \in {"-D rule", "class del"}
      <4>1. PICK i : i = Mention(k, x, cmd.to)
        OBVIOUS
      <4>2. Rewritten(k, l, x, RemoveAt(s, i)) /\ i \in 1 .. Len(s) /\ s[i] = cmd.to
        BY <1>3, <2>3, <3>2, <4>1 DEF Done
      <4>3. Only(RemoveAt(s, i), Kept) = Only(s, Kept)
        BY <1>2, <2>1, <4>2
      <4> QED
        BY <4>2, <4>3
    <3> QED
      BY <2>1, <3>1, <3>2
  <2>5. PICK t : Rewritten(k, l, x, t) /\ Only(t, Kept) = Only(s, Kept)
    BY <2>4
  <2>6. /\ l.chains = k.chains /\ l.rules[x] = t
        /\ \A d \in Chain \ {x} : l.rules[d] = k.rules[d]
    BY <2>5 DEF Rewritten
  <2>7. \A d \in Chain : Only(l.rules[d], Kept) = Only(k.rules[d], Kept)
    <3> HIDE DEF Kept
    <3> QED
      BY <2>3, <2>5, <2>6
  <2>8. \A d \in Chain : Skeleton(l, d) = Skeleton(k, d)
    BY <2>7 DEF Skeleton, Without
  <2>9. \A b \in BuiltIn : Jumps(l, b) = Jumps(k, b)
    <3>1. \A b \in BuiltIn : b \in Chain \ {x}
      BY <2>2 DEF Chain
    <3> QED
      BY <2>6, <3>1 DEF Jumps
  <2>10. OwnChain \cup Used(c) \subseteq Chain
    BY DEF Chain, Used, Configuration
  <2> QED
    BY <2>6, <2>8, <2>9, <2>10 DEF FreshLike
<1> QED
  BY <1>4, <1>5

\* What the main thread has built while it is at a command of fw_init().
Building ==
    job[Main] = "init" /\ rc = 0 /\ at[Main] >= 7 => BuiltSoFar(kernel, conf, at[Main])

ServeInvariant == Control /\ Sound /\ Building /\ ServesFreshChains

LEMMA BuildingStep ==
    ASSUME Control, Sound, Building, [Next]_vars, NEW t \in Thread, ProgramStep(t)
    PROVE  Building'
<1> SUFFICES ASSUME job'[Main] = "init", rc' = 0, at'[Main] >= 7
             PROVE  BuiltSoFar(kernel', conf', at'[Main])
  BY DEF Building
<1>1. CanRun(t) /\ job' = job /\ conf' = conf
  BY ProgramSteps DEF Control
<1>2. job[Main] = "init" /\ t = Main /\ Main \in Thread
  BY <1>1, StartsByMain, MainIsAThread
<1>3. PICK i, cmd, s, n : i = at[Main] /\ cmd = Cmd(Main) /\ s = fw_init(conf) /\ n = Len(s)
  OBVIOUS
<1>4. i \in 1 .. n /\ cmd = s[i]
  BY <1>1, <1>2, <1>3, CommandOf DEF Control
<1>5. /\ i \in Nat \ {0}
      /\ i = 3 => cmd = TryInsert("mangle PREROUTING")
      /\ i = 4 => cmd = DeleteNth("mangle PREROUTING", 1)
      /\ i = 5 => cmd = TryInsert("filter FORWARD")
      /\ i = 6 => cmd = DeleteNth("filter FORWARD", 1)
      /\ i >= 7 => cmd \in BuildCommand
      /\ i = 1 \/ i = 2 \/ i = 3 \/ i = 4 \/ i = 5 \/ i = 6 \/ i >= 7
      /\ i \in {1, 2} => cmd.op \in {"lock", "unlock"}
      /\ cmd.op # "mention"
  BY <1>1, <1>2, <1>3, StartCommand, Zenon
<1>i. i \in Nat /\ (i < 7 => i \in 1 .. 6)
  <2>1. i \in Nat \ {0}
    BY <1>5, Zenon
  <2> QED
    BY <2>1
<1>6. Took(t) \/ TookMutex(t) \/ Missed(t) \/ Waited(t)
  BY <1>2, <1>3, <1>5, Outcomes DEF Control, Deleted, Deletes, Mentions, Listed
<1>7. \A m : GoesOn(t, m) => at'[Main] = i + m
  BY <1>2, <1>3 DEF GoesOn, Control, LifecycleTypes
<1>8. conf \in Configuration /\ kernel \in Kernel /\ SoundKernel(kernel)
  BY ConfAssumption DEF Control, LifecycleTypes, Sound
<1>9. CASE i < 7
  <2>1. /\ TryInsert("mangle PREROUTING").skip = 1 /\ TryInsert("filter FORWARD").skip = 1
        /\ DeleteNth("mangle PREROUTING", 1).skip = 0 /\ DeleteNth("filter FORWARD", 1).skip = 0
    BY DEF TryInsert, DeleteNth, Insert, Unchecked, Command
  <2>2. at'[Main] <= 7
    <3>1. CASE Missed(t)
      <4>1. i \notin {1, 2}
        BY <1>2, <1>3, <1>5, <3>1 DEF Missed
      <4>2. PICK q : q = cmd.skip
        OBVIOUS
      <4>3. at'[Main] = i + (q + 1)
        BY <1>2, <1>3, <1>7, <3>1, <4>2 DEF Missed
      <4>4. /\ i = 3 => q = 1
            /\ i = 4 => q = 0
            /\ i = 5 => q = 1
            /\ i = 6 => q = 0
        BY <1>5, <2>1, <4>2, Zenon
      <4> QED
        BY <1>i, <1>9, <4>1, <4>3, <4>4
    <3>2. CASE ~Missed(t)
      <4>1. at'[Main] = i + 1 \/ at'[Main] = i + 0
        BY <1>6, <1>7, <3>2 DEF Took, TookMutex, Waited
      <4> QED
        BY <1>i, <1>9, <4>1
    <3> QED
      BY <3>1, <3>2
  <2>3. at'[Main] = 7
    <3>1. at'[Main] \in Nat
      BY <1>2, ControlNext DEF Control, LifecycleTypes
    <3> QED
      BY <2>2, <3>1
  <2>4. kernel' \in Kernel /\ SoundKernel(kernel')
    BY ControlNext, SoundNext DEF Control, LifecycleTypes, Sound
  <2> QED
    BY <1>1, <2>3, <2>4, StartsAlike
<1>10. CASE i >= 7
  <2>1. cmd \in BuildCommand
    BY <1>5, <1>10
  <2>2. rc = 0 /\ (Missed(t) => ~cmd.must)
    <3>1. 0 # 1
      OBVIOUS
    <3>2. Missed(t) => rc' = IF cmd.must THEN 1 ELSE rc
      BY <1>2, <1>3, Zenon DEF Missed
    <3>3. ~Missed(t) => rc' = rc
      BY <1>6, Zenon DEF Took, TookMutex, Waited
    <3>4. CASE Missed(t)
      <4>1. ~cmd.must
        BY <3>1, <3>2, <3>4, Zenon
      <4> QED
        BY <3>2, <3>4, <4>1, Zenon
    <3> QED
      BY <3>3, <3>4, Zenon
  <2>3. BuiltSoFar(kernel, conf, i)
    BY <1>2, <1>3, <1>10, <2>2 DEF Building
  <2>4. CASE Took(t)
    <3>1. Accepts(kernel, cmd) /\ kernel' = Effect(kernel, cmd) /\ at'[Main] = i + 1
      BY <1>2, <1>3, <1>7, <2>4 DEF Took
    <3>2. Runs(cmd)
      BY <3>1 DEF Runs, Accepts
    <3>3. BuiltSoFar(Effect(kernel, cmd), conf, i + 1)
      BY <1>3, <1>4, <1>8, <2>3, <3>1, <3>2, BuildsOn
    <3> QED
      BY <1>1, <3>1, <3>3
  <2>5. CASE TookMutex(t)
    BY <1>2, <1>3, <2>1, <2>5 DEF TookMutex, BuildCommand
  <2>6. CASE Waited(t)
    <3>1. kernel' = kernel /\ at'[Main] = i
      <4>1. i + 0 = i
        BY <1>i
      <4> QED
        BY <1>7, <2>6, <4>1 DEF Waited, Same
    <3> QED
      BY <1>1, <2>3, <3>1
  <2>7. CASE Missed(t)
    <3>1. ~cmd.must
      BY <2>2, <2>7
    <3>2. cmd.op \in {"link", "no link"} /\ cmd.on \in Imq
      BY <2>1, <3>1 DEF BuildCommand
    <3>3. ~Accepts(kernel, cmd)
      BY <1>2, <1>3, <2>7, <3>2 DEF Missed
    <3>4. cmd.op = "no link"
      BY <3>2, <3>3 DEF Accepts
    <3>5. s[i].skip = 4 /\ BuiltSoFar(kernel, conf, i + 5)
      BY <1>3, <1>4, <1>8, <2>3, <3>4, BuildsWithout DEF Runs
    <3>6. kernel' = kernel /\ at'[Main] = i + (4 + 1)
      BY <1>2, <1>3, <1>4, <1>7, <2>7, <3>5 DEF Missed, Same
    <3>7. i + (4 + 1) = i + 5
      BY <1>i
    <3> QED
      BY <1>1, <3>5, <3>6, <3>7
  <2> QED
    BY <1>6, <2>4, <2>5, <2>6, <2>7
<1> QED
  BY <1>i, <1>9, <1>10

LEMMA BuildingNext ==
    ASSUME Control, Sound, Building, [Next]_vars
    PROVE  Building'
<1>0. at \in [Thread -> Nat \ {0}] /\ Main \in Thread /\ Main \notin Worker
  BY MainIsAThread, ThreadAssumption DEF Control, LifecycleTypes
<1>1. ASSUME NEW t \in Thread, ProgramStep(t) PROVE Building'
  BY <1>1, BuildingStep
<1>2. ASSUME job'[Main] # "init" \/ at'[Main] = 1 PROVE Building'
  BY <1>2 DEF Building
<1>3. ASSUME UNCHANGED <<conf, kernel, rc>>, job'[Main] = job[Main], at'[Main] = at[Main]
      PROVE  Building'
  BY <1>3 DEF Building
<1>4. CASE CreateThreads \/ Restart
  <2>1. job'[Main] # "init"
    BY <1>0, <1>4 DEF CreateThreads, Restart, JobsAtStart
  <2> QED
    BY <1>2, <2>1
<1>5. CASE StartLoop \/ FinishClean \/ FinishInit
  <2>1. MainTurn
    BY <1>5, MainTurns DEF Control
  <2>2. \E j, p : Turn(Main, j, p)
    BY <2>1 DEF MainTurn
  <2>3. at'[Main] = 1
    BY <1>0, <2>2, DoOne DEF Turn, Control
  <2> QED
    BY <1>2, <2>3
<1>6. ASSUME NEW t \in Thread, Deliver(t) \/ GiveUp(t) PROVE Building'
  <2>1. /\ UNCHANGED <<conf, kernel, rc>>
        /\ \E j \in Job, p \in Program : Do(t, j, p)
    BY <1>6, Handled DEF Job, Program
  <2>2. at'[Main] = 1 \/ (job'[Main] = job[Main] /\ at'[Main] = at[Main])
    BY <1>0, <2>1, DoOne DEF Control
  <2> QED
    BY <1>2, <1>3, <2>1, <2>2
<1>7. ASSUME NEW w \in Worker, RequestStep(w) PROVE Building'
  <2>1. WorkerTurn(w)
    BY <1>7, WorkerTurns DEF Control
  <2>2. \E j, p : Turn(w, j, p)
    BY <2>1 DEF WorkerTurn
  <2>3. w \in Thread /\ w # Main
    BY <1>0, MainIsAThread
  <2>4. UNCHANGED <<conf, kernel, rc>> /\ job'[Main] = job[Main] /\ at'[Main] = at[Main]
    BY <1>0, <2>2, <2>3, DoOne DEF Turn, Control
  <2> QED
    BY <1>3, <2>4
<1>8. CASE FailToStart \/ AllGone \/ UNCHANGED vars \/ \E t \in Thread : Exit(t)
  <2>1. UNCHANGED <<conf, kernel, rc>> /\ job'[Main] = job[Main] /\ at'[Main] = at[Main]
    BY <1>8 DEF FailToStart, AllGone, Exit, vars, threadVars, progVars
  <2> QED
    BY <1>3, <2>1
<1>9. CASE Land
  <2>1. inFlight # {} /\ job' = job
    BY <1>9, Landings DEF Control
  <2>2. job[Main] # "init"
    BY <2>1, NoneAtStart DEF Starting
  <2> QED
    BY <1>2, <2>1, <2>2
<1> QED
  BY <1>1, <1>4, <1>5, <1>6, <1>7, <1>8, <1>9, NextSteps

LEMMA ServesFormNext ==
    ASSUME Running' /\ job'[Main] \in {"create", "serve"} /\ sigterm_mutex' = NULL =>
              FreshLike(kernel', conf')
    PROVE  ServesFreshChains'
BY DEF ServesFreshChains, FreshLike

LEMMA FreshStep ==
    ASSUME Control, ServesFreshChains, NEW t \in Thread, ProgramStep(t)
    PROVE  ServesFreshChains'
<1> SUFFICES ASSUME Running', job'[Main] \in {"create", "serve"}, sigterm_mutex' = NULL
             PROVE  FreshLike(kernel', conf')
  BY ServesFormNext
<1>1. CanRun(t) /\ UNCHANGED <<conf, status, job, sigterm_mutex>>
  BY ProgramSteps DEF Control
<1>2. FreshLike(kernel, conf)
  BY <1>1, ServesForm DEF Running
<1>3. job[t] \notin Cleaning \cup {"init"}
  <2>1. job[t] # "terminate"
    BY <1>1, MainIsAThread DEF Control, OneCleanUp
  <2>2. \A w \in Worker : job[w] \notin {"clean", "undo", "init"}
    BY DEF Control, StartsAlone
  <2>3. job[Main] \notin {"clean", "undo", "init"}
    BY <1>1
  <2> QED
    BY <2>1, <2>2, <2>3 DEF Thread, Cleaning
<1>4. /\ WellFormed(Cmd(t))
      /\ \/ Cmd(t) \in AccessCommand
         \/ \E chain \in MacChain : Cmd(t) \in MacCommands(chain)
  BY <1>1, <1>3, CommandKinds
<1>5. Cmd(t).op # "mention"
  BY <1>4 DEF AccessCommand, MacCommands
<1>6. Took(t) \/ kernel' = kernel
  BY <1>5, Outcomes DEF Control, TookMutex, Missed, Waited, Deleted, Deletes, Mentions, Listed, Same
<1>7. CASE Took(t)
  <2>1. Done(kernel, Cmd(t), kernel')
    BY <1>7 DEF Took
  <2>2. kernel \in Kernel /\ conf \in Configuration
    BY ConfAssumption DEF Control, LifecycleTypes
  <2> QED
    BY <1>1, <1>2, <1>4, <2>1, <2>2, RequestsKeep
<1>8. CASE kernel' = kernel
  BY <1>1, <1>2, <1>8
<1> QED
  BY <1>6, <1>7, <1>8

LEMMA FreshNext ==
    ASSUME Control, Sound, Building, ServesFreshChains, [Next]_vars
    PROVE  ServesFreshChains'
<1>0. Main \in Thread /\ Main \notin Worker /\ NULL \notin Thread
  BY MainIsAThread, ThreadAssumption
<1>1. ASSUME NEW t \in Thread, ProgramStep(t) PROVE ServesFreshChains'
  BY <1>1, FreshStep
<1>2. ASSUME ~Running' \/ job'[Main] \notin {"create", "serve"} \/ sigterm_mutex' # NULL
      PROVE  ServesFreshChains'
  BY <1>2, ServesFormNext
<1>3. ASSUME UNCHANGED <<conf, kernel, status, sigterm_mutex>>,
             job[Main] \in {"create", "serve"} \/ job'[Main] = job[Main]
      PROVE  ServesFreshChains'
  BY <1>3, ServesForm, ServesFormNext DEF Running
<1>4. CASE FinishInit
  <2>1. MainTurn
    BY <1>4, MainTurns DEF Control
  <2>2. CASE job[Main] = "init" /\ Ended(Main) /\ rc = 0 /\ Turn(Main, "create", "none")
    <3>1. PICK n, i : n = Len(fw_init(conf)) /\ i = at[Main]
      OBVIOUS
    <3>2. conf \in Configuration /\ conf \in Conf
      BY ConfAssumption DEF Control, LifecycleTypes
    <3>3. i > n
      <4>1. prog[Main] = "init"
        BY <1>0, <2>2 DEF Control, Placed
      <4> QED
        BY <2>2, <3>1, <3>2, <4>1, ProgramsOf DEF Ended
    <3>4. n \in Nat /\ n >= 6 /\ i \in Nat
      BY <1>0, <3>1, <3>2, InitFacts DEF Control, LifecycleTypes
    <3>5. i >= 7
      BY <3>3, <3>4
    <3>6. BuiltSoFar(kernel, conf, i)
      BY <2>2, <3>1, <3>5 DEF Building
    <3>7. i = n + 1
      <4>1. i \in 7 .. n + 1
        BY <3>1, <3>6 DEF BuiltSoFar
      <4> QED
        BY <3>3, <3>4, <4>1
    <3>8. FreshLike(kernel, conf)
      BY <3>1, <3>2, <3>6, <3>7, BuiltIsFresh DEF Control, LifecycleTypes, Sound
    <3> QED
      BY <2>2, <3>8, ServesFormNext DEF Turn
  <2>3. CASE \E j, p : j \notin {"create", "serve"} /\ Turn(Main, j, p)
    <3>1. job'[Main] \notin {"create", "serve"}
      BY <1>0, <2>3, DoOne DEF Turn, Control
    <3> QED
      BY <1>2, <3>1
  <2> QED
    BY <2>1, <2>2, <2>3 DEF MainTurn
<1>5. CASE StartLoop \/ FinishClean
  <2>1. \E j, p : j \in {"clean", "init"} /\ j \in Job /\ p \in Program /\ Do(Main, j, p)
    BY <1>5 DEF StartLoop, FinishClean, Job, Program
  <2>2. job'[Main] \notin {"create", "serve"}
    BY <1>0, <2>1, DoOne DEF Control
  <2> QED
    BY <1>2, <2>2
<1>6. CASE CreateThreads
  BY <1>3, <1>6 DEF CreateThreads, mutexVars
<1>7. CASE Restart
  <2>1. job'[Main] \notin {"create", "serve"}
    BY <1>0, <1>7 DEF Restart, JobsAtStart
  <2> QED
    BY <1>2, <2>1
<1>8. ASSUME NEW t \in Thread, Deliver(t) \/ GiveUp(t) PROVE ServesFreshChains'
  <2>1. sigterm_mutex' # NULL
    BY <1>0, <1>8, Handled
  <2> QED
    BY <1>2, <2>1
<1>9. ASSUME NEW w \in Worker, RequestStep(w) PROVE ServesFreshChains'
  <2>1. WorkerTurn(w)
    BY <1>9, WorkerTurns DEF Control
  <2>2. UNCHANGED sigterm_mutex /\ \E j, p : Turn(w, j, p)
    BY <2>1 DEF WorkerTurn
  <2>3. w \in Thread /\ w # Main
    BY <1>0, MainIsAThread
  <2>4. UNCHANGED <<conf, kernel, status, sigterm_mutex>> /\ job'[Main] = job[Main]
    BY <1>0, <2>2, <2>3, DoOne DEF Turn, Control
  <2> QED
    BY <1>3, <2>4
<1>10. CASE FailToStart \/ AllGone \/ \E t \in Thread : Exit(t)
  BY <1>2, <1>10 DEF FailToStart, AllGone, Exit, Running
<1>11. CASE UNCHANGED vars
  BY <1>3, <1>11 DEF vars, threadVars, mutexVars
<1>12. CASE Land
  <2>1. inFlight # {} /\ sigterm_mutex' = sigterm_mutex
    BY <1>12, Landings DEF Control
  <2> QED
    BY <1>2, <2>1 DEF Control, HeldInHandler
<1> QED
  BY <1>1, <1>4, <1>5, <1>6, <1>7, <1>8, <1>9, <1>10, <1>11, <1>12, NextSteps

\* Whatever earlier processes left in the kernel, wherever they crashed, and whichever
\* commands failed: a process that serves has the chains and jumps of a first start.
THEOREM ServesAsOnFirstStart == Spec => []ServesFreshChains
<1>1. Init => ServeInvariant
  <2> SUFFICES ASSUME Init PROVE ServeInvariant
    OBVIOUS
  <2>1. Control /\ job[Main] = "boot"
    BY ControlInit, MainIsAThread DEF Init, JobsAtStart
  <2>2. Sound
    BY EmptyKernelSound DEF Init, Sound
  <2> QED
    BY <2>1, <2>2 DEF ServeInvariant, Building, ServesFreshChains
<1>2. ServeInvariant /\ [Next]_vars => ServeInvariant'
  BY ControlNext, SoundNext, BuildingNext, FreshNext DEF ServeInvariant
<1>3. ServeInvariant => ServesFreshChains
  BY DEF ServeInvariant
<1> QED
  BY <1>1, <1>2, <1>3, PTL DEF Spec
----------------------------------------------------------------------------
(* execute() and popen(): two calls of execute() that are inside at the    *)
(* same time both know that they overlap; so a call that does not overlap  *)
(* is the only one that changes SIGCHLD's treatment while it is inside,    *)
(* the treatment is the default, no SIGCHLD is pending, and its child is   *)
(* still there to be waited for.  *)

\* A thread's child, by where the thread is; only execute() has something to restore.
ChildPlaced ==
    \A t \in Caller :
        /\ pc[t] = "idle" => child[t] \in {"none", "reaped"}
        /\ pc[t] = "fork" => child[t] = "none"
        /\ pc[t] = "wait" => child[t] \in {"running", "ended", "reaped"}
        /\ pc[t] = "restore" => child[t] = "reaped" /\ how[t] = "execute"

\* Calls that are inside together know it.
OverlapKnown ==
    \A t, u \in Caller : t # u /\ Inside(t) /\ Inside(u) => t \in overlap

\* A call that is inside alone: nobody else takes its child.
AloneSafe ==
    \A t \in Caller : Inside(t) /\ t \notin overlap =>
        /\ disposition = "default" /\ sigchld = FALSE
        /\ child[t] # "reaped" \/ pc[t] = "restore"

ExecuteInvariant == XTypeOK /\ ChildPlaced /\ OverlapKnown /\ AloneSafe /\ StatusReported

----------------------------------------------------------------------------
\* The initial state, with no command run, satisfies the invariant.
LEMMA InitExecute == XInit => ExecuteInvariant
<1> SUFFICES ASSUME XInit PROVE ExecuteInvariant
  OBVIOUS
<1>1. sigchld \in BOOLEAN
  BY Zenon DEF XInit
<1>2. XTypeOK
  BY <1>1, OutcomeAssumption DEF XInit, XTypeOK, Disposition
<1>3. ChildPlaced /\ OverlapKnown /\ AloneSafe /\ StatusReported
  BY DEF XInit, ChildPlaced, OverlapKnown, AloneSafe, StatusReported, Inside
<1> QED BY <1>2, <1>3 DEF ExecuteInvariant

\* Types are kept by every step of execute(), popen(), a child and sigchld_handler().
LEMMA NextTypeOK == XTypeOK /\ [XNext]_xvars => XTypeOK'
<1> SUFFICES ASSUME XTypeOK, [XNext]_xvars PROVE XTypeOK'
  OBVIOUS
<1> USE DEF XTypeOK, Disposition
<1>1. ASSUME NEW t \in Caller, SetDefault(t) PROVE XTypeOK'
  <2>1. overlap' \subseteq Caller
    BY <1>1 DEF SetDefault, OverlapOf
  <2>2. sigchld' \in BOOLEAN
    BY <1>1, Zenon DEF SetDefault
  <2> QED BY <1>1, <2>1, <2>2 DEF SetDefault
<1>2. ASSUME NEW t \in Caller, Popen(t) PROVE XTypeOK'
  BY <1>2 DEF Popen
<1>3. ASSUME NEW t \in Caller, Fork(t) PROVE XTypeOK'
  BY <1>3 DEF Fork
<1>4. ASSUME NEW t \in Caller, ForkFails(t) PROVE XTypeOK'
  BY <1>4 DEF ForkFails
<1>5. ASSUME NEW t \in Caller, ChildEnds(t) PROVE XTypeOK'
  BY <1>5 DEF ChildEnds
<1>6. CASE sigchld_handler
  BY <1>6 DEF sigchld_handler
<1>7. ASSUME NEW t \in Caller, WaitPid(t) PROVE XTypeOK'
  BY <1>7, OutcomeAssumption DEF WaitPid
<1>8. ASSUME NEW t \in Caller, Restore(t) PROVE XTypeOK'
  BY <1>8 DEF Restore
<1>9. CASE UNCHANGED xvars
  BY <1>9 DEF xvars
<1> QED
  BY <1>1, <1>2, <1>3, <1>4, <1>5, <1>6, <1>7, <1>8, <1>9 DEF XNext, Step

\* Each step keeps the child where the thread's place says.
LEMMA NextChildPlaced == XTypeOK /\ ChildPlaced /\ [XNext]_xvars => ChildPlaced'
<1> SUFFICES ASSUME XTypeOK, ChildPlaced, [XNext]_xvars PROVE ChildPlaced'
  OBVIOUS
<1> USE DEF XTypeOK, ChildPlaced
<1>1. ASSUME NEW t \in Caller, SetDefault(t) PROVE ChildPlaced'
  BY <1>1 DEF SetDefault
<1>2. ASSUME NEW t \in Caller, Popen(t) PROVE ChildPlaced'
  BY <1>2 DEF Popen
<1>3. ASSUME NEW t \in Caller, Fork(t) PROVE ChildPlaced'
  BY <1>3 DEF Fork
<1>4. ASSUME NEW t \in Caller, ForkFails(t) PROVE ChildPlaced'
  BY <1>4 DEF ForkFails
<1>5. ASSUME NEW t \in Caller, ChildEnds(t) PROVE ChildPlaced'
  BY <1>5 DEF ChildEnds
<1>6. CASE sigchld_handler
  BY <1>6 DEF sigchld_handler
<1>7. ASSUME NEW t \in Caller, WaitPid(t) PROVE ChildPlaced'
  BY <1>7 DEF WaitPid
<1>8. ASSUME NEW t \in Caller, Restore(t) PROVE ChildPlaced'
  BY <1>8 DEF Restore
<1>9. CASE UNCHANGED xvars
  BY <1>9 DEF xvars
<1> QED
  BY <1>1, <1>2, <1>3, <1>4, <1>5, <1>6, <1>7, <1>8, <1>9 DEF XNext, Step

\* What a new call does to the overlaps: it and the calls inside are in; no other call
\* leaves.
LEMMA SetDefaultOverlap ==
    ASSUME XTypeOK, NEW t \in Caller, SetDefault(t)
    PROVE  /\ \A u \in Caller \ {t} : Inside(u) => u \in overlap' /\ t \in overlap'
           /\ \A u \in Caller \ {t} : u \in overlap => u \in overlap'
<1> DEFINE inside == {u \in Caller \ {t} : Inside(u)}
<1>1. overlap' = IF inside = {} THEN overlap \ {t} ELSE overlap \cup inside \cup {t}
  BY DEF SetDefault, OverlapOf
<1> HIDE DEF inside
<1>2. \A u \in Caller \ {t} : Inside(u) => u \in inside
  BY DEF inside
<1> QED BY <1>1, <1>2

\* A call that enters marks the calls inside and itself; no other step lets a call in.
LEMMA NextOverlapKnown == XTypeOK /\ OverlapKnown /\ [XNext]_xvars => OverlapKnown'
<1> SUFFICES ASSUME XTypeOK, OverlapKnown, [XNext]_xvars PROVE OverlapKnown'
  OBVIOUS
<1>1. ASSUME NEW t \in Caller, SetDefault(t) PROVE OverlapKnown'
  <2> SUFFICES ASSUME NEW u \in Caller, NEW v \in Caller, u # v, Inside(u)', Inside(v)'
               PROVE  u \in overlap'
    BY DEF OverlapKnown
  <2>1. \A w \in Caller \ {t} : Inside(w)' => Inside(w)
    BY <1>1 DEF SetDefault, Inside, XTypeOK
  <2> QED
    BY <1>1, <2>1, SetDefaultOverlap
<1>2. ASSUME NEW t \in Caller, Popen(t) PROVE OverlapKnown'
  BY <1>2 DEF Popen, OverlapKnown, Inside, XTypeOK
<1>3. ASSUME NEW t \in Caller, Fork(t) PROVE OverlapKnown'
  BY <1>3 DEF Fork, OverlapKnown, Inside, XTypeOK
<1>4. ASSUME NEW t \in Caller, ForkFails(t) PROVE OverlapKnown'
  BY <1>4 DEF ForkFails, OverlapKnown, Inside, XTypeOK
<1>5. ASSUME NEW t \in Caller, ChildEnds(t) PROVE OverlapKnown'
  BY <1>5 DEF ChildEnds, OverlapKnown, Inside
<1>6. CASE sigchld_handler
  BY <1>6 DEF sigchld_handler, OverlapKnown, Inside
<1>7. ASSUME NEW t \in Caller, WaitPid(t) PROVE OverlapKnown'
  BY <1>7 DEF WaitPid, OverlapKnown, Inside, XTypeOK
<1>8. ASSUME NEW t \in Caller, Restore(t) PROVE OverlapKnown'
  BY <1>8 DEF Restore, OverlapKnown, Inside, XTypeOK
<1>9. CASE UNCHANGED xvars
  BY <1>9 DEF xvars, OverlapKnown, Inside
<1> QED
  BY <1>1, <1>2, <1>3, <1>4, <1>5, <1>6, <1>7, <1>8, <1>9 DEF XNext, Step

\* While a call is inside alone only its own steps touch SIGCHLD and its child.
LEMMA NextAloneSafe ==
    XTypeOK /\ ChildPlaced /\ OverlapKnown /\ AloneSafe /\ [XNext]_xvars => AloneSafe'
<1> SUFFICES ASSUME XTypeOK, ChildPlaced, OverlapKnown, AloneSafe, [XNext]_xvars
             PROVE  AloneSafe'
  OBVIOUS
<1>1. ASSUME NEW t \in Caller, SetDefault(t) PROVE AloneSafe'
  <2> SUFFICES ASSUME NEW u \in Caller, Inside(u)', u \notin overlap'
               PROVE  /\ disposition' = "default" /\ sigchld' = FALSE
                      /\ child'[u] # "reaped" \/ pc'[u] = "restore"
    BY DEF AloneSafe
  <2>1. disposition' = "default" /\ sigchld' = FALSE
    BY <1>1 DEF SetDefault
  <2>2. CASE u = t
    BY <1>1, <2>1, <2>2 DEF SetDefault, XTypeOK
  <2>3. CASE u # t
    <3>1. Inside(u)
      BY <1>1, <2>3 DEF SetDefault, Inside, XTypeOK
    <3> QED BY <1>1, <2>3, <3>1, SetDefaultOverlap
  <2> QED BY <2>2, <2>3
<1>2. ASSUME NEW t \in Caller, Popen(t) PROVE AloneSafe'
  BY <1>2 DEF Popen, AloneSafe, Inside, XTypeOK
<1>3. ASSUME NEW t \in Caller, Fork(t) PROVE AloneSafe'
  BY <1>3 DEF Fork, AloneSafe, Inside, XTypeOK
<1>4. ASSUME NEW t \in Caller, ForkFails(t) PROVE AloneSafe'
  BY <1>4 DEF ForkFails, AloneSafe, Inside, XTypeOK
<1>5. ASSUME NEW t \in Caller, ChildEnds(t) PROVE AloneSafe'
  BY <1>5 DEF ChildEnds, AloneSafe, Inside, XTypeOK
<1>6. CASE sigchld_handler
  <2>1. \A u \in Caller : Inside(u) => u \in overlap
    BY <1>6 DEF sigchld_handler, AloneSafe, XTypeOK
  <2> QED BY <1>6, <2>1 DEF sigchld_handler, AloneSafe, Inside
<1>7. ASSUME NEW t \in Caller, WaitPid(t) PROVE AloneSafe'
  BY <1>7 DEF WaitPid, AloneSafe, Inside, XTypeOK
<1>8. ASSUME NEW t \in Caller, Restore(t) PROVE AloneSafe'
  <2> SUFFICES ASSUME NEW u \in Caller, Inside(u)', u \notin overlap' PROVE FALSE
    BY DEF AloneSafe
  <2>1. u # t /\ Inside(u) /\ u \notin overlap
    BY <1>8 DEF Restore, Inside, XTypeOK
  <2> QED
    BY <1>8, <2>1 DEF Restore, OverlapKnown, ChildPlaced, Inside
<1>9. CASE UNCHANGED xvars
  BY <1>9 DEF xvars, AloneSafe, Inside
<1> QED
  BY <1>1, <1>2, <1>3, <1>4, <1>5, <1>6, <1>7, <1>8, <1>9 DEF XNext, Step

\* WaitPid() is where a call gets its return value, and the only step but a call's
\* beginning that concerns it: a reaped child means that the call overlaps.
LEMMA NextStatusReported == ExecuteInvariant /\ [XNext]_xvars => StatusReported'
<1> SUFFICES ASSUME ExecuteInvariant, [XNext]_xvars PROVE StatusReported'
  OBVIOUS
<1>1. ASSUME NEW t \in Caller, SetDefault(t) PROVE StatusReported'
  <2> SUFFICES ASSUME NEW u \in Caller, how'[u] = "execute", pc'[u] \in {"restore", "idle"}
               PROVE  retval'[u] = outcome'[u] \/ (u \in overlap' /\ retval'[u] = 0)
    BY DEF StatusReported
  <2>1. u # t /\ how[u] = "execute" /\ pc[u] \in {"restore", "idle"}
    BY <1>1 DEF SetDefault, ExecuteInvariant, XTypeOK
  <2>2. retval[u] = outcome[u] \/ (u \in overlap /\ retval[u] = 0)
    BY <2>1 DEF ExecuteInvariant, StatusReported
  <2>3. u \in overlap => u \in overlap'
    BY <1>1, <2>1, SetDefaultOverlap DEF ExecuteInvariant
  <2> QED BY <1>1, <2>2, <2>3 DEF SetDefault
<1>2. ASSUME NEW t \in Caller, Popen(t) PROVE StatusReported'
  BY <1>2 DEF Popen, ExecuteInvariant, StatusReported, XTypeOK
<1>3. ASSUME NEW t \in Caller, Fork(t) PROVE StatusReported'
  BY <1>3 DEF Fork, ExecuteInvariant, StatusReported, XTypeOK
<1>4. ASSUME NEW t \in Caller, ForkFails(t) PROVE StatusReported'
  BY <1>4 DEF ForkFails, ExecuteInvariant, StatusReported, XTypeOK
<1>5. ASSUME NEW t \in Caller, ChildEnds(t) PROVE StatusReported'
  BY <1>5 DEF ChildEnds, ExecuteInvariant, StatusReported, ChildPlaced, XTypeOK
<1>6. CASE sigchld_handler
  BY <1>6 DEF sigchld_handler, ExecuteInvariant, StatusReported
<1>7. ASSUME NEW t \in Caller, WaitPid(t) PROVE StatusReported'
  <2> SUFFICES ASSUME NEW u \in Caller, how'[u] = "execute", pc'[u] \in {"restore", "idle"}
               PROVE  retval'[u] = outcome'[u] \/ (u \in overlap' /\ retval'[u] = 0)
    BY DEF StatusReported
  <2>1. CASE u # t
    BY <1>7, <2>1 DEF WaitPid, ExecuteInvariant, StatusReported, XTypeOK
  <2>2. CASE u = t /\ child[t] = "ended"
    BY <1>7, <2>2 DEF WaitPid, ExecuteInvariant, XTypeOK
  <2>3. CASE u = t /\ child[t] = "reaped"
    <3>1. Inside(t) /\ pc[t] # "restore"
      BY <1>7, <2>3 DEF WaitPid, Inside
    <3>2. t \in overlap
      BY <2>3, <3>1 DEF ExecuteInvariant, AloneSafe, XTypeOK
    <3> QED BY <1>7, <2>3, <3>2 DEF WaitPid, ExecuteInvariant, XTypeOK
  <2> QED BY <1>7, <2>1, <2>2, <2>3 DEF WaitPid
<1>8. ASSUME NEW t \in Caller, Restore(t) PROVE StatusReported'
  BY <1>8 DEF Restore, ExecuteInvariant, StatusReported, XTypeOK
<1>9. CASE UNCHANGED xvars
  BY <1>9 DEF xvars, ExecuteInvariant, StatusReported
<1> QED
  BY <1>1, <1>2, <1>3, <1>4, <1>5, <1>6, <1>7, <1>8, <1>9 DEF XNext, Step

----------------------------------------------------------------------------
\* The invariant holds of every behaviour of the calls of execute() and popen().
LEMMA SpecExecute == XSpec => []ExecuteInvariant
<1>1. ExecuteInvariant /\ [XNext]_xvars => ExecuteInvariant'
  BY NextTypeOK, NextChildPlaced, NextOverlapKnown, NextAloneSafe, NextStatusReported DEF ExecuteInvariant
<1> QED
  BY InitExecute, <1>1, PTL DEF XSpec

\* Types; what execute() returns is always an outcome of a command.
THEOREM ExecuteTypes == XSpec => []XTypeOK
<1>1. ExecuteInvariant => XTypeOK
  BY DEF ExecuteInvariant
<1> QED BY SpecExecute, <1>1, PTL

\* However many threads call execute() and popen(): without overlap execute() returns
\* its own child's status, and with overlap it may only report success instead.
THEOREM ExecuteReportsStatus == XSpec => []StatusReported
<1>1. ExecuteInvariant => StatusReported
  BY DEF ExecuteInvariant
<1> QED BY SpecExecute, <1>1, PTL

\* However many threads there are and whatever SIGCHLD's treatment is left at, a thread
\* that has returned from execute() or pclose() left no zombie.
THEOREM ExecuteLeavesNoZombies == XSpec => []NoZombies
<1>1. ExecuteInvariant => NoZombies
  BY DEF ExecuteInvariant, ChildPlaced, NoZombies
<1> QED BY SpecExecute, <1>1, PTL
============================================================================
