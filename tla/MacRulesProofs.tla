--------------------------- MODULE MacRulesProofs ---------------------------
(***************************************************************************)
(* Proofs about MacRules, for any number of MACs and any order of lines in *)
(* the configuration, ndsctl commands, failing iptables commands and       *)
(* authentications: the chains follow the lists, and the packets of a MAC  *)
(* get the access they are meant to.                                       *)
(***************************************************************************)
EXTENDS MacRules, FiniteSetTheorems, SequenceTheorems, WellFoundedInduction, TLAPS

----------------------------------------------------------------------------
(* The inductive invariant. *)

Once(s, r) == \E i \in DOMAIN s : s[i] = r /\ \A j \in DOMAIN s : s[j] = r => j = i
Absent(s, r) == \A i \in DOMAIN s : s[i] # r

\* Nothing is in the kernel, and nothing was answered, before fw_init.
NothingYet ==
    phase = "config" => chainTrusted = <<>> /\ chainBlocked = <<>> /\ answer = NULL

\* ChainsMatchLists, without counting.
RulesOnce ==
    phase = "running" =>
        \A l \in List, mac \in MAC :
            InUse(l) /\ <<l, mac>> \notin failed =>
                IF mac \in maclist[l] THEN Once(ChainOf(l), RuleOf(l, mac))
                                      ELSE Absent(ChainOf(l), RuleOf(l, mac))

\* Under the allow mechanism the rule that marks everyone stays the last one,
\* behind the rules that let the allowed MACs out of the chain.
EveryoneLast ==
    phase = "running" /\ macmechanism = "allow" =>
        /\ chainBlocked # <<>>
        /\ chainBlocked[Len(chainBlocked)] = MarkRule(Everyone)
        /\ \A i \in 1 .. Len(chainBlocked) - 1 : chainBlocked[i] # MarkRule(Everyone)

\* The last answer is about a list in use and says what the list says.
AnswerMatchesList ==
    answer # NULL =>
        /\ InUse(answer.list)
        /\ answer.op = "add" <=> answer.mac \in maclist[answer.list]

ListsFinite == \A l \in List : IsFiniteSet(maclist[l])

MInv == /\ TypeOK
        /\ NothingYet
        /\ ListsFinite
        /\ RulesOnce
        /\ EveryoneLast
        /\ AnswerMatchesList

----------------------------------------------------------------------------
(* Operations on chains. *)

\* iptables -A puts one more rule at the end, -I one at the start.
LEMMA AppendRule ==
    ASSUME NEW S, NEW s \in Seq(S), NEW x \in S
    PROVE  /\ Append(s, x) \in Seq(S)
           /\ Absent(s, x) => Once(Append(s, x), x)
           /\ \A r : r # x => /\ Once(s, r) => Once(Append(s, x), r)
                              /\ Absent(s, r) => Absent(Append(s, x), r)
<1>1. /\ Append(s, x) \in Seq(S)
      /\ Len(Append(s, x)) = Len(s) + 1
      /\ \A i \in 1 .. Len(s) : Append(s, x)[i] = s[i]
      /\ Append(s, x)[Len(s) + 1] = x
  BY AppendProperties
<1>2. Len(s) \in Nat /\ DOMAIN s = 1 .. Len(s) /\ DOMAIN Append(s, x) = 1 .. Len(s) + 1
  BY <1>1, LenProperties
<1> DEFINE t == Append(s, x)
<1>3. /\ \A i \in DOMAIN s : i \in DOMAIN t /\ t[i] = s[i]
      /\ \A i \in DOMAIN t : i \in DOMAIN s \/ (i = Len(s) + 1 /\ t[i] = x)
      /\ Len(s) + 1 \in DOMAIN t /\ Len(s) + 1 \notin DOMAIN s /\ t[Len(s) + 1] = x
  BY <1>1, <1>2
<1> HIDE DEF t
<1>4. Absent(s, x) => Once(t, x)
  BY <1>3 DEF Absent, Once
<1>5. ASSUME NEW r, r # x
      PROVE  (Once(s, r) => Once(t, r)) /\ (Absent(s, r) => Absent(t, r))
  BY <1>3, <1>5 DEF Absent, Once
<1> QED
  BY <1>1, <1>4, <1>5 DEF t

LEMMA InsertPositions ==
    ASSUME NEW S, NEW s \in Seq(S), NEW x \in S
    PROVE  /\ Len(<<x>> \o s) = Len(s) + 1 /\ Len(s) \in Nat
           /\ \A i \in 1 .. Len(s) : (<<x>> \o s)[i + 1] = s[i]
           /\ (<<x>> \o s)[1] = x
<1> DEFINE t == <<x>> \o s
<1>0. <<x>> \in Seq(S) /\ Len(<<x>>) = 1 /\ <<x>>[1] = x
  OBVIOUS
<1>1. /\ Len(t) = Len(<<x>>) + Len(s)
      /\ \A i \in 1 .. Len(<<x>>) + Len(s) :
            t[i] = IF i <= Len(<<x>>) THEN <<x>>[i] ELSE s[i - Len(<<x>>)]
  BY <1>0, ConcatProperties, Zenon
<1>2. Len(s) \in Nat
  BY LenProperties
<1> HIDE DEF t
<1>3. t[1] = x /\ \A i \in 1 .. Len(s) : t[i + 1] = s[i]
  BY <1>0, <1>1, <1>2
<1>4. Len(t) = Len(s) + 1
  BY <1>0, <1>1, <1>2
<1> QED
  BY <1>2, <1>3, <1>4 DEF t

LEMMA InsertRule ==
    ASSUME NEW S, NEW s \in Seq(S), NEW x \in S
    PROVE  /\ <<x>> \o s \in Seq(S)
           /\ Absent(s, x) => Once(<<x>> \o s, x)
           /\ \A r : r # x => /\ Once(s, r) => Once(<<x>> \o s, r)
                              /\ Absent(s, r) => Absent(<<x>> \o s, r)
<1> DEFINE t == <<x>> \o s
<1>0. <<x>> \in Seq(S) /\ Len(<<x>>) = 1 /\ <<x>>[1] = x
  OBVIOUS
<1>1. /\ t \in Seq(S) /\ Len(t) = 1 + Len(s)
      /\ \A i \in 1 .. 1 + Len(s) : t[i] = IF i <= 1 THEN <<x>>[i] ELSE s[i - 1]
  <2>1. /\ t \in Seq(S) /\ Len(t) = Len(<<x>>) + Len(s)
        /\ \A i \in 1 .. Len(<<x>>) + Len(s) :
              t[i] = IF i <= Len(<<x>>) THEN <<x>>[i] ELSE s[i - Len(<<x>>)]
    BY <1>0, ConcatProperties, Zenon
  <2> QED
    BY <1>0, <2>1, Zenon
<1>2. Len(s) \in Nat /\ DOMAIN s = 1 .. Len(s) /\ DOMAIN t = 1 .. Len(s) + 1
  <2>1. Len(s) \in Nat /\ DOMAIN s = 1 .. Len(s) /\ DOMAIN t = 1 .. Len(t)
    BY <1>1, LenProperties, Zenon
  <2> QED
    BY <1>1, <2>1
<1> HIDE DEF t
<1>3. t[1] = x /\ \A i \in 1 .. Len(s) : t[i + 1] = s[i]
  BY <1>2, InsertPositions DEF t
<1>4. /\ \A i \in DOMAIN s : i + 1 \in DOMAIN t /\ t[i + 1] = s[i] /\ i + 1 # 1
      /\ \A i \in DOMAIN t : i = 1 \/ \E j \in DOMAIN s : i = j + 1
      /\ 1 \in DOMAIN t
  <2>1. \A i \in DOMAIN t : i = 1 \/ (i - 1 \in DOMAIN s /\ i = (i - 1) + 1)
    BY <1>2
  <2> QED
    BY <1>2, <1>3, <2>1
<1>5. Absent(s, x) => Once(t, x)
  BY <1>3, <1>4 DEF Absent, Once
<1>6. ASSUME NEW r, r # x
      PROVE  (Once(s, r) => Once(t, r)) /\ (Absent(s, r) => Absent(t, r))
  BY <1>3, <1>4, <1>6 DEF Absent, Once
<1> QED
  BY <1>1, <1>5, <1>6 DEF t

\* Among the rules that match there is a first one.
LEMMA LeastElement ==
    ASSUME NEW T \in SUBSET Nat, T # {}
    PROVE  \E x \in T : \A y \in T : x <= y
<1>1. PICK x \in T : \A y \in T : ~ (<<y, x>> \in OpToRel(<, Nat))
  BY WFMin, NatLessThanWellFounded
<1>2. \A y \in T : ~ (y < x)
  BY <1>1 DEF OpToRel
<1> QED
  BY <1>2

\* A chain without its i-th rule.
LEMMA RemoveAtProperties ==
    ASSUME NEW S, NEW s \in Seq(S), NEW i \in 1 .. Len(s)
    PROVE  /\ RemoveAt(s, i) \in Seq(S)
           /\ Len(RemoveAt(s, i)) = Len(s) - 1
           /\ \A j \in 1 .. Len(s) - 1 :
                 RemoveAt(s, i)[j] = IF j < i THEN s[j] ELSE s[j + 1]
<1> DEFINE a == SubSeq(s, 1, i - 1)
           b == SubSeq(s, i + 1, Len(s))
<1>0. /\ Len(s) \in Nat
      /\ \A j \in 1 .. Len(s) : s[j] \in S
  BY LenProperties, ElementOfSeq
<1>1. /\ a \in Seq(S)
      /\ Len(a) = i - 1
      /\ \A j \in 1 .. i - 1 : a[j] = s[j]
  BY <1>0, SubSeqProperties, 1 \in Int, i - 1 \in Int, \A j \in 1 .. i - 1 : s[j] \in S
<1>2. /\ b \in Seq(S)
      /\ Len(b) = Len(s) - i
      /\ \A j \in 1 .. Len(s) - i : b[j] = s[i + j]
  BY <1>0, SubSeqProperties, i + 1 \in Int, Len(s) \in Int,
     \A j \in i + 1 .. Len(s) : s[j] \in S
<1> HIDE DEF a, b
<1>3. /\ a \o b \in Seq(S)
      /\ Len(a \o b) = Len(s) - 1
      /\ \A j \in 1 .. Len(s) - 1 :
            (a \o b)[j] = IF j <= i - 1 THEN a[j] ELSE b[j - (i - 1)]
  <2>1. /\ a \o b \in Seq(S)
        /\ Len(a \o b) = Len(a) + Len(b)
        /\ \A j \in 1 .. Len(a) + Len(b) :
              (a \o b)[j] = IF j <= Len(a) THEN a[j] ELSE b[j - Len(a)]
    BY <1>1, <1>2, ConcatProperties, Zenon
  <2>2. Len(a) = i - 1 /\ Len(a) + Len(b) = Len(s) - 1
    BY <1>0, <1>1, <1>2
  <2> QED
    BY <2>1, <2>2
<1>4. \A j \in 1 .. Len(s) - 1 : (a \o b)[j] = IF j < i THEN s[j] ELSE s[j + 1]
  BY <1>0, <1>1, <1>2, <1>3
<1> QED
  BY <1>3, <1>4 DEF RemoveAt, a, b

\* iptables -D takes out the first rule that is like the given one: if there
\* was one such rule none is left, and the other rules stay.
LEMMA DeleteFirst ==
    ASSUME NEW S, NEW s \in Seq(S), NEW r, ~ Absent(s, r)
    PROVE  /\ RemoveFirst(s, r) \in Seq(S)
           /\ Len(RemoveFirst(s, r)) = Len(s) - 1
           /\ \E i \in 1 .. Len(s) :
                 /\ s[i] = r
                 /\ \A j \in 1 .. Len(s) - 1 :
                      RemoveFirst(s, r)[j] = IF j < i THEN s[j] ELSE s[j + 1]
<1> DEFINE I == {k \in 1 .. Len(s) : s[k] = r}
           i == Min(I)
<1>0. Len(s) \in Nat /\ DOMAIN s = 1 .. Len(s)
  BY LenProperties
<1>1. I # {} /\ I \in SUBSET Nat
  BY <1>0 DEF Absent
<1>2. i \in I
  <2>1. \E x \in I : \A y \in I : x <= y
    BY <1>1, LeastElement
  <2> QED
    BY <2>1 DEF Min
<1>3. \E k \in 1 .. Len(s) : s[k] = r
  BY <1>2
<1>4. RemoveFirst(s, r) = RemoveAt(s, i)
  <2>1. SelectInSeq(s, LAMBDA v : v = r) = i
    BY <1>1 DEF SelectInSeq
  <2> QED
    BY <1>3, <2>1 DEF RemoveFirst
<1>5. i \in 1 .. Len(s) /\ s[i] = r
  BY <1>2
<1> HIDE DEF i
<1>6. /\ RemoveAt(s, i) \in Seq(S)
      /\ Len(RemoveAt(s, i)) = Len(s) - 1
      /\ \A j \in 1 .. Len(s) - 1 : RemoveAt(s, i)[j] = IF j < i THEN s[j] ELSE s[j + 1]
  BY <1>5, RemoveAtProperties
<1> QED
  BY <1>4, <1>5, <1>6

LEMMA DeleteFirstCounts ==
    ASSUME NEW S, NEW s \in Seq(S), NEW r, ~ Absent(s, r)
    PROVE  LET t == RemoveFirst(s, r) IN
           /\ Once(s, r) => Absent(t, r)
           /\ \A q : q # r => /\ Once(s, q) => Once(t, q)
                              /\ Absent(s, q) => Absent(t, q)
<1> DEFINE t == RemoveFirst(s, r)
<1>1. PICK i \in 1 .. Len(s) :
         /\ s[i] = r
         /\ \A j \in 1 .. Len(s) - 1 : t[j] = IF j < i THEN s[j] ELSE s[j + 1]
  BY DeleteFirst
<1>2. /\ Len(s) \in Nat /\ DOMAIN s = 1 .. Len(s) /\ DOMAIN t = 1 .. Len(s) - 1
  BY DeleteFirst, LenProperties
<1> HIDE DEF t
<1> DEFINE old(j) == IF j < i THEN j ELSE j + 1
           new(k) == IF k < i THEN k ELSE k - 1
<1>3. /\ \A j \in DOMAIN t : old(j) \in DOMAIN s /\ old(j) # i /\ t[j] = s[old(j)]
      /\ \A j, k \in DOMAIN t : old(j) = old(k) => j = k
      /\ \A k \in DOMAIN s : k # i => new(k) \in DOMAIN t /\ old(new(k)) = k
      /\ i \in DOMAIN s /\ s[i] = r
  BY <1>1, <1>2
<1> HIDE DEF old, new
<1>4. Once(s, r) => Absent(t, r)
  BY <1>3 DEF Once, Absent
<1>5. ASSUME NEW q, q # r
      PROVE  (Once(s, q) => Once(t, q)) /\ (Absent(s, q) => Absent(t, q))
  BY <1>3, <1>5 DEF Once, Absent
<1> QED
  BY <1>4, <1>5 DEF t

----------------------------------------------------------------------------
(* The rules of a list. *)

\* Rules for different MACs differ, and the two kinds of rule differ.
LEMMA RulesDiffer ==
    /\ \A l \in List : \A a, b : RuleOf(l, a) = RuleOf(l, b) => a = b
    /\ \A a, b : MarkRule(a) = MarkRule(b) => a = b
    /\ \A a, b : MarkRule(a) # ReturnRule(b)
<1>1. \A a, b : MarkRule(a) = MarkRule(b) => a = b
  BY DEF MarkRule
<1>2. \A a, b : ReturnRule(a) = ReturnRule(b) => a = b
  BY DEF ReturnRule
<1>3. \A a, b : MarkRule(a).target = "MARK" /\ ReturnRule(b).target = "RETURN"
  BY DEF MarkRule, ReturnRule
<1>4. \A a, b : MarkRule(a) # ReturnRule(b)
  BY <1>3
<1> QED
  BY <1>1, <1>2, <1>4 DEF RuleOf

\* A function on 1 .. n is a sequence of length n.
LEMMA FunctionIsSeq ==
    ASSUME NEW S, NEW n \in Nat, NEW f \in [1 .. n -> S]
    PROVE  f \in Seq(S) /\ Len(f) = n
<1>1. f \in Seq(S)
  BY SeqDef
<1>2. DOMAIN f = 1 .. Len(f) /\ Len(f) \in Nat
  BY <1>1, LenProperties
<1>3. DOMAIN f = 1 .. n
  OBVIOUS
<1>4. \A k \in Nat : 1 .. k = 1 .. n => k = n
  OBVIOUS
<1> QED
  BY <1>1, <1>2, <1>3, <1>4

\* An ordering of a finite set names each of its elements, once: what makes the
\* loops over the three lists in iptables_fw_init() write one rule per MAC.
LEMMA OrderingIsOnto ==
    ASSUME NEW S, IsFiniteSet(S), NEW f \in SetToSeqs(S)
    PROVE  /\ Cardinality(S) \in Nat
           /\ f \in [1 .. Cardinality(S) -> S]
           /\ \A x \in S : \E i \in 1 .. Cardinality(S) : f[i] = x
           /\ \A i, j \in 1 .. Cardinality(S) : f[i] = f[j] => i = j
<1> DEFINE n == Cardinality(S)
           D == 1 .. n
<1>1. n \in Nat
  BY FS_CardinalityType
<1>2. f \in [D -> S] /\ \A i, j \in D : i # j => f[i] # f[j]
  BY DEF SetToSeqs
<1>3. f \in Injection(D, S)
  BY <1>2 DEF Injection, IsInjective
<1>4. Cardinality(D) = n
  <2>1. Cardinality(1 .. n) = IF 1 > n THEN 0 ELSE n - 1 + 1
    BY <1>1, FS_Interval, 1 \in Int, n \in Int
  <2> QED
    BY <1>1, <2>1
<1>5. f \in Surjection(D, S)
  BY <1>3, <1>4, FS_Injection
<1>6. \A x \in S : \E i \in D : f[i] = x
  BY <1>5 DEF Surjection
<1> QED
  BY <1>1, <1>2, <1>6

LEMMA RulesForList ==
    ASSUME NEW l \in List, IsFiniteSet(maclist[l]), maclist[l] \subseteq MAC,
           NEW c \in RulesFor(l)
    PROVE  /\ c \in Seq({RuleOf(l, mac) : mac \in MAC})
           /\ \A mac \in maclist[l] : Once(c, RuleOf(l, mac))
           /\ \A mac \in MAC \ maclist[l] : Absent(c, RuleOf(l, mac))
<1> DEFINE S == maclist[l]
           n == Cardinality(S)
           R == {RuleOf(l, mac) : mac \in MAC}
<1>1. PICK f \in SetToSeqs(S) : c = [i \in DOMAIN f |-> RuleOf(l, f[i])]
  BY DEF RulesFor
<1>2. /\ n \in Nat
      /\ f \in [1 .. n -> S]
      /\ \A x \in S : \E i \in 1 .. n : f[i] = x
      /\ \A i, j \in 1 .. n : f[i] = f[j] => i = j
  BY OrderingIsOnto
<1> HIDE DEF S, n
<1>3. /\ DOMAIN c = 1 .. n
      /\ \A i \in 1 .. n : c[i] = RuleOf(l, f[i])
  BY <1>1, <1>2
<1>4. S \subseteq MAC
  BY DEF S
<1>5. c \in [1 .. n -> R]
  <2>1. \A i \in 1 .. n : RuleOf(l, f[i]) \in R
    BY <1>2, <1>4
  <2> QED
    BY <1>1, <1>2, <2>1
<1>6. c \in Seq(R)
  BY <1>2, <1>5, FunctionIsSeq
<1>7. ASSUME NEW mac \in S
      PROVE  Once(c, RuleOf(l, mac))
  BY <1>2, <1>3, RulesDiffer DEF Once
<1>8. ASSUME NEW mac \in MAC \ S
      PROVE  Absent(c, RuleOf(l, mac))
  <2>1. \A i \in 1 .. n : f[i] # mac
    BY <1>2, <1>8
  <2> QED
    BY <1>3, <2>1, RulesDiffer DEF Absent
<1> QED
  BY <1>6, <1>7, <1>8 DEF S

----------------------------------------------------------------------------
(* Each step preserves the invariant. *)

\* The program starts with empty lists and empty chains.
LEMMA InitMInv == Init => MInv
<1> SUFFICES ASSUME Init PROVE MInv
  OBVIOUS
<1> USE DEF Init
<1>1. TypeOK
  <2>1. \A S : <<>> \in Seq(S)
    OBVIOUS
  <2>2. maclist \in [List -> SUBSET MAC]
    OBVIOUS
  <2> QED
    BY <2>1, <2>2 DEF TypeOK
<1>2. NothingYet /\ RulesOnce /\ EveryoneLast /\ AnswerMatchesList
  BY DEF NothingYet, RulesOnce, EveryoneLast, AnswerMatchesList
<1>3. ListsFinite
  BY FS_EmptySet DEF ListsFinite
<1> QED
  BY <1>1, <1>2, <1>3 DEF MInv

\* A line of the configuration: there are no chains yet.
LEMMA ListLineMInv ==
    ASSUME MInv, NEW l \in List, NEW mac \in MAC, ListLine(l, mac)
    PROVE  MInv'
<1> USE DEF MInv, ListLine, add_to_list
<1>0. phase = "config" /\ phase' = "config" /\ answer' = NULL
  BY DEF NothingYet
<1>1. TypeOK'
  BY DEF TypeOK, chainVars
<1>2. NothingYet' /\ RulesOnce' /\ EveryoneLast' /\ AnswerMatchesList'
  BY <1>0 DEF NothingYet, RulesOnce, EveryoneLast, AnswerMatchesList, chainVars
<1>3. ListsFinite'
  <2>1. \A k \in List : maclist'[k] = IF k = l THEN maclist[l] \cup {mac} ELSE maclist[k]
    BY DEF TypeOK
  <2>2. IsFiniteSet(maclist[l] \cup {mac})
    BY FS_AddElement DEF ListsFinite
  <2> QED
    BY <2>1, <2>2 DEF ListsFinite
<1> QED
  BY <1>1, <1>2, <1>3

LEMMA MechanismLineMInv ==
    ASSUME MInv, NEW m \in {"block", "allow"}, MechanismLine(m)
    PROVE  MInv'
<1> USE DEF MInv, MechanismLine
<1>0. /\ phase = "config" /\ phase' = "config" /\ answer' = NULL
      /\ chainTrusted' = <<>> /\ chainBlocked' = <<>>
  BY DEF NothingYet, chainVars
<1>1. TypeOK'
  BY <1>0 DEF TypeOK
<1>2. NothingYet' /\ RulesOnce' /\ EveryoneLast' /\ AnswerMatchesList'
  BY <1>0 DEF NothingYet, RulesOnce, EveryoneLast, AnswerMatchesList
<1>3. ListsFinite'
  BY DEF ListsFinite
<1> QED
  BY <1>1, <1>2, <1>3

\* iptables_fw_init() writes one rule per listed MAC, and under the allow
\* mechanism the rule for everyone behind them.
LEMMA FwInitMInv ==
    ASSUME MInv, fw_init
    PROVE  MInv'
<1> USE DEF MInv, fw_init
<1> DEFINE Marks == {MarkRule(mac) : mac \in MAC}
           Returns == {ReturnRule(mac) : mac \in MAC}
<1>0. /\ phase' = "running" /\ maclist' = maclist /\ macmechanism' = macmechanism
      /\ authenticated' = authenticated /\ answer' = NULL /\ failed' = failed
  BY DEF NothingYet, configVars
<1>1. \A l \in List : IsFiniteSet(maclist[l]) /\ maclist[l] \subseteq MAC
  BY DEF ListsFinite, TypeOK
<1>2. "trusted" \in List /\ "blocked" \in List /\ "allowed" \in List
  BY DEF List
<1>3. /\ chainTrusted' \in Seq({RuleOf("trusted", mac) : mac \in MAC})
      /\ \A mac \in maclist["trusted"] : Once(chainTrusted', RuleOf("trusted", mac))
      /\ \A mac \in MAC \ maclist["trusted"] : Absent(chainTrusted', RuleOf("trusted", mac))
  BY <1>1, <1>2, RulesForList
<1>4. /\ \A mac : /\ RuleOf("trusted", mac) = MarkRule(mac)
                  /\ RuleOf("blocked", mac) = MarkRule(mac)
                  /\ RuleOf("allowed", mac) = ReturnRule(mac)
  BY DEF RuleOf
<1>5. chainTrusted' \in Seq(Marks)
  BY <1>3, <1>4
<1>6. CASE macmechanism = "block"
  <2>1. chainBlocked' \in RulesFor("blocked")
    BY <1>6
  <2>2. /\ chainBlocked' \in Seq({RuleOf("blocked", mac) : mac \in MAC})
        /\ \A mac \in maclist["blocked"] : Once(chainBlocked', RuleOf("blocked", mac))
        /\ \A mac \in MAC \ maclist["blocked"] : Absent(chainBlocked', RuleOf("blocked", mac))
    BY <1>1, <1>2, <2>1, RulesForList
  <2>3. chainBlocked' \in Seq(Marks)
    BY <1>4, <2>2
  <2>4. TypeOK'
    BY <1>0, <1>5, <1>6, <2>3 DEF TypeOK
  <2>5. RulesOnce'
    <3> SUFFICES ASSUME NEW l \in List, NEW mac \in MAC, InUse(l)'
                 PROVE  IF mac \in maclist[l] THEN Once(ChainOf(l)', RuleOf(l, mac))
                                              ELSE Absent(ChainOf(l)', RuleOf(l, mac))
      BY <1>0 DEF RulesOnce, RuleOf
    <3>1. l # "allowed"
      BY <1>0, <1>6 DEF InUse
    <3>2. CASE l = "trusted"
      BY <1>3, <3>2 DEF ChainOf
    <3>3. CASE l = "blocked"
      BY <2>2, <3>3 DEF ChainOf
    <3> QED
      BY <3>1, <3>2, <3>3 DEF List
  <2>6. EveryoneLast'
    BY <1>0, <1>6 DEF EveryoneLast
  <2> QED
    BY <1>0, <2>4, <2>5, <2>6 DEF NothingYet, AnswerMatchesList, ListsFinite
<1>7. CASE macmechanism = "allow"
  <2> DEFINE R == Returns \cup {MarkRule(Everyone)}
  <2>1. PICK s \in RulesFor("allowed") : chainBlocked' = Append(s, MarkRule(Everyone))
    BY <1>7
  <2>2. /\ s \in Seq({RuleOf("allowed", mac) : mac \in MAC})
        /\ \A mac \in maclist["allowed"] : Once(s, RuleOf("allowed", mac))
        /\ \A mac \in MAC \ maclist["allowed"] : Absent(s, RuleOf("allowed", mac))
    BY <1>1, <1>2, RulesForList
  <2>3. s \in Seq(Returns)
    BY <1>4, <2>2
  <2>4. s \in Seq(R)
    BY <2>3
  <2>5. /\ chainBlocked' \in Seq(R)
        /\ \A r : r # MarkRule(Everyone) =>
              /\ Once(s, r) => Once(chainBlocked', r)
              /\ Absent(s, r) => Absent(chainBlocked', r)
    BY <2>1, <2>4, AppendRule
  <2>6. TypeOK'
    BY <1>0, <1>5, <1>7, <2>5 DEF TypeOK
  <2>7. RulesOnce'
    <3> SUFFICES ASSUME NEW l \in List, NEW mac \in MAC, InUse(l)'
                 PROVE  IF mac \in maclist[l] THEN Once(ChainOf(l)', RuleOf(l, mac))
                                              ELSE Absent(ChainOf(l)', RuleOf(l, mac))
      BY <1>0 DEF RulesOnce, RuleOf
    <3>1. l # "blocked"
      BY <1>0, <1>7 DEF InUse
    <3>2. CASE l = "trusted"
      BY <1>3, <3>2 DEF ChainOf
    <3>3. CASE l = "allowed"
      <4>1. RuleOf(l, mac) # MarkRule(Everyone)
        BY <1>4, <3>3, RulesDiffer
      <4> QED
        BY <2>2, <2>5, <3>3, <4>1 DEF ChainOf
    <3> QED
      BY <3>1, <3>2, <3>3 DEF List
  <2>8. EveryoneLast'
    <3>1. /\ Len(s) \in Nat
          /\ Len(chainBlocked') = Len(s) + 1
          /\ chainBlocked'[Len(s) + 1] = MarkRule(Everyone)
          /\ \A i \in 1 .. Len(s) : chainBlocked'[i] = s[i]
      BY <2>1, <2>4, AppendProperties, LenProperties
    <3>2. \A i \in 1 .. Len(s) : s[i] \in Returns
      BY <2>3, ElementOfSeq
    <3>3. \A i \in 1 .. Len(s) : s[i] # MarkRule(Everyone)
      BY <3>2, RulesDiffer
    <3>4. chainBlocked' # <<>>
      BY <3>1
    <3>5. \A i \in 1 .. Len(chainBlocked') - 1 : chainBlocked'[i] # MarkRule(Everyone)
      BY <3>1, <3>3
    <3>6. chainBlocked'[Len(chainBlocked')] = MarkRule(Everyone)
      BY <3>1
    <3> QED
      BY <3>4, <3>5, <3>6 DEF EveryoneLast, MarkRule, Everyone
  <2> QED
    BY <1>0, <2>6, <2>7, <2>8 DEF NothingYet, AnswerMatchesList, ListsFinite
<1> QED
  BY <1>6, <1>7 DEF TypeOK

\* A command that answers for one MAC of one list leaves the rules of the
\* others as they are: the chains of the two lists it does not name are kept,
\* or not in use.
LEMMA OneRuleAtATime ==
    ASSUME MInv, NEW l \in List, NEW mac \in MAC, phase = "running",
           macmechanism' = macmechanism, failed \subseteq failed',
           \A k \in List, m \in MAC :
              <<k, m>> # <<l, mac>> => (m \in maclist'[k] <=> m \in maclist[k]),
           \A k \in List : k # l /\ InUse(k) => ChainOf(k)' = ChainOf(k),
           \A q : q # RuleOf(l, mac) =>
              /\ Once(ChainOf(l), q) => Once(ChainOf(l)', q)
              /\ Absent(ChainOf(l), q) => Absent(ChainOf(l)', q),
           \/ <<l, mac>> \in failed'
           \/ IF mac \in maclist'[l] THEN Once(ChainOf(l)', RuleOf(l, mac))
                                     ELSE Absent(ChainOf(l)', RuleOf(l, mac))
    PROVE  RulesOnce'
<1> SUFFICES ASSUME NEW k \in List, NEW m \in MAC, InUse(k), <<k, m>> \notin failed'
             PROVE  IF m \in maclist'[k] THEN Once(ChainOf(k)', RuleOf(k, m))
                                         ELSE Absent(ChainOf(k)', RuleOf(k, m))
  BY DEF RulesOnce, RuleOf, InUse
<1>1. CASE k = l /\ m = mac
  BY <1>1
<1>2. CASE ~ (k = l /\ m = mac)
  <2>1. <<k, m>> # <<l, mac>>
    BY <1>2
  <2>2. m \in maclist'[k] <=> m \in maclist[k]
    BY <2>1
  <2>3. IF m \in maclist[k] THEN Once(ChainOf(k), RuleOf(k, m))
                            ELSE Absent(ChainOf(k), RuleOf(k, m))
    BY DEF MInv, RulesOnce
  <2>4. CASE k # l
    BY <2>2, <2>3, <2>4
  <2>5. CASE k = l
    <3>1. RuleOf(k, m) # RuleOf(l, mac)
      BY <1>2, <2>5, RulesDiffer
    <3> QED
      BY <2>2, <2>3, <2>5, <3>1
  <2> QED
    BY <2>4, <2>5
<1> QED
  BY <1>1, <1>2

\* A command that fails leaves the chains alone and marks its MAC and list.
LEMMA FailsMInv ==
    ASSUME MInv, NEW l \in List, NEW mac \in MAC, phase = "running",
           UNCHANGED <<phase, macmechanism, orMark, masked, authenticated>>,
           Fails(l, mac),
           maclist' \in [List -> SUBSET MAC], \A k \in List : IsFiniteSet(maclist'[k]),
           \A k \in List, m \in MAC :
              <<k, m>> # <<l, mac>> => (m \in maclist'[k] <=> m \in maclist[k])
    PROVE  MInv'
<1> USE DEF Fails, No, chainVars
<1>1. TypeOK'
  BY DEF TypeOK, MInv
<1>2. \A k \in List : ChainOf(k)' = ChainOf(k)
  BY DEF ChainOf
<1>3. RulesOnce'
  BY <1>2, OneRuleAtATime, Zenon
<1>4. EveryoneLast'
  BY DEF MInv, EveryoneLast
<1>5. NothingYet' /\ AnswerMatchesList' /\ ListsFinite'
  BY DEF NothingYet, AnswerMatchesList, ListsFinite
<1> QED
  BY <1>1, <1>3, <1>4, <1>5 DEF MInv

\* The rules a chain may hold, as in TypeOK.
TrustedRules == {MarkRule(mac) : mac \in MAC}
BlockedRules == IF macmechanism = "block"
                THEN {MarkRule(mac) : mac \in MAC}
                ELSE {ReturnRule(mac) : mac \in MAC} \cup {MarkRule(Everyone)}

LEMMA ChainTypes ==
    ASSUME TypeOK
    PROVE  /\ chainTrusted \in Seq(TrustedRules)
           /\ chainBlocked \in Seq(BlockedRules)
           /\ \A mac \in MAC :
                /\ RuleOf("trusted", mac) = MarkRule(mac)
                /\ RuleOf("blocked", mac) = MarkRule(mac)
                /\ RuleOf("allowed", mac) = ReturnRule(mac)
                /\ RuleOf("trusted", mac) \in TrustedRules
                /\ \A l \in {"blocked", "allowed"} :
                      InUse(l) => RuleOf(l, mac) \in BlockedRules
  BY DEF TypeOK, TrustedRules, BlockedRules, RuleOf, InUse

\* The lists after ndsctl_add and ndsctl_remove.
LEMMA ListAfter ==
    ASSUME MInv, NEW l \in List, NEW mac \in MAC,
           add_to_list(l, mac) \/ remove_from_list(l, mac)
    PROVE  /\ maclist' \in [List -> SUBSET MAC]
           /\ \A k \in List : IsFiniteSet(maclist'[k])
           /\ \A k \in List, m \in MAC :
                <<k, m>> # <<l, mac>> => (m \in maclist'[k] <=> m \in maclist[k])
           /\ add_to_list(l, mac) => mac \in maclist'[l]
           /\ remove_from_list(l, mac) => mac \notin maclist'[l]
<1>0. maclist \in [List -> SUBSET MAC] /\ \A k \in List : IsFiniteSet(maclist[k])
  BY DEF MInv, TypeOK, ListsFinite
<1>1. CASE add_to_list(l, mac)
  <2>1. \A k \in List : maclist'[k] = IF k = l THEN maclist[l] \cup {mac} ELSE maclist[k]
    BY <1>0, <1>1 DEF add_to_list
  <2>2. IsFiniteSet(maclist[l] \cup {mac})
    BY <1>0, FS_AddElement
  <2>3. maclist' \in [List -> SUBSET MAC]
    BY <1>0, <1>1 DEF add_to_list
  <2>4. mac \in maclist'[l]
    BY <2>1
  <2>5. ~ remove_from_list(l, mac)
    BY <1>0, <2>4 DEF remove_from_list
  <2> QED
    BY <1>0, <2>1, <2>2, <2>3, <2>4, <2>5
<1>2. CASE remove_from_list(l, mac)
  <2>1. \A k \in List : maclist'[k] = IF k = l THEN maclist[l] \ {mac} ELSE maclist[k]
    BY <1>0, <1>2 DEF remove_from_list
  <2>2. IsFiniteSet(maclist[l] \ {mac})
    BY <1>0, FS_RemoveElement
  <2>3. maclist' \in [List -> SUBSET MAC]
    BY <1>0, <1>2 DEF remove_from_list
  <2>4. mac \notin maclist'[l]
    BY <2>1
  <2>5. ~ add_to_list(l, mac)
    BY <1>0, <2>4 DEF add_to_list
  <2> QED
    BY <1>0, <2>1, <2>2, <2>3, <2>4, <2>5
<1> QED
  BY <1>1, <1>2

\* What AddRule does to the chain of its list, and to the other.
LEMMA AddRuleEffect ==
    ASSUME MInv, NEW l \in List, NEW mac \in MAC, InUse(l), AddRule(l, mac)
    PROVE  /\ chainTrusted' \in Seq(TrustedRules) /\ chainBlocked' \in Seq(BlockedRules)
           /\ \A k \in List : k # l /\ InUse(k) => ChainOf(k)' = ChainOf(k)
           /\ Absent(ChainOf(l), RuleOf(l, mac)) => Once(ChainOf(l)', RuleOf(l, mac))
           /\ \A q : q # RuleOf(l, mac) =>
                /\ Once(ChainOf(l), q) => Once(ChainOf(l)', q)
                /\ Absent(ChainOf(l), q) => Absent(ChainOf(l)', q)
           /\ macmechanism = "allow" =>
                chainBlocked' = chainBlocked \/ chainBlocked' = <<ReturnRule(mac)>> \o chainBlocked
<1>0. TypeOK
  BY DEF MInv
<1>1. /\ chainTrusted \in Seq(TrustedRules) /\ chainBlocked \in Seq(BlockedRules)
      /\ RuleOf("trusted", mac) = MarkRule(mac) /\ MarkRule(mac) \in TrustedRules
      /\ RuleOf("blocked", mac) = MarkRule(mac) /\ RuleOf("allowed", mac) = ReturnRule(mac)
      /\ InUse("blocked") => MarkRule(mac) \in BlockedRules
      /\ InUse("allowed") => ReturnRule(mac) \in BlockedRules
  <2>1. \A k \in {"blocked", "allowed"} : InUse(k) => RuleOf(k, mac) \in BlockedRules
    BY <1>0, ChainTypes
  <2> QED
    BY <1>0, <2>1, ChainTypes
<1>2. CASE l = "trusted"
  <2>1. chainTrusted' = Append(chainTrusted, MarkRule(mac)) /\ chainBlocked' = chainBlocked
    BY <1>2 DEF AddRule
  <2>2. ChainOf(l) = chainTrusted /\ ChainOf(l)' = chainTrusted'
    BY <1>2 DEF ChainOf
  <2>3. \A k \in List : k # l => ChainOf(k)' = ChainOf(k)
    BY <1>2, <2>1 DEF ChainOf
  <2>5. /\ chainTrusted' \in Seq(TrustedRules)
        /\ Absent(chainTrusted, MarkRule(mac)) => Once(chainTrusted', MarkRule(mac))
        /\ \A q : q # MarkRule(mac) =>
              /\ Once(chainTrusted, q) => Once(chainTrusted', q)
              /\ Absent(chainTrusted, q) => Absent(chainTrusted', q)
    BY <1>1, <2>1, AppendRule, Zenon
  <2> QED
    BY <1>1, <1>2, <2>1, <2>2, <2>3, <2>5, Zenon
<1>3. CASE l = "blocked"
  <2>1. chainBlocked' = Append(chainBlocked, MarkRule(mac)) /\ chainTrusted' = chainTrusted
    BY <1>3 DEF AddRule
  <2>2. ChainOf(l) = chainBlocked /\ ChainOf(l)' = chainBlocked'
    BY <1>3 DEF ChainOf
  <2>3. \A k \in List : k # l /\ InUse(k) => ChainOf(k)' = ChainOf(k)
    BY <1>3, <2>1 DEF ChainOf, InUse, List
  <2>4. macmechanism # "allow" /\ InUse("blocked")
    BY <1>3 DEF InUse
  <2>5. /\ chainBlocked' \in Seq(BlockedRules)
        /\ Absent(chainBlocked, MarkRule(mac)) => Once(chainBlocked', MarkRule(mac))
        /\ \A q : q # MarkRule(mac) =>
              /\ Once(chainBlocked, q) => Once(chainBlocked', q)
              /\ Absent(chainBlocked, q) => Absent(chainBlocked', q)
    BY <1>1, <2>1, <2>4, AppendRule, Zenon
  <2> QED
    BY <1>1, <1>3, <2>1, <2>2, <2>3, <2>4, <2>5, Zenon
<1>4. CASE l = "allowed"
  <2>1. chainBlocked' = <<ReturnRule(mac)>> \o chainBlocked /\ chainTrusted' = chainTrusted
    BY <1>4 DEF AddRule
  <2>2. ChainOf(l) = chainBlocked /\ ChainOf(l)' = chainBlocked'
    BY <1>4 DEF ChainOf
  <2>3. \A k \in List : k # l /\ InUse(k) => ChainOf(k)' = ChainOf(k)
    BY <1>4, <2>1 DEF ChainOf, InUse, List
  <2>4. ReturnRule(mac) \in BlockedRules
    BY <1>1, <1>4
  <2>5. /\ chainBlocked' \in Seq(BlockedRules)
        /\ Absent(chainBlocked, ReturnRule(mac)) => Once(chainBlocked', ReturnRule(mac))
        /\ \A q : q # ReturnRule(mac) =>
              /\ Once(chainBlocked, q) => Once(chainBlocked', q)
              /\ Absent(chainBlocked, q) => Absent(chainBlocked', q)
    BY <1>1, <2>1, <2>4, InsertRule, Zenon
  <2> QED
    BY <1>1, <1>4, <2>1, <2>2, <2>3, <2>5, Zenon
<1> QED
  BY <1>2, <1>3, <1>4 DEF List

\* What DeleteRule does to the chain of its list, and to the other.
LEMMA DeleteRuleEffect ==
    ASSUME MInv, NEW l \in List, NEW mac \in MAC, InUse(l), HasRule(l, mac), DeleteRule(l, mac)
    PROVE  /\ chainTrusted' \in Seq(TrustedRules) /\ chainBlocked' \in Seq(BlockedRules)
           /\ \A k \in List : k # l /\ InUse(k) => ChainOf(k)' = ChainOf(k)
           /\ Once(ChainOf(l), RuleOf(l, mac)) => Absent(ChainOf(l)', RuleOf(l, mac))
           /\ \A q : q # RuleOf(l, mac) =>
                /\ Once(ChainOf(l), q) => Once(ChainOf(l)', q)
                /\ Absent(ChainOf(l), q) => Absent(ChainOf(l)', q)
           /\ ~ Absent(ChainOf(l), RuleOf(l, mac))
           /\ ChainOf(l)' = RemoveFirst(ChainOf(l), RuleOf(l, mac))
<1>0. TypeOK
  BY DEF MInv
<1>1. chainTrusted \in Seq(TrustedRules) /\ chainBlocked \in Seq(BlockedRules)
  BY <1>0, ChainTypes
<1> DEFINE s == ChainOf(l)
           r == RuleOf(l, mac)
           S == IF l = "trusted" THEN TrustedRules ELSE BlockedRules
<1>2. s \in Seq(S)
  BY <1>1 DEF ChainOf
<1>3. ~ Absent(s, r)
  BY DEF HasRule, ToSet, Absent
<1>4. /\ ChainOf(l)' = RemoveFirst(s, r)
      /\ l = "trusted" => chainBlocked' = chainBlocked /\ chainTrusted' = RemoveFirst(s, r)
      /\ l # "trusted" => chainTrusted' = chainTrusted /\ chainBlocked' = RemoveFirst(s, r)
  BY DEF DeleteRule, ChainOf
<1> HIDE DEF s, r, S
<1>5. RemoveFirst(s, r) \in Seq(S)
  BY <1>2, <1>3, DeleteFirst
<1>6. /\ Once(s, r) => Absent(RemoveFirst(s, r), r)
      /\ \A q : q # r => /\ Once(s, q) => Once(RemoveFirst(s, r), q)
                         /\ Absent(s, q) => Absent(RemoveFirst(s, r), q)
  BY <1>2, <1>3, DeleteFirstCounts, Zenon
<1>7. chainTrusted' \in Seq(TrustedRules) /\ chainBlocked' \in Seq(BlockedRules)
  <2>1. l = "trusted" => S = TrustedRules
    BY DEF S
  <2>2. l # "trusted" => S = BlockedRules
    BY DEF S
  <2> QED
    BY <1>1, <1>4, <1>5, <2>1, <2>2
<1>8. \A k \in List : k # l /\ InUse(k) => ChainOf(k)' = ChainOf(k)
  BY <1>4 DEF ChainOf, InUse, List
<1> QED
  BY <1>3, <1>4, <1>6, <1>7, <1>8, Zenon DEF s, r

\* trust, block and allow.
LEMMA NdsctlAddMInv ==
    ASSUME MInv, NEW l \in List, NEW mac \in MAC, ndsctl_add(l, mac)
    PROVE  MInv'
<1>0. /\ phase = "running" /\ phase' = "running" /\ macmechanism' = macmechanism
      /\ UNCHANGED <<phase, macmechanism, orMark, masked, authenticated>>
      /\ TypeOK
  BY DEF ndsctl_add, MInv
<1>1. CASE ~ MayAdd(l, mac)
  <2>1. UNCHANGED <<maclist, chainVars, failed>> /\ No
    BY <1>1 DEF ndsctl_add
  <2> QED
    BY <1>0, <2>1 DEF MInv, TypeOK, NothingYet, RulesOnce, EveryoneLast, AnswerMatchesList,
                      ListsFinite, No, chainVars, ChainOf, InUse, RuleOf
<1>2. CASE MayAdd(l, mac) /\ Fails(l, mac) /\ add_to_list(l, mac)
  BY <1>0, <1>2, ListAfter, FailsMInv, Zenon
<1>3. CASE /\ MayAdd(l, mac) /\ add_to_list(l, mac) /\ AddRule(l, mac)
           /\ Yes("add", l, mac) /\ failed' = failed
  <2>1. /\ maclist' \in [List -> SUBSET MAC]
        /\ \A k \in List : IsFiniteSet(maclist'[k])
        /\ \A k \in List, m \in MAC :
             <<k, m>> # <<l, mac>> => (m \in maclist'[k] <=> m \in maclist[k])
        /\ mac \in maclist'[l]
    BY <1>3, ListAfter, Zenon
  <2>2. InUse(l) /\ mac \notin maclist[l]
    BY <1>3 DEF MayAdd
  <2>3. /\ chainTrusted' \in Seq(TrustedRules) /\ chainBlocked' \in Seq(BlockedRules)
        /\ \A k \in List : k # l /\ InUse(k) => ChainOf(k)' = ChainOf(k)
        /\ Absent(ChainOf(l), RuleOf(l, mac)) => Once(ChainOf(l)', RuleOf(l, mac))
        /\ \A q : q # RuleOf(l, mac) =>
             /\ Once(ChainOf(l), q) => Once(ChainOf(l)', q)
             /\ Absent(ChainOf(l), q) => Absent(ChainOf(l)', q)
        /\ macmechanism = "allow" =>
             chainBlocked' = chainBlocked \/ chainBlocked' = <<ReturnRule(mac)>> \o chainBlocked
    BY <1>3, <2>2, AddRuleEffect, Zenon
  <2>4. TypeOK'
    <3>1. answer' \in [op : {"add", "remove"}, list : List, mac : MAC]
      BY <1>3 DEF Yes
    <3> QED
      BY <1>0, <1>3, <2>1, <2>3, <3>1 DEF TypeOK, TrustedRules, BlockedRules
  <2>5. RulesOnce'
    <3>1. <<l, mac>> \in failed \/ Absent(ChainOf(l), RuleOf(l, mac))
      BY <1>0, <2>2 DEF MInv, RulesOnce
    <3>2. <<l, mac>> \in failed' \/ Once(ChainOf(l)', RuleOf(l, mac))
      BY <1>3, <2>3, <3>1
    <3>3. \/ <<l, mac>> \in failed'
          \/ IF mac \in maclist'[l] THEN Once(ChainOf(l)', RuleOf(l, mac))
                                    ELSE Absent(ChainOf(l)', RuleOf(l, mac))
      BY <2>1, <3>2
    <3>4. failed \subseteq failed'
      BY <1>3
    <3> QED
      BY <1>0, <2>1, <2>3, <3>3, <3>4, OneRuleAtATime, Zenon
  <2>6. EveryoneLast'
    <3> SUFFICES ASSUME macmechanism = "allow" PROVE EveryoneLast'
      BY <1>0 DEF EveryoneLast
    <3>0. /\ chainBlocked # <<>>
          /\ chainBlocked[Len(chainBlocked)] = MarkRule(Everyone)
          /\ \A i \in 1 .. Len(chainBlocked) - 1 : chainBlocked[i] # MarkRule(Everyone)
      BY <1>0 DEF MInv, EveryoneLast
    <3>1. CASE chainBlocked' = chainBlocked
      BY <3>0, <3>1 DEF EveryoneLast, MarkRule, Everyone
    <3>2. CASE chainBlocked' = <<ReturnRule(mac)>> \o chainBlocked
      <4>1. chainBlocked \in Seq(BlockedRules) /\ ReturnRule(mac) \in BlockedRules
        BY <1>0, ChainTypes DEF BlockedRules
      <4>2. /\ Len(chainBlocked') = Len(chainBlocked) + 1 /\ Len(chainBlocked) \in Nat
            /\ \A i \in 1 .. Len(chainBlocked) : chainBlocked'[i + 1] = chainBlocked[i]
            /\ chainBlocked'[1] = ReturnRule(mac)
        <5> DEFINE t == <<ReturnRule(mac)>> \o chainBlocked
        <5>1. /\ Len(t) = Len(chainBlocked) + 1 /\ Len(chainBlocked) \in Nat
              /\ \A i \in 1 .. Len(chainBlocked) : t[i + 1] = chainBlocked[i]
              /\ t[1] = ReturnRule(mac)
          BY <4>1, InsertPositions, Zenon
        <5>2. chainBlocked' = t
          BY <3>2
        <5> HIDE DEF t
        <5> QED
          BY <5>1, <5>2
      <4>3. Len(chainBlocked) # 0
        BY <3>0, <4>1, EmptySeq
      <4>4. chainBlocked'[Len(chainBlocked')] = MarkRule(Everyone)
        BY <3>0, <4>2, <4>3
      <4>5. ASSUME NEW i \in 1 .. Len(chainBlocked') - 1
            PROVE  chainBlocked'[i] # MarkRule(Everyone)
        <5>1. CASE i = 1
          BY <4>2, <5>1, RulesDiffer
        <5>2. CASE i # 1
          <6>1. /\ i - 1 \in 1 .. Len(chainBlocked) - 1 /\ (i - 1) + 1 = i
                /\ i - 1 \in 1 .. Len(chainBlocked)
            BY <4>2, <5>2
          <6> QED
            BY <3>0, <4>2, <6>1
        <5> QED
          BY <5>1, <5>2
      <4>6. chainBlocked' # <<>>
        BY <4>2
      <4> QED
        BY <4>4, <4>5, <4>6 DEF EveryoneLast, MarkRule, Everyone
    <3> QED
      BY <2>3, <3>1, <3>2
  <2>7. AnswerMatchesList'
    BY <1>0, <1>3, <2>1, <2>2 DEF AnswerMatchesList, Yes, InUse
  <2>8. NothingYet' /\ ListsFinite'
    BY <1>0, <2>1 DEF NothingYet, ListsFinite
  <2> QED
    BY <2>4, <2>5, <2>6, <2>7, <2>8 DEF MInv
<1> QED
  BY <1>1, <1>2, <1>3 DEF ndsctl_add

\* untrust, unblock and unallow.
LEMMA NdsctlRemoveMInv ==
    ASSUME MInv, NEW l \in List, NEW mac \in MAC, ndsctl_remove(l, mac)
    PROVE  MInv'
<1>0. /\ phase = "running" /\ phase' = "running" /\ macmechanism' = macmechanism
      /\ UNCHANGED <<phase, macmechanism, orMark, masked, authenticated>>
      /\ TypeOK
  BY DEF ndsctl_remove, MInv
<1>1. CASE ~ MayRemove(l, mac)
  <2>1. UNCHANGED <<maclist, chainVars, failed>> /\ No
    BY <1>1 DEF ndsctl_remove
  <2> QED
    BY <1>0, <2>1 DEF MInv, TypeOK, NothingYet, RulesOnce, EveryoneLast, AnswerMatchesList,
                      ListsFinite, No, chainVars, ChainOf, InUse, RuleOf
<1>2. CASE MayRemove(l, mac) /\ Fails(l, mac) /\ remove_from_list(l, mac)
  BY <1>0, <1>2, ListAfter, FailsMInv, Zenon
<1>3. CASE /\ MayRemove(l, mac) /\ remove_from_list(l, mac)
           /\ HasRule(l, mac) /\ DeleteRule(l, mac)
           /\ Yes("remove", l, mac) /\ failed' = failed
  <2>1. /\ maclist' \in [List -> SUBSET MAC]
        /\ \A k \in List : IsFiniteSet(maclist'[k])
        /\ \A k \in List, m \in MAC :
             <<k, m>> # <<l, mac>> => (m \in maclist'[k] <=> m \in maclist[k])
        /\ mac \notin maclist'[l]
    BY <1>3, ListAfter, Zenon
  <2>2. InUse(l) /\ mac \in maclist[l]
    BY <1>3 DEF MayRemove
  <2>3. /\ chainTrusted' \in Seq(TrustedRules) /\ chainBlocked' \in Seq(BlockedRules)
        /\ \A k \in List : k # l /\ InUse(k) => ChainOf(k)' = ChainOf(k)
        /\ Once(ChainOf(l), RuleOf(l, mac)) => Absent(ChainOf(l)', RuleOf(l, mac))
        /\ \A q : q # RuleOf(l, mac) =>
             /\ Once(ChainOf(l), q) => Once(ChainOf(l)', q)
             /\ Absent(ChainOf(l), q) => Absent(ChainOf(l)', q)
        /\ ~ Absent(ChainOf(l), RuleOf(l, mac))
        /\ ChainOf(l)' = RemoveFirst(ChainOf(l), RuleOf(l, mac))
    BY <1>3, <2>2, DeleteRuleEffect, Zenon
  <2>4. TypeOK'
    <3>1. answer' \in [op : {"add", "remove"}, list : List, mac : MAC]
      BY <1>3 DEF Yes
    <3> QED
      BY <1>0, <1>3, <2>1, <2>3, <3>1 DEF TypeOK, TrustedRules, BlockedRules
  <2>5. RulesOnce'
    <3>1. <<l, mac>> \in failed \/ Once(ChainOf(l), RuleOf(l, mac))
      BY <1>0, <2>2 DEF MInv, RulesOnce
    <3>2. <<l, mac>> \in failed' \/ Absent(ChainOf(l)', RuleOf(l, mac))
      BY <1>3, <2>3, <3>1
    <3>3. \/ <<l, mac>> \in failed'
          \/ IF mac \in maclist'[l] THEN Once(ChainOf(l)', RuleOf(l, mac))
                                    ELSE Absent(ChainOf(l)', RuleOf(l, mac))
      BY <2>1, <3>2
    <3>4. failed \subseteq failed'
      BY <1>3
    <3> QED
      BY <1>0, <2>1, <2>3, <3>3, <3>4, OneRuleAtATime, Zenon
  <2>6. EveryoneLast'
    <3> SUFFICES ASSUME macmechanism = "allow" PROVE EveryoneLast'
      BY <1>0 DEF EveryoneLast
    <3>0. /\ chainBlocked # <<>>
          /\ chainBlocked[Len(chainBlocked)] = MarkRule(Everyone)
          /\ \A i \in 1 .. Len(chainBlocked) - 1 : chainBlocked[i] # MarkRule(Everyone)
      BY <1>0 DEF MInv, EveryoneLast
    <3>1. CASE l = "trusted"
      <4>1. chainBlocked' = chainBlocked
        BY <1>3, <3>1 DEF DeleteRule
      <4> QED
        BY <3>0, <4>1 DEF EveryoneLast, MarkRule, Everyone
    <3>2. CASE l = "allowed"
      <4> DEFINE s == chainBlocked
                 t == chainBlocked'
                 r == ReturnRule(mac)
      <4>1. /\ s \in Seq(BlockedRules) /\ ~ Absent(s, r) /\ t = RemoveFirst(s, r)
        BY <1>0, <2>3, <3>2, ChainTypes DEF ChainOf, RuleOf
      <4>2. Len(s) \in Nat /\ Len(s) # 0
        BY <3>0, <4>1, EmptySeq, LenProperties
      <4>3. /\ Len(t) = Len(s) - 1
            /\ \E i \in 1 .. Len(s) :
                 /\ s[i] = r
                 /\ \A j \in 1 .. Len(s) - 1 : t[j] = IF j < i THEN s[j] ELSE s[j + 1]
        BY <4>1, DeleteFirst
      <4> HIDE DEF t
      <4>4. PICK i \in 1 .. Len(s) :
                 /\ s[i] = r
                 /\ \A j \in 1 .. Len(s) - 1 : t[j] = IF j < i THEN s[j] ELSE s[j + 1]
        BY <4>3
      <4>5. r # MarkRule(Everyone)
        BY RulesDiffer
      <4>6. i < Len(s) /\ Len(t) \in 1 .. Len(s) - 1 /\ Len(t) + 1 = Len(s)
        BY <3>0, <4>2, <4>3, <4>4, <4>5
      <4>7. t[Len(t)] = MarkRule(Everyone)
        BY <3>0, <4>4, <4>6
      <4>8. ASSUME NEW j \in 1 .. Len(t) - 1
            PROVE  t[j] # MarkRule(Everyone)
        BY <3>0, <4>2, <4>3, <4>4
      <4>9. t # <<>>
        BY <4>6
      <4> QED
        BY <4>7, <4>8, <4>9 DEF t, EveryoneLast, MarkRule, Everyone
    <3> QED
      BY <2>2, <3>1, <3>2 DEF InUse, List
  <2>7. AnswerMatchesList'
    BY <1>0, <1>3, <2>1, <2>2 DEF AnswerMatchesList, Yes, InUse
  <2>8. NothingYet' /\ ListsFinite'
    BY <1>0, <2>1 DEF NothingYet, ListsFinite
  <2> QED
    BY <2>4, <2>5, <2>6, <2>7, <2>8 DEF MInv
<1> QED
  BY <1>1, <1>2, <1>3 DEF ndsctl_remove

\* MInv is inductive.
LEMMA NextMInv == MInv /\ [Next]_vars => MInv'
<1> SUFFICES ASSUME MInv, [Next]_vars PROVE MInv'
  OBVIOUS
<1>1. CASE UNCHANGED <<configVars, phase, chainVars, answer, failed>> /\ authenticated' \subseteq MAC
           /\ orMark' = orMark /\ masked' = masked
  BY <1>1 DEF MInv, TypeOK, NothingYet, RulesOnce, EveryoneLast, AnswerMatchesList,
              ListsFinite, chainVars, configVars, ChainOf, InUse, RuleOf
<1>2. CASE UNCHANGED vars
  BY <1>1, <1>2 DEF vars, MInv, TypeOK
<1>3. ASSUME NEW mac \in MAC, fw_access(mac) PROVE MInv'
  BY <1>1, <1>3 DEF fw_access, MInv, TypeOK
<1> QED
  BY <1>2, <1>3, ListLineMInv, MechanismLineMInv, FwInitMInv, NdsctlAddMInv,
     NdsctlRemoveMInv DEF Next

----------------------------------------------------------------------------
(* The chains follow the lists. *)

\* MInv holds throughout, for any set of MACs and any bound on the chains.
THEOREM MacRulesInvariance == Spec => []MInv
  BY InitMInv, NextMInv, PTL DEF Spec

\* The variables keep their types; in particular a chain never holds rules of
\* both mechanisms.
THEOREM MacRulesTypes == Spec => []TypeOK
<1>1. MInv => TypeOK
  BY DEF MInv
<1> QED
  BY <1>1, MacRulesInvariance, PTL

LEMMA CountOfRules ==
    ASSUME NEW S, NEW s \in Seq(S), NEW r
    PROVE  /\ Once(s, r) => Cardinality({i \in DOMAIN s : s[i] = r}) = 1
           /\ Absent(s, r) => Cardinality({i \in DOMAIN s : s[i] = r}) = 0
<1> DEFINE I == {i \in DOMAIN s : s[i] = r}
<1>1. Once(s, r) => \E i : I = {i}
  BY DEF Once
<1>2. Absent(s, r) => I = {}
  BY DEF Absent
<1> HIDE DEF I
<1>3. Once(s, r) => Cardinality(I) = 1
  BY <1>1, FS_Singleton
<1>4. Absent(s, r) => Cardinality(I) = 0
  BY <1>2, FS_EmptySet
<1> QED
  BY <1>3, <1>4 DEF I

\* Each listed MAC has one rule and each other MAC none, after any sequence of
\* trust, block, allow and their opposites, except where a command for this
\* very list and MAC has failed.
THEOREM ChainsFollowLists == Spec => []ChainsMatchLists
<1>1. ASSUME MInv PROVE ChainsMatchLists
  <2> SUFFICES ASSUME phase = "running", NEW l \in List, NEW mac \in MAC,
                      InUse(l), <<l, mac>> \notin failed
               PROVE  Copies(l, mac) = IF mac \in maclist[l] THEN 1 ELSE 0
    BY DEF ChainsMatchLists
  <2>1. IF mac \in maclist[l] THEN Once(ChainOf(l), RuleOf(l, mac))
                              ELSE Absent(ChainOf(l), RuleOf(l, mac))
    BY <1>1 DEF MInv, RulesOnce
  <2>2. ChainOf(l) \in Seq(TrustedRules) \/ ChainOf(l) \in Seq(BlockedRules)
    BY <1>1, ChainTypes DEF MInv, ChainOf
  <2> QED
    BY <2>1, <2>2, CountOfRules DEF Copies
<1> QED
  BY <1>1, MacRulesInvariance, PTL

\* When ndsctl last answered "Yes", the rule it added is in the kernel and the
\* one it removed is not.
THEOREM AnswersTrue == Spec => []YesHolds
<1>1. ASSUME MInv PROVE YesHolds
  <2> SUFFICES ASSUME answer # NULL, <<answer.list, answer.mac>> \notin failed
               PROVE  HasRule(answer.list, answer.mac) <=> answer.op = "add"
    BY DEF YesHolds
  <2> DEFINE l == answer.list
             mac == answer.mac
  <2>1. l \in List /\ mac \in MAC /\ phase = "running"
    BY <1>1 DEF MInv, TypeOK, NothingYet
  <2>2. InUse(l) /\ (answer.op = "add" <=> mac \in maclist[l])
    BY <1>1 DEF MInv, AnswerMatchesList
  <2>3. IF mac \in maclist[l] THEN Once(ChainOf(l), RuleOf(l, mac))
                              ELSE Absent(ChainOf(l), RuleOf(l, mac))
    BY <1>1, <2>1, <2>2 DEF MInv, RulesOnce
  <2>4. HasRule(l, mac) <=> ~ Absent(ChainOf(l), RuleOf(l, mac))
    BY DEF HasRule, ToSet, Absent
  <2>5. Once(ChainOf(l), RuleOf(l, mac)) => ~ Absent(ChainOf(l), RuleOf(l, mac))
    BY DEF Once, Absent
  <2> QED
    BY <2>2, <2>3, <2>4, <2>5
<1> QED
  BY <1>1, MacRulesInvariance, PTL

----------------------------------------------------------------------------
(* What becomes of a packet. *)

\* The chain of trusted MACs marks the packets of trusted MACs.
LEMMA TrustedChainMarks ==
    ASSUME MInv, phase = "running", NEW mac \in Intact
    PROVE  ChainMarks(chainTrusted, mac) <=> mac \in Trusted
<1> DEFINE s == chainTrusted
<1>0. "trusted" \in List /\ mac \in MAC /\ <<"trusted", mac>> \notin failed
  BY DEF List, Intact
<1>1. IF mac \in Trusted THEN Once(s, MarkRule(mac)) ELSE Absent(s, MarkRule(mac))
  BY <1>0 DEF MInv, RulesOnce, InUse, ChainOf, RuleOf, Trusted
<1>2. s \in Seq(TrustedRules)
  BY ChainTypes DEF MInv
<1>3. \A i \in DOMAIN s : s[i] \in TrustedRules
  BY <1>2, ElementOfSeq, LenProperties
<1>4. \A i \in DOMAIN s : s[i].target = "MARK" /\ s[i].mac \in MAC /\ s[i] = MarkRule(s[i].mac)
  BY <1>3 DEF TrustedRules, MarkRule
<1>5. MarkRule(mac).mac = mac
  BY DEF MarkRule
<1>6. \A i \in DOMAIN s : i \in Hits(s, mac) <=> s[i] = MarkRule(mac)
  BY <1>4, <1>5, NullAssumption DEF Hits, Everyone
<1>7. ChainMarks(s, mac) <=> ~ Absent(s, MarkRule(mac))
  <2>1. Hits(s, mac) \subseteq DOMAIN s
    BY DEF Hits
  <2> QED
    BY <1>4, <1>6, <2>1 DEF ChainMarks, Absent
<1> QED
  BY <1>1, <1>7 DEF Once, Absent

\* The chain of blocked MACs marks the packets of the MACs that are meant to be
\* blocked, under either mechanism.
LEMMA BlockedChainMarks ==
    ASSUME MInv, phase = "running", NEW mac \in Intact
    PROVE  ChainMarks(chainBlocked, mac) <=> mac \in Blocked
<1> DEFINE s == chainBlocked
<1>0. /\ "blocked" \in List /\ "allowed" \in List /\ mac \in MAC
      /\ <<"blocked", mac>> \notin failed /\ <<"allowed", mac>> \notin failed
  BY DEF List, Intact
<1>1. s \in Seq(BlockedRules)
  BY ChainTypes DEF MInv
<1>2. \A i \in DOMAIN s : s[i] \in BlockedRules
  BY <1>1, ElementOfSeq, LenProperties
<1>3. Hits(s, mac) \subseteq DOMAIN s
  BY DEF Hits
<1>4. CASE macmechanism = "block"
  <2>1. IF mac \in Blocked THEN Once(s, MarkRule(mac)) ELSE Absent(s, MarkRule(mac))
    BY <1>0, <1>4 DEF MInv, RulesOnce, InUse, ChainOf, RuleOf, Blocked
  <2>2. \A i \in DOMAIN s : s[i].target = "MARK" /\ s[i].mac \in MAC /\ s[i] = MarkRule(s[i].mac)
    BY <1>2, <1>4 DEF BlockedRules, MarkRule
  <2>3. MarkRule(mac).mac = mac
    BY DEF MarkRule
  <2>4. \A i \in DOMAIN s : i \in Hits(s, mac) <=> s[i] = MarkRule(mac)
    BY <2>2, <2>3, NullAssumption DEF Hits, Everyone
  <2>5. ChainMarks(s, mac) <=> ~ Absent(s, MarkRule(mac))
    BY <1>3, <2>2, <2>4 DEF ChainMarks, Absent
  <2> QED
    BY <2>1, <2>5 DEF Once, Absent
<1>5. CASE macmechanism = "allow"
  <2> DEFINE n == Len(s)
  <2>1. IF mac \in Blocked THEN Absent(s, ReturnRule(mac)) ELSE Once(s, ReturnRule(mac))
    BY <1>0, <1>5 DEF MInv, RulesOnce, InUse, ChainOf, RuleOf, Blocked
  <2>2. /\ n \in Nat /\ DOMAIN s = 1 .. n
        /\ s # <<>> /\ s[n] = MarkRule(Everyone)
        /\ \A i \in 1 .. n - 1 : s[i] # MarkRule(Everyone)
    BY <1>1, <1>5, LenProperties DEF MInv, EveryoneLast
  <2>3. n # 0
    BY <1>1, <2>2, EmptySeq
  <2>4. /\ s[n].target = "MARK" /\ s[n].mac = Everyone
        /\ \A i \in 1 .. n - 1 : s[i].target = "RETURN" /\ s[i].mac \in MAC
                                /\ s[i] = ReturnRule(s[i].mac)
    <3>1. \A i \in 1 .. n - 1 : s[i] \in {ReturnRule(m) : m \in MAC}
      BY <1>2, <1>5, <2>2 DEF BlockedRules
    <3> QED
      BY <2>2, <3>1 DEF MarkRule, ReturnRule
  <2>5. ReturnRule(mac).mac = mac
    BY DEF ReturnRule
  <2>6. n \in Hits(s, mac)
    BY <2>2, <2>3, <2>4 DEF Hits
  <2>7. \A i \in 1 .. n - 1 : i \in Hits(s, mac) <=> s[i] = ReturnRule(mac)
    BY <2>2, <2>4, <2>5, NullAssumption DEF Hits, Everyone
  <2>8. \A i \in Hits(s, mac) : i = n \/ i \in 1 .. n - 1
    BY <1>3, <2>2
  <2>9. CASE mac \in Blocked
    <3>1. \A i \in 1 .. n - 1 : i \notin Hits(s, mac)
      BY <2>1, <2>2, <2>7, <2>9 DEF Absent
    <3> QED
      BY <2>4, <2>6, <2>8, <2>9, <3>1 DEF ChainMarks
  <2>10. CASE mac \notin Blocked
    <3>1. PICK k \in DOMAIN s : s[k] = ReturnRule(mac)
      BY <2>1, <2>10 DEF Once
    <3>2. k \in 1 .. n - 1 /\ k < n
      BY <2>2, <3>1, RulesDiffer
    <3>3. k \in Hits(s, mac) /\ s[k].target # "MARK"
      BY <2>4, <2>7, <3>1, <3>2
    <3>4. \A i \in Hits(s, mac) : s[i].target = "MARK" => i = n
      BY <2>4, <2>8
    <3>5. ~ ChainMarks(s, mac)
      BY <3>2, <3>3, <3>4 DEF ChainMarks
    <3> QED
      BY <2>10, <3>5
  <2> QED
    BY <2>9, <2>10
<1> QED
  BY <1>4, <1>5 DEF MInv, TypeOK

\* Which marks a packet carries behind the three chains: without --or-mark the
\* last chain that marks it decides.
LEMMA MarksOfPacket ==
    ASSUME NEW mac, orMark \in BOOLEAN
    PROVE  LET A == mac \in authenticated
               B == ChainMarks(chainBlocked, mac)
               T == ChainMarks(chainTrusted, mac)
               mark == PREROUTING(mac)
           IN  /\ "TRUSTED" \in mark <=> T
               /\ "BLOCKED" \in mark <=> B /\ (orMark \/ ~ T)
               /\ "AUTHENTICATED" \in mark <=> A /\ (orMark \/ (~ B /\ ~ T))
               /\ "index" \in mark <=> "AUTHENTICATED" \in mark
<1> DEFINE A == mac \in authenticated
           B == ChainMarks(chainBlocked, mac)
           T == ChainMarks(chainTrusted, mac)
           a == ThroughOutgoing(mac, {})
           b == ThroughBlocked(mac, a)
           t == ThroughTrusted(mac, b)
<1>1. /\ A => a = {"index", "AUTHENTICATED"}
      /\ ~ A => a = {}
  BY DEF ThroughOutgoing, Marked
<1>2. /\ ~ B => b = a
      /\ B /\ orMark => b = a \cup {"BLOCKED"}
      /\ B /\ ~ orMark => b = {"BLOCKED"}
  BY DEF ThroughBlocked, Marked
<1>3. /\ ~ T => t = b
      /\ T /\ orMark => t = b \cup {"TRUSTED"}
      /\ T /\ ~ orMark => t = {"TRUSTED"}
  BY DEF ThroughTrusted, Marked
<1>4. PREROUTING(mac) = t
  BY DEF PREROUTING
<1> HIDE DEF A, B, T, a, b, t
<1>5. /\ "AUTHENTICATED" \in a <=> A
      /\ "index" \in a <=> A
      /\ "BLOCKED" \notin a /\ "TRUSTED" \notin a
  BY <1>1
<1>6. /\ "AUTHENTICATED" \in b <=> A /\ (orMark \/ ~ B)
      /\ "index" \in b <=> A /\ (orMark \/ ~ B)
      /\ "BLOCKED" \in b <=> B
      /\ "TRUSTED" \notin b
  BY <1>2, <1>5
<1>7. /\ "AUTHENTICATED" \in t <=> A /\ (orMark \/ (~ B /\ ~ T))
      /\ "index" \in t <=> A /\ (orMark \/ (~ B /\ ~ T))
      /\ "BLOCKED" \in t <=> B /\ (orMark \/ ~ T)
      /\ "TRUSTED" \in t <=> T
  BY <1>3, <1>6
<1> QED
  BY <1>4, <1>7 DEF A, B, T

\* What a match on the mark tells about the packet, and with a mask when there
\* is a match.
LEMMA MarkMatches ==
    ASSUME NEW mac, orMark \in BOOLEAN, masked \in BOOLEAN
    PROVE  LET A == mac \in authenticated
               B == ChainMarks(chainBlocked, mac)
               T == ChainMarks(chainTrusted, mac)
               mark == PREROUTING(mac)
           IN  /\ Matches(mark, "TRUSTED") => T
               /\ Matches(mark, "AUTHENTICATED") => A /\ ~ B /\ ~ T
               /\ masked /\ ~ B /\ A /\ ~ T => /\ Matches(mark, "AUTHENTICATED")
                                               /\ ~ Matches(mark, "TRUSTED")
                                               /\ ~ Matches(mark, "BLOCKED")
               /\ masked /\ ~ B /\ T /\ ~ A => /\ Matches(mark, "TRUSTED")
                                               /\ ~ Matches(mark, "BLOCKED")
<1> DEFINE A == mac \in authenticated
           B == ChainMarks(chainBlocked, mac)
           T == ChainMarks(chainTrusted, mac)
           mark == PREROUTING(mac)
<1>0. /\ "TRUSTED" \in mark <=> T
      /\ "BLOCKED" \in mark <=> B /\ (orMark \/ ~ T)
      /\ "AUTHENTICATED" \in mark <=> A /\ (orMark \/ (~ B /\ ~ T))
  BY MarksOfPacket
<1> HIDE DEF A, B, T, mark
<1>1. \A st \in State : Matches(mark, st) => st \in mark /\ \A other \in State \ {st} : other \notin mark
  BY DEF Matches, State
<1>2. \A st \in State : masked /\ st \in mark /\ (\A other \in State \ {st} : other \notin mark)
                          => Matches(mark, st)
  BY DEF Matches, State
<1>3. /\ Matches(mark, "TRUSTED") => "TRUSTED" \in mark
      /\ Matches(mark, "BLOCKED") => "BLOCKED" \in mark
      /\ Matches(mark, "AUTHENTICATED") =>
            "AUTHENTICATED" \in mark /\ "BLOCKED" \notin mark /\ "TRUSTED" \notin mark
      /\ masked /\ "AUTHENTICATED" \in mark /\ "BLOCKED" \notin mark /\ "TRUSTED" \notin mark
            => Matches(mark, "AUTHENTICATED")
      /\ masked /\ "TRUSTED" \in mark /\ "BLOCKED" \notin mark /\ "AUTHENTICATED" \notin mark
            => Matches(mark, "TRUSTED")
  BY <1>1, <1>2 DEF State
<1>4. /\ Matches(mark, "TRUSTED") => T
      /\ Matches(mark, "AUTHENTICATED") => A /\ ~ B /\ ~ T
  BY <1>0, <1>3
<1>5. /\ masked /\ ~ B /\ A /\ ~ T => /\ Matches(mark, "AUTHENTICATED")
                                      /\ ~ Matches(mark, "TRUSTED")
                                      /\ ~ Matches(mark, "BLOCKED")
      /\ masked /\ ~ B /\ T /\ ~ A => /\ Matches(mark, "TRUSTED")
                                      /\ ~ Matches(mark, "BLOCKED")
  BY <1>0, <1>3
<1> QED
  BY <1>4, <1>5 DEF A, B, T, mark

\* The first rule that matches decides.
Decides(k, chain, mark) ==
    /\ chain[k][1] = "any" \/ Matches(mark, chain[k][1])
    /\ \A j \in 1 .. k - 1 : chain[j][1] # "any" /\ ~ Matches(mark, chain[j][1])

LEMMA FirstRuleDecides ==
    ASSUME NEW n \in Nat, NEW chain, DOMAIN chain = 1 .. n, NEW mark, NEW k \in 1 .. n,
           Decides(k, chain, mark)
    PROVE  FirstTarget(chain, mark) = chain[k][2]
<1> USE DEF Decides
<1> DEFINE P(i) == /\ chain[i][1] = "any" \/ Matches(mark, chain[i][1])
                   /\ \A j \in 1 .. i - 1 : chain[j][1] # "any" /\ ~ Matches(mark, chain[j][1])
           c == CHOOSE i \in DOMAIN chain : P(i)
<1>1. P(k)
  OBVIOUS
<1>2. ASSUME NEW i \in 1 .. n, P(i)
      PROVE  i = k
  <2>1. CASE i < k
    BY <1>2, <2>1, i \in 1 .. k - 1
  <2>2. CASE k < i
    BY <1>2, <2>2, k \in 1 .. i - 1
  <2> QED
    BY <2>1, <2>2
<1>3. c \in DOMAIN chain /\ P(c)
  <2>1. \E i \in DOMAIN chain : P(i)
    BY <1>1
  <2> HIDE DEF P
  <2> QED
    BY <2>1
<1>4. c = k
  BY <1>2, <1>3
<1>5. FirstTarget(chain, mark) = chain[c][2]
  BY DEF FirstTarget
<1> QED
  BY <1>4, <1>5

\* The rules about marks of the three chains, rule by rule.
LEMMA ChainsDecide ==
    ASSUME NEW mark
    PROVE  LET B == Matches(mark, "BLOCKED")
               T == Matches(mark, "TRUSTED")
               A == Matches(mark, "AUTHENTICATED")
               nat == FirstTarget(natOutgoing, mark)
               router == FirstTarget(ToRouter, mark)
               internet == FirstTarget(ToInternet, mark)
           IN  /\ T \/ A => nat = "accept"
               /\ ~ T /\ ~ A => nat = "redirect"
               /\ router \in {"drop", "splash"}
               /\ B => internet = "drop"
               /\ ~ B /\ T => internet = "trusted-users"
               /\ ~ B /\ ~ T /\ A => internet = "authenticated-users"
               /\ ~ B /\ ~ T /\ ~ A => internet = "preauthenticated-users"
<1> DEFINE B == Matches(mark, "BLOCKED")
           T == Matches(mark, "TRUSTED")
           A == Matches(mark, "AUTHENTICATED")
<1>1. /\ DOMAIN natOutgoing = 1 .. 3
      /\ natOutgoing[1][1] = "TRUSTED" /\ natOutgoing[1][2] = "accept"
      /\ natOutgoing[2][1] = "AUTHENTICATED" /\ natOutgoing[2][2] = "accept"
      /\ natOutgoing[3][1] = "any" /\ natOutgoing[3][2] = "redirect"
  BY DEF natOutgoing
<1>2. /\ DOMAIN ToRouter = 1 .. 2
      /\ ToRouter[1][1] = "BLOCKED" /\ ToRouter[1][2] = "drop"
      /\ ToRouter[2][1] = "any" /\ ToRouter[2][2] = "splash"
  BY DEF ToRouter
<1>3. /\ DOMAIN ToInternet = 1 .. 4
      /\ ToInternet[1][1] = "BLOCKED" /\ ToInternet[1][2] = "drop"
      /\ ToInternet[2][1] = "TRUSTED" /\ ToInternet[2][2] = "trusted-users"
      /\ ToInternet[3][1] = "AUTHENTICATED" /\ ToInternet[3][2] = "authenticated-users"
      /\ ToInternet[4][1] = "any" /\ ToInternet[4][2] = "preauthenticated-users"
  BY DEF ToInternet
<1>4. 2 \in Nat /\ 3 \in Nat /\ 4 \in Nat
  OBVIOUS
<1>5. /\ 1 .. 1 - 1 = {} /\ 1 .. 2 - 1 = {1} /\ 1 .. 3 - 1 = {1, 2} /\ 1 .. 4 - 1 = {1, 2, 3}
      /\ 1 .. 2 = {1, 2} /\ 1 .. 3 = {1, 2, 3} /\ 1 .. 4 = {1, 2, 3, 4}
  OBVIOUS
<1> DEFINE nat == FirstTarget(natOutgoing, mark)
           router == FirstTarget(ToRouter, mark)
           internet == FirstTarget(ToInternet, mark)
<1>6. /\ T => Decides(1, natOutgoing, mark)
      /\ ~ T /\ A => Decides(2, natOutgoing, mark)
      /\ ~ T /\ ~ A => Decides(3, natOutgoing, mark)
  BY <1>1, <1>5 DEF Decides
<1>7. /\ B => Decides(1, ToRouter, mark)
      /\ ~ B => Decides(2, ToRouter, mark)
  BY <1>2, <1>5 DEF Decides
<1>8. /\ B => Decides(1, ToInternet, mark)
      /\ ~ B /\ T => Decides(2, ToInternet, mark)
      /\ ~ B /\ ~ T /\ A => Decides(3, ToInternet, mark)
      /\ ~ B /\ ~ T /\ ~ A => Decides(4, ToInternet, mark)
  BY <1>3, <1>5 DEF Decides
<1>9. \A k \in 1 .. 3 : Decides(k, natOutgoing, mark) => nat = natOutgoing[k][2]
  BY <1>1, <1>4, FirstRuleDecides
<1>10. \A k \in 1 .. 2 : Decides(k, ToRouter, mark) => router = ToRouter[k][2]
  BY <1>2, <1>4, FirstRuleDecides
<1>11. \A k \in 1 .. 4 : Decides(k, ToInternet, mark) => internet = ToInternet[k][2]
  BY <1>3, <1>4, FirstRuleDecides
<1> HIDE DEF B, T, A, nat, router, internet
<1>12. (T \/ A => nat = "accept") /\ (~ T /\ ~ A => nat = "redirect")
  BY <1>1, <1>5, <1>6, <1>9
<1>13. router \in {"drop", "splash"}
  BY <1>2, <1>5, <1>7, <1>10
<1>14. /\ B => internet = "drop"
       /\ ~ B /\ T => internet = "trusted-users"
       /\ ~ B /\ ~ T /\ A => internet = "authenticated-users"
       /\ ~ B /\ ~ T /\ ~ A => internet = "preauthenticated-users"
  BY <1>3, <1>5, <1>8, <1>11
<1> QED
  BY <1>12, <1>13, <1>14 DEF B, T, A, nat, router, internet

\* No packet gets the rules of authenticated users unless its MAC is
\* authenticated and not blocked, nor those of trusted users unless its MAC is
\* trusted, whichever mark options the kernel has and whatever failed for
\* other MACs.
THEOREM AccessOnlyIfGranted == Spec => []AccessIsGranted
<1>1. ASSUME MInv PROVE AccessIsGranted
  <2> SUFFICES ASSUME phase = "running", NEW mac \in Intact,
                      NEW v \in {Verdict(mac), WebVerdict(mac)}
               PROVE  /\ v = "authenticated-users" => mac \in authenticated \ Blocked
                      /\ v = "trusted-users" => mac \in Trusted
    BY DEF AccessIsGranted
  <2> DEFINE mark == PREROUTING(mac)
             A == mac \in authenticated
             B == ChainMarks(chainBlocked, mac)
             T == ChainMarks(chainTrusted, mac)
  <2>1. /\ Matches(mark, "TRUSTED") => T
        /\ Matches(mark, "AUTHENTICATED") => A /\ ~ B /\ ~ T
    BY <1>1, MarkMatches DEF MInv, TypeOK
  <2>2. (B <=> mac \in Blocked) /\ (T <=> mac \in Trusted)
    BY <1>1, TrustedChainMarks, BlockedChainMarks
  <2> DEFINE internet == FirstTarget(ToInternet, mark)
             router == FirstTarget(ToRouter, mark)
  <2>3. /\ router \in {"drop", "splash"}
        /\ internet = "trusted-users" => Matches(mark, "TRUSTED")
        /\ internet = "authenticated-users" => Matches(mark, "AUTHENTICATED")
    <3> HIDE DEF mark
    <3> QED
      BY ChainsDecide
  <2>4. v \in {internet, router}
    BY DEF Verdict, WebVerdict
  <2> HIDE DEF mark, B, T, internet, router
  <2> QED
    BY <2>1, <2>2, <2>3, <2>4
<1> QED
  BY <1>1, MacRulesInvariance, PTL

\* On kernels that mask marks an authenticated client that is neither blocked
\* nor trusted gets the rules of authenticated users, and a trusted MAC that
\* is not authenticated those of trusted users.
THEOREM GrantedGetsAccess == Spec => []GrantedHasAccess
<1>1. ASSUME MInv PROVE GrantedHasAccess
  <2> SUFFICES ASSUME phase = "running", masked, NEW mac \in Intact \ Blocked
               PROVE  /\ mac \in authenticated \ Trusted =>
                           {Verdict(mac), WebVerdict(mac)} = {"authenticated-users"}
                      /\ mac \in Trusted \ authenticated =>
                           {Verdict(mac), WebVerdict(mac)} = {"trusted-users"}
    BY DEF GrantedHasAccess
  <2> DEFINE mark == PREROUTING(mac)
             A == mac \in authenticated
             B == ChainMarks(chainBlocked, mac)
             T == ChainMarks(chainTrusted, mac)
  <2>1. /\ masked /\ ~ B /\ A /\ ~ T => /\ Matches(mark, "AUTHENTICATED")
                                        /\ ~ Matches(mark, "TRUSTED")
                                        /\ ~ Matches(mark, "BLOCKED")
        /\ masked /\ ~ B /\ T /\ ~ A => /\ Matches(mark, "TRUSTED")
                                        /\ ~ Matches(mark, "BLOCKED")
    BY <1>1, MarkMatches DEF MInv, TypeOK
  <2>2. ~ B /\ (T <=> mac \in Trusted)
    BY <1>1, TrustedChainMarks, BlockedChainMarks
  <2> DEFINE internet == FirstTarget(ToInternet, mark)
             nat == FirstTarget(natOutgoing, mark)
  <2>3. /\ Matches(mark, "TRUSTED") \/ Matches(mark, "AUTHENTICATED") => nat = "accept"
        /\ ~ Matches(mark, "BLOCKED") /\ Matches(mark, "TRUSTED") => internet = "trusted-users"
        /\ ~ Matches(mark, "BLOCKED") /\ ~ Matches(mark, "TRUSTED") /\ Matches(mark, "AUTHENTICATED")
              => internet = "authenticated-users"
    <3> HIDE DEF mark
    <3> QED
      BY ChainsDecide
  <2>4. Verdict(mac) = internet /\ (nat = "accept" => WebVerdict(mac) = internet)
    BY DEF Verdict, WebVerdict
  <2> HIDE DEF mark, B, T, A, internet, nat
  <2>5. /\ A /\ ~ T => Verdict(mac) = "authenticated-users" /\ WebVerdict(mac) = "authenticated-users"
        /\ T /\ ~ A => Verdict(mac) = "trusted-users" /\ WebVerdict(mac) = "trusted-users"
    BY <2>1, <2>2, <2>3, <2>4
  <2> QED
    BY <2>2, <2>5 DEF A
<1> QED
  BY <1>1, MacRulesInvariance, PTL
============================================================================
