-------------------------- MODULE AuthServerProofs --------------------------
(***************************************************************************)
(* Proofs about the client of the authentication server: a process that    *)
(* starts runs with the whole of the configuration it accepted, and a      *)
(* client is let in only on the answer "1", whatever the net, the server   *)
(* and the sizes of their answers do.                                      *)
(***************************************************************************)
EXTENDS AuthServer, TLAPS

----------------------------------------------------------------------------
(* The inductive invariant. *)

\* What the gateway is doing and what for belong together.
Doing ==
    /\ task \in {"config", "token"}
    /\ pc \in {"resolve", "popular", "connect", "read", "config", "token",
               "apply", "pause", "start", "idle", "exited"}
    /\ pc \in {"config", "apply", "pause", "start"} => task = "config"
    /\ pc = "token" => task = "token"

\* The state that decides: a verdict, counters, and the keys that are configured.
Kinds ==
    /\ letIn \in BOOLEAN
    /\ got \in Nat /\ applied \in Nat
    /\ DOMAIN config = ScalarKey /\ DOMAIN lists = List

\* The path that is asked for next is one that the server knows.
PathKnown == config["configPath"] \in Paths

\* An answer to the request for a configuration: text of another kind, or a
\* configuration and its end.
Answered ==
    /\ answer.body # <<>> =>
         \E c \in Configurations : answer = ConfigAnswer(c)
    /\ got <= Total

\* The first n keys of the answer are in force.
InForce(n) ==
    \A i \in 1 .. n :
        LET item == answer.body[i] IN
        /\ item.key \in ScalarKey =>
             \E j \in i .. n :
                answer.body[j].key = item.key /\ config[item.key] = answer.body[j].value
        /\ item.key \in ListKey => ListInForce(item)
        /\ item.key \in ScalarKey \cup ListKey

\* While keys are applied, those before the next one are in force; afterwards all.
Applying ==
    /\ pc = "apply" => applied < Len(answer.body) /\ InForce(applied)
    /\ pc \in {"start", "idle"} /\ task = "config" => InForce(Len(answer.body) - 1)

AInv ==
    /\ Doing
    /\ Kinds
    /\ PathKnown
    /\ task = "config" => Answered
    /\ Applying

----------------------------------------------------------------------------
(* Lemmas. *)

\* What ends a configuration stands behind its keys and nowhere among them.
LEMMA EndOfAnswer ==
    ASSUME NEW c \in Configurations
    PROVE  LET body == ConfigAnswer(c).body IN
           /\ Len(body) = Len(c) + 1 /\ Len(c) \in Nat
           /\ body[Len(body)] = Close
           /\ \A i \in 1 .. Len(c) : body[i] \in ToSet(c) /\ body[i] # Close
<1>1. c \in Seq(ToSet(c)) /\ Close \notin ToSet(c)
      BY ConfigurationAssumption
<1>2. ConfigAnswer(c).body = Append(c, Close)
      BY DEF ConfigAnswer
<1>3. Len(c) \in Nat /\ DOMAIN c = 1 .. Len(c)
      BY <1>1
<1>4. c \in Seq(ToSet(c) \cup {Close})
      BY <1>1
<1>5. Len(Append(c, Close)) = Len(c) + 1 /\ Append(c, Close)[Len(c) + 1] = Close
      BY <1>4
<1>6. \A i \in 1 .. Len(c) : Append(c, Close)[i] = c[i] /\ c[i] \in ToSet(c)
      BY <1>1, <1>3, <1>4
<1> QED  BY <1>1, <1>2, <1>3, <1>5, <1>6

\* A step that leaves the answer and the configuration alone, and does not start to
\* apply or to use it, preserves the invariant.
LEMMA Elsewhere ==
    ASSUME AInv,
           UNCHANGED <<task, answer, got, applied, config, lists, unresolved>>,
           letIn' \in BOOLEAN,
           pc' \in {"resolve", "popular", "connect", "read", "config", "token",
                    "apply", "pause", "start", "idle", "exited"},
           pc' \in {"config", "apply", "pause", "start"} => task = "config",
           pc' = "token" => task = "token",
           pc' = "apply" => pc = "apply",
           pc' \in {"start", "idle"} /\ task = "config" => pc \in {"start", "idle"}
    PROVE  AInv'
<1>1. Doing'      BY DEF AInv, Doing
<1>2. Kinds'      BY DEF AInv, Kinds
<1>3. PathKnown'  BY DEF AInv, PathKnown
<1>4. (task = "config" => Answered)'
      BY DEF AInv, Answered, Total
<1>5. Applying'
      BY DEF AInv, Applying, InForce, ListInForce
<1> QED  BY <1>1, <1>2, <1>3, <1>4, <1>5 DEF AInv

\* Once the next part is the end, every key of the answer is in force.
LEMMA LastKey ==
    ASSUME AInv, pc = "apply"
    PROVE  /\ Len(answer.body) \in Nat /\ applied + 1 <= Len(answer.body)
           /\ Item = Close => applied = Len(answer.body) - 1
           /\ Item # Close => applied + 1 < Len(answer.body)
                              /\ \E c \in Configurations : Item \in ToSet(c)
<1>1. task = "config" /\ Answered /\ applied \in Nat /\ applied < Len(answer.body)
      BY DEF AInv, Doing, Kinds, Applying
<1>2. answer.body # <<>>
  <2>1. Len(<<>>) = 0  OBVIOUS
  <2> QED  BY <1>1, <2>1
<1>3. PICK c \in Configurations : answer = ConfigAnswer(c)
      BY <1>1, <1>2 DEF Answered
<1>4. /\ Len(answer.body) = Len(c) + 1 /\ Len(c) \in Nat
      /\ answer.body[Len(answer.body)] = Close
      /\ \A i \in 1 .. Len(c) : answer.body[i] \in ToSet(c) /\ answer.body[i] # Close
      BY <1>3, EndOfAnswer, Zenon
<1>5. applied + 1 \in 1 .. Len(c) \/ applied + 1 = Len(answer.body)
      BY <1>1, <1>4
<1>6. CASE applied + 1 \in 1 .. Len(c)
  <2>1. Item \in ToSet(c) /\ Item # Close
        BY <1>4, <1>6 DEF Item
  <2> QED  BY <1>1, <1>4, <1>6, <2>1
<1>7. CASE applied + 1 = Len(answer.body)
  <2>1. Item = Close
        BY <1>4, <1>7 DEF Item
  <2> QED  BY <1>1, <1>4, <1>7, <2>1
<1> QED  BY <1>5, <1>6, <1>7

----------------------------------------------------------------------------
(* The steps. *)

LEMMA InitAInv == Init => AInv
<1> SUFFICES ASSUME Init PROVE AInv
    OBVIOUS
<1> USE DEF Init
<1>1. Doing      BY DEF Doing
<1>2. Kinds      BY DEF Kinds, ScalarKey
<1>3. PathKnown  BY DEF PathKnown, Paths
<1>4. Answered
  <2>1. answer.body = <<>> /\ Len(answer.body) = 0  BY DEF NoAnswer
  <2> QED  BY <2>1 DEF Answered, Total
<1>5. Applying   BY DEF Applying
<1> QED  BY <1>1, <1>2, <1>3, <1>4, <1>5 DEF AInv

\* Asking, connecting and giving up; the end of an answer, of the loop and of the start.
LEMMA GiveUpStep ==
    ASSUME AInv, GiveUp, pc \notin {"start", "idle", "apply"}
    PROVE  AInv'
<1>1. task \in {"config", "token"} /\ letIn \in BOOLEAN
      BY DEF AInv, Doing, Kinds
<1>2. UNCHANGED <<task, answer, got, applied, config, lists, unresolved>>
      BY DEF GiveUp, confVars
<1>3. pc' = (IF task = "config" THEN "pause" ELSE "idle") /\ letIn' \in BOOLEAN
      BY <1>1 DEF GiveUp
<1> QED  BY <1>1, <1>2, <1>3, Elsewhere

LEMMA GotoStep ==
    ASSUME AInv, NEW l, Goto(l),
           l \in {"resolve", "popular", "connect", "read", "config", "token",
                  "pause", "exited"},
           l \in {"config", "pause"} => task = "config",
           l = "token" => task = "token"
    PROVE  AInv'
<1>1. UNCHANGED <<task, answer, got, applied, config, lists, unresolved, letIn>> /\ pc' = l
      BY DEF Goto, confVars
<1>2. letIn' \in BOOLEAN
      BY <1>1 DEF AInv, Kinds
<1> QED  BY <1>1, <1>2, Elsewhere

LEMMA ConnectStep ==
    ASSUME AInv, ConnectAndSend
    PROVE  AInv'
<1>1. /\ pc = "connect" /\ pc' = "read" /\ answer' \in Answers /\ got' = 0
      /\ UNCHANGED <<task, applied, config, lists, unresolved, letIn>>
      BY DEF ConnectAndSend, confVars
<1>2. Doing' /\ Kinds' /\ PathKnown' /\ Applying'
      BY <1>1 DEF AInv, Doing, Kinds, PathKnown, Applying
<1>3. ASSUME task = "config" PROVE Answered'
  <2>1. \/ \E c \in Configurations : answer' = ConfigAnswer(c)
        \/ \E h \in BOOLEAN : answer' = [head |-> h, body |-> <<>>]
    <3>1. Served(config["configPath"]) \in Configurations
          BY ServedAssumption DEF AInv, PathKnown
    <3> QED  BY <1>1, <1>3, <3>1 DEF Answers
  <2>2. CASE \E c \in Configurations : answer' = ConfigAnswer(c)
    <3>1. PICK c \in Configurations : answer' = ConfigAnswer(c)
          BY <2>2
    <3>2. Len(answer'.body) \in Nat
          BY <3>1, EndOfAnswer
    <3> QED  BY <1>1, <3>1, <3>2 DEF Answered, Total
  <2>3. CASE \E h \in BOOLEAN : answer' = [head |-> h, body |-> <<>>]
    <3>1. answer'.body = <<>> /\ Len(answer'.body) = 0
          BY <2>3
    <3> QED  BY <1>1, <3>1 DEF Answered, Total
  <2> QED  BY <2>1, <2>2, <2>3
<1> QED  BY <1>1, <1>2, <1>3 DEF AInv

LEMMA ReadStep ==
    ASSUME AInv, Read
    PROVE  AInv'
<1>1. /\ pc = "read" /\ got < Total /\ got' = got + 1
      /\ UNCHANGED <<pc, task, answer, applied, config, lists, unresolved, letIn>>
      BY DEF Read, confVars
<1>2. Doing' /\ Kinds' /\ PathKnown' /\ Applying'
      BY <1>1 DEF AInv, Doing, Kinds, PathKnown, Applying
<1>3. ASSUME task = "config" PROVE Answered'
  <2>1. Len(answer.body) \in Nat
    <3>1. CASE answer.body = <<>>  BY <3>1
    <3>2. CASE answer.body # <<>>
      <4>1. PICK c \in Configurations : answer = ConfigAnswer(c)
            BY <1>3, <3>2 DEF AInv, Answered
      <4> QED  BY <4>1, EndOfAnswer
    <3> QED  BY <3>1, <3>2
  <2>2. got + 1 <= Total
        BY <1>1, <2>1 DEF Total, AInv, Kinds
  <2> QED  BY <1>1, <1>3, <2>2 DEF AInv, Answered, Total
<1> QED  BY <1>1, <1>2, <1>3 DEF AInv
\* An answer with a blank line and something after it is a configuration.
LEMMA ParseStep ==
    ASSUME AInv, Parse
    PROVE  AInv'
<1>1. /\ pc = "config" /\ task = "config" /\ applied' = 0
      /\ UNCHANGED <<task, answer, got, config, lists, unresolved, letIn>>
      /\ pc' = IF HeadEnds /\ Body # <<>> /\ Last(Body) = Close THEN "apply" ELSE "pause"
      BY DEF Parse, AInv, Doing
<1>2. Doing' /\ Kinds' /\ PathKnown' /\ (task = "config" => Answered)'
      BY <1>1 DEF AInv, Doing, Kinds, PathKnown, Answered, Total
<1>3. Applying'
  <2>1. CASE pc' = "pause"
        BY <2>1 DEF Applying
  <2>2. CASE pc' = "apply"
    <3>1. Body # <<>> /\ Answered /\ got \in Nat
          BY <1>1, <2>2 DEF AInv, Kinds
    <3>2. answer.body # <<>>
      <4>1. SUFFICES ASSUME answer.body = <<>> PROVE FALSE
            OBVIOUS
      <4>2. Len(answer.body) = 0
            BY <4>1
      <4>3. got - 1 < 1 /\ got - 1 \in Int
            BY <3>1, <4>2 DEF Answered, Total
      <4>4. SubSeq(answer.body, 1, got - 1) = <<>>
            BY <4>1, <4>3
      <4> QED  BY <3>1, <4>4 DEF Body
    <3>3. Len(answer.body) \in Nat /\ 0 < Len(answer.body)
      <4>1. PICK c \in Configurations : answer = ConfigAnswer(c)
            BY <3>1, <3>2 DEF Answered
      <4> QED  BY <4>1, EndOfAnswer
    <3>4. InForce(applied)'
          BY <1>1 DEF InForce
    <3> QED  BY <1>1, <2>2, <3>3, <3>4 DEF Applying
  <2> QED  BY <1>1, <2>1, <2>2
<1> QED  BY <1>1, <1>2, <1>3 DEF AInv

\* A key with one value: it replaces what an earlier key of the same name gave.
LEMMA ApplyValueStep ==
    ASSUME AInv, ApplyValue
    PROVE  AInv'
<1>1. /\ pc = "apply" /\ task = "config" /\ Item # Close /\ Item.key \in ScalarKey
      /\ config' = [config EXCEPT ![Item.key] = Item.value] /\ applied' = applied + 1
      /\ UNCHANGED <<pc, task, answer, got, lists, unresolved, letIn>>
      BY DEF ApplyValue, AInv, Doing
<1>2. /\ applied \in Nat /\ applied + 1 < Len(answer.body) /\ Len(answer.body) \in Nat
      /\ DOMAIN config = ScalarKey
      BY <1>1, LastKey DEF AInv, Kinds
<1>3. PICK c \in Configurations : Item \in ToSet(c)
      BY <1>1, LastKey
<1>4. Doing' /\ (task = "config" => Answered)'
      BY <1>1 DEF AInv, Doing, Answered, Total
<1>5. Kinds'
      BY <1>1, <1>2 DEF AInv, Kinds
<1>6. PathKnown'
  <2>1. CASE Item.key = "configPath"
    <3>1. config'["configPath"] = Item.value
          BY <1>1, <1>2, <2>1
    <3>2. Item.value \in Paths
          BY <1>3, <2>1 DEF Paths
    <3> QED  BY <3>1, <3>2 DEF PathKnown
  <2>2. CASE Item.key # "configPath"
        BY <1>1, <1>2, <2>2, KeyAssumption DEF AInv, PathKnown
  <2> QED  BY <2>1, <2>2
<1>7. InForce(applied)
      BY <1>1 DEF AInv, Applying
<1>8. InForce(applied)'
  <2> DEFINE n == applied + 1
  <2>1. Item = answer.body[n]
        BY DEF Item
  <2> SUFFICES ASSUME NEW i \in 1 .. n
               PROVE  LET item == answer.body[i] IN
                      /\ item.key \in ScalarKey =>
                           \E j \in i .. n : /\ answer.body[j].key = item.key
                                             /\ config'[item.key] = answer.body[j].value
                      /\ item.key \in ListKey => ListInForce(item)
                      /\ item.key \in ScalarKey \cup ListKey
      BY <1>1 DEF InForce, ListInForce
  <2>2. n \in Nat /\ n \in i .. n
        BY <1>2
  <2>3. CASE i = n
    <3>1. config'[Item.key] = Item.value
          BY <1>1, <1>2
    <3>2. Item.key \notin ListKey
          BY <1>1, KeyAssumption
    <3> QED  BY <1>1, <2>1, <2>2, <2>3, <3>1, <3>2
  <2>4. CASE i # n
    <3>1. i \in 1 .. applied
          BY <1>2, <2>4
    <3> DEFINE item == answer.body[i]
    <3>2. /\ item.key \in ScalarKey =>
               \E j \in i .. applied : answer.body[j].key = item.key
                                       /\ config[item.key] = answer.body[j].value
          /\ item.key \in ListKey => ListInForce(item)
          /\ item.key \in ScalarKey \cup ListKey
          BY <1>7, <3>1 DEF InForce
    <3>3. ASSUME item.key \in ScalarKey
          PROVE  \E j \in i .. n : /\ answer.body[j].key = item.key
                                   /\ config'[item.key] = answer.body[j].value
      <4>1. CASE item.key = Item.key
        <5>1. config'[item.key] = Item.value
              BY <1>1, <1>2, <4>1
        <5> QED  BY <2>1, <2>2, <4>1, <5>1
      <4>2. CASE item.key # Item.key
        <5>1. config'[item.key] = config[item.key]
              BY <1>1, <1>2, <3>3, <4>2
        <5>2. PICK j \in i .. applied : answer.body[j].key = item.key
                                        /\ config[item.key] = answer.body[j].value
              BY <3>2, <3>3
        <5>3. j \in i .. n
              BY <1>2, <3>1, <5>2
        <5> QED  BY <5>1, <5>2, <5>3
      <4> QED  BY <4>1, <4>2
    <3> QED  BY <3>2, <3>3
  <2> QED  BY <2>3, <2>4
<1>9. Applying'
      BY <1>1, <1>2, <1>8 DEF Applying
<1> QED  BY <1>1, <1>4, <1>5, <1>6, <1>9 DEF AInv

\* What the lists take of a key is in force, and what was in force stays so, but for
\* names whose lookup has failed since.
LEMMA ListTaken ==
    ASSUME AInv, NEW item, NEW failed \in SUBSET Names(item),
           unresolved' = (unresolved \ Names(item)) \cup failed,
           lists' = [l \in List |-> lists[l] \cup Takes(l, item, failed)]
    PROVE  /\ ListInForce(item)'
           /\ \A older : ListInForce(older) => ListInForce(older)'
<1>1. /\ \A l \in List : lists'[l] = lists[l] \cup Takes(l, item, failed)
      /\ {"freeIPList", "blockedMACList", "trustedMACList"} = List /\ "freeDomainList" \notin List
      BY DEF List
<1>2. \A name \in Names(item) \ failed : AddressesOf(name) \subseteq lists'["freeIPList"]
  <2>1. SUFFICES ASSUME NEW name \in Names(item) \ failed
                 PROVE  AddressesOf(name) \subseteq lists'["freeIPList"]
        OBVIOUS
  <2>2. item.key = "freeDomainList"
        BY DEF Names
  <2>3. Takes("freeIPList", item, failed) = UNION {AddressesOf(n) : n \in Names(item) \ failed}
        BY <2>2 DEF Takes
  <2>4. AddressesOf(name) \subseteq UNION {AddressesOf(n) : n \in Names(item) \ failed}
        BY Zenon
  <2> QED  BY <1>1, <2>3, <2>4
<1>3. ListInForce(item)'
  <2>1. \A l \in List : item.key = l /\ (l = "blockedMACList" => BlocksMacs) =>
           item.value \cap Valid \subseteq lists'[l]
        BY <1>1 DEF Takes
  <2>2. \A name \in Names(item) \ unresolved' : AddressesOf(name) \subseteq lists'["freeIPList"]
        BY <1>2
  <2> QED  BY <1>1, <2>1, <2>2 DEF ListInForce
<1>4. ASSUME NEW older, ListInForce(older)
      PROVE  ListInForce(older)'
  <2>1. \A l \in List : lists[l] \subseteq lists'[l]
        BY <1>1
  <2>2. ASSUME NEW name \in Names(older) \ unresolved'
        PROVE  AddressesOf(name) \subseteq lists'["freeIPList"]
    <3>1. CASE name \in Names(item)
          BY <1>2, <2>2, <3>1
    <3>2. CASE name \notin Names(item)
      <4>1. name \notin unresolved
            BY <2>2, <3>2
      <4> QED  BY <1>1, <1>4, <2>1, <2>2, <4>1 DEF ListInForce
    <3> QED  BY <3>1, <3>2
  <2> QED  BY <1>1, <1>4, <2>1, <2>2 DEF ListInForce
<1> QED  BY <1>3, <1>4

\* A list: what it takes is added to what is there.
LEMMA ApplyListStep ==
    ASSUME AInv, ApplyList
    PROVE  AInv'
<1>1. /\ pc = "apply" /\ task = "config" /\ Item # Close /\ Item.key \in ListKey
      /\ applied' = applied + 1
      /\ UNCHANGED <<pc, task, answer, got, config, letIn>>
      BY DEF ApplyList, AInv, Doing
<1>2. /\ applied \in Nat /\ applied + 1 < Len(answer.body) /\ Len(answer.body) \in Nat
      BY <1>1, LastKey DEF AInv, Kinds
<1>3. Doing' /\ PathKnown' /\ (task = "config" => Answered)'
      BY <1>1 DEF AInv, Doing, PathKnown, Answered, Total
<1>4. Kinds'
      BY <1>1, <1>2 DEF AInv, Kinds, ApplyList
<1>5. InForce(applied)
      BY <1>1 DEF AInv, Applying
<1>6. PICK item : item = Item
      OBVIOUS
<1>7. PICK failed \in SUBSET Names(item) :
         /\ unresolved' = (unresolved \ Names(item)) \cup failed
         /\ lists' = [l \in List |-> lists[l] \cup Takes(l, item, failed)]
      BY <1>6 DEF ApplyList
<1>8. ListInForce(item)' /\ \A older : ListInForce(older) => ListInForce(older)'
      BY <1>7, ListTaken
<1>9. InForce(applied)'
  <2> DEFINE n == applied + 1
  <2>1. item = answer.body[n]
        BY <1>6 DEF Item
  <2> SUFFICES ASSUME NEW i \in 1 .. n
               PROVE  /\ answer.body[i].key \in ScalarKey =>
                           \E j \in i .. n : /\ answer.body[j].key = answer.body[i].key
                                             /\ config[answer.body[i].key] = answer.body[j].value
                      /\ \A x : x = answer.body[i] /\ x.key \in ListKey => ListInForce(x)'
                      /\ answer.body[i].key \in ScalarKey \cup ListKey
      BY <1>1 DEF InForce, ListInForce
  <2>2. CASE i = n
    <3>1. item.key \notin ScalarKey /\ item.key \in ListKey
          BY <1>1, <1>6, KeyAssumption
    <3>2. \A x : x = answer.body[i] => ListInForce(x)'
          BY <1>8, <2>1, <2>2
    <3> QED  BY <2>1, <2>2, <3>1, <3>2
  <2>3. CASE i # n
    <3>1. i \in 1 .. applied
          BY <1>2, <2>3
    <3> DEFINE older == answer.body[i]
    <3>2. /\ older.key \in ScalarKey =>
               \E j \in i .. applied : answer.body[j].key = older.key
                                       /\ config[older.key] = answer.body[j].value
          /\ \A x : x = older /\ x.key \in ListKey => ListInForce(x)
          /\ older.key \in ScalarKey \cup ListKey
          BY <1>5, <3>1 DEF InForce
    <3>3. i .. applied \subseteq i .. n
          BY <1>2, <3>1
    <3>4. \A x : x = older /\ x.key \in ListKey => ListInForce(x)'
          BY <1>8, <3>2
    <3> QED  BY <3>2, <3>3, <3>4
  <2> QED  BY <2>2, <2>3
<1>10. Applying'
      BY <1>1, <1>2, <1>9 DEF Applying
<1> QED  BY <1>1, <1>3, <1>4, <1>10 DEF AInv

\* The end of the configuration: all its keys are in force.
LEMMA AcceptStep ==
    ASSUME AInv, Accept
    PROVE  AInv'
<1>1. /\ pc = "apply" /\ pc' = "start" /\ task = "config" /\ Item = Close
      /\ UNCHANGED <<task, answer, got, applied, config, lists, unresolved, letIn>>
      BY DEF Accept, Goto, confVars, AInv, Doing
<1>2. applied = Len(answer.body) - 1 /\ InForce(applied)
      BY <1>1, LastKey DEF AInv, Applying
<1>3. Doing' /\ Kinds' /\ PathKnown' /\ (task = "config" => Answered)'
      BY <1>1 DEF AInv, Doing, Kinds, PathKnown, Answered, Total
<1>4. InForce(Len(answer.body) - 1)'
  <2>1. InForce(Len(answer.body) - 1)
        BY <1>2
  <2> QED  BY <1>1, <2>1 DEF InForce, ListInForce
<1>5. Applying'
      BY <1>1, <1>4 DEF Applying
<1> QED  BY <1>3, <1>5 DEF AInv
LEMMA NextAInv ==
    ASSUME AInv, [Next]_vars
    PROVE  AInv'
<1> USE DEF Doing
<1>0. Doing /\ letIn \in BOOLEAN
      BY DEF AInv, Kinds
<1>1. CASE Environment
      BY <1>0, <1>1, Elsewhere DEF Environment, confVars, AInv
<1>2. CASE Resolved
      BY <1>2, GotoStep DEF Resolved
<1>3. CASE NotResolved
      BY <1>3, GotoStep DEF NotResolved
<1>4. CASE PopularResolved
      BY <1>4, GotoStep DEF PopularResolved
<1>5. CASE NoneResolved
      BY <1>5, GiveUpStep DEF NoneResolved
<1>6. CASE NotConnected
  <2>1. pc = "connect" /\ (Goto("connect") \/ GiveUp)
        BY <1>6 DEF NotConnected
  <2>2. CASE Goto("connect")  BY <2>1, <2>2, GotoStep
  <2>3. CASE GiveUp           BY <2>1, <2>3, GiveUpStep
  <2> QED  BY <2>1, <2>2, <2>3
<1>7. CASE ConnectAndSend
      BY <1>7, ConnectStep
<1>8. CASE Read
      BY <1>8, ReadStep
<1>9. CASE ReadFails
      BY <1>9, GiveUpStep DEF ReadFails
<1>10. CASE ReadEnds
  <2>1. Goto(task) /\ task \in {"config", "token"}
        BY <1>0, <1>10 DEF ReadEnds
  <2>2. CASE task = "config"  BY <2>1, <2>2, GotoStep
  <2>3. CASE task = "token"   BY <2>1, <2>3, GotoStep
  <2> QED  BY <2>1, <2>2, <2>3
<1>11. CASE Parse
      BY <1>11, ParseStep
<1>12. CASE ApplyValue
      BY <1>12, ApplyValueStep
<1>13. CASE ApplyList
      BY <1>13, ApplyListStep
<1>14. CASE Refuse
      BY <1>0, <1>14, Elsewhere DEF Refuse, confVars
<1>15. CASE Accept
      BY <1>15, AcceptStep
<1>16. CASE Retry
      BY <1>16, GotoStep DEF Retry
<1>17. CASE free_ip_init
  <2>1. /\ pc = "start" /\ pc' \in {"idle", "exited"}
        /\ UNCHANGED <<task, answer, got, applied, config, lists, unresolved, letIn>>
        BY <1>17 DEF free_ip_init, Goto, confVars
  <2> QED  BY <1>0, <2>1, Elsewhere
<1>18. CASE AskToken
  <2>1. /\ pc' = "resolve" /\ task' = "token" /\ letIn' = FALSE
        /\ UNCHANGED <<answer, got, applied, config, lists, unresolved>>
        BY <1>18 DEF AskToken, confVars
  <2> QED  BY <2>1 DEF AInv, Kinds, PathKnown, Applying
<1>19. CASE Verify
  <2>1. /\ pc = "token" /\ pc' = "idle" /\ letIn' \in BOOLEAN
        /\ UNCHANGED <<task, answer, got, applied, config, lists, unresolved>>
        BY <1>19 DEF Verify, confVars
  <2> QED  BY <1>0, <2>1, Elsewhere
<1>20. CASE UNCHANGED vars
      BY <1>0, <1>20, Elsewhere DEF vars
<1> QED  BY <1>1, <1>2, <1>3, <1>4, <1>5, <1>6, <1>7, <1>8, <1>9, <1>10, <1>11, <1>12,
            <1>13, <1>14, <1>15, <1>16, <1>17, <1>18, <1>19, <1>20 DEF Next, Gateway

----------------------------------------------------------------------------
(* The theorems. *)

\* The inductive invariant holds: whatever answers come, cut off where they may be, the
\* keys up to the one that config_from_server() has come to are in force.
THEOREM AuthServerInvariance == Spec => []AInv
<1>1. Init => AInv  BY InitAInv
<1>2. AInv /\ [Next]_vars => AInv'  BY NextAInv
<1> QED  BY <1>1, <1>2, PTL DEF Spec

\* main() goes on only with the whole configuration of the answer that
\* config_from_server() accepted, for every set of configurations and every length of
\* the buffer.
THEOREM AcceptedInForce == Spec => []AcceptedApplied
<1>1. AInv => AcceptedApplied
      BY DEF AInv, Applying, InForce, AcceptedApplied
<1> QED  BY <1>1, AuthServerInvariance, PTL

\* No failure on the way lets a client in: only the verdict that token_verify() reads
\* from an answer does.
THEOREM LetInOnYes == Spec => LetInOnlyOnYes
<1>1. ASSUME AInv, [Next]_vars
      PROVE  [letIn' /\ ~letIn => pc = "token" /\ (HeadEnds => Body = <<"1">>)]_vars
  <2> SUFFICES ASSUME Next, letIn' # letIn, letIn' = TRUE
               PROVE  pc = "token" /\ (HeadEnds => Body = <<"1">>)
    <3>1. letIn \in BOOLEAN /\ letIn' \in BOOLEAN
          BY <1>1, NextAInv DEF AInv, Kinds
    <3> QED  BY <1>1, <3>1
  <2>1. ~GiveUp
        BY DEF GiveUp
  <2>2. \A l : ~Goto(l)
        BY DEF Goto
  <2>3. Verify
        BY <2>1, <2>2 DEF Next, Gateway, Environment, Resolved, NotResolved, PopularResolved,
           NoneResolved, NotConnected, ConnectAndSend, Read, ReadFails, ReadEnds, Parse,
           ApplyValue, ApplyList, Refuse, Accept, Retry, free_ip_init, AskToken
  <2> QED  BY <2>3 DEF Verify
<1> QED  BY <1>1, AuthServerInvariance, PTL DEF Spec, LetInOnlyOnYes
=============================================================================
