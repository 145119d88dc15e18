------------------------------ MODULE MacRules ------------------------------
(***************************************************************************)
(* The lists of trusted, blocked and allowed MAC addresses, the rules made *)
(* of them, and what becomes of a packet that the rules have marked: the   *)
(* lists of conf.c, the six ndsctl commands that change them while the     *)
(* gateway runs, the chains of iptables_fw_init(), and the mark that       *)
(* iptables_fw_access() gives the packets of an authenticated client.      *)
(*                                                                         *)
(* A mark is the set of its nonzero parts: the three states, which are     *)
(* different bits (conf.h:83-85), and "index", the digits of idx + 10 that *)
(* are printed before the digits of FW_MARK_AUTHENTICATED and lie above    *)
(* all three.                                                              *)
(***************************************************************************)
EXTENDS Naturals, Sequences, SequencesExt

CONSTANTS MAC, NULL,
          MaxRules          \* bound of the model: the rules of one chain

ASSUME NullAssumption == NULL \notin MAC
ASSUME BoundAssumption == MaxRules \in Nat

VARIABLES
    phase,          \* reading the configuration, or running
    macmechanism,   \* config.macmechanism
    maclist,        \* config.trustedmaclist, .blockedmaclist and .allowedmaclist
    orMark, masked, \* markop is --or-mark, markmask is not empty
    chainBlocked,   \* the rules of CHAIN_BLOCKED and of CHAIN_TRUSTED in the
    chainTrusted,   \* mangle table
    authenticated,  \* the MACs with a rule in CHAIN_OUTGOING
    answer,         \* the last command answered with "Yes", or NULL
    failed          \* lists and MACs for which an iptables command ever failed

configVars == <<macmechanism, maclist>>
chainVars == <<chainBlocked, chainTrusted>>
vars == <<phase, configVars, orMark, masked, chainVars, authenticated, answer, failed>>

List == {"trusted", "blocked", "allowed"}
State == {"TRUSTED", "BLOCKED", "AUTHENTICATED"}

\* A rule for one MAC, or for every packet.
Everyone == NULL
MarkRule(mac) == [mac |-> mac, target |-> "MARK"]
ReturnRule(mac) == [mac |-> mac, target |-> "RETURN"]

Init == /\ phase = "config"
        /\ macmechanism = "block"
        /\ maclist = [l \in List |-> {}]
        /\ orMark = FALSE /\ masked = FALSE
        /\ chainBlocked = <<>> /\ chainTrusted = <<>>
        /\ authenticated = {}
        /\ answer = NULL
        /\ failed = {}

----------------------------------------------------------------------------
(* The lists.  A MAC here is one that check_mac_format() accepts.  *)

\* The blocked list may be touched under the block mechanism only, the
\* allowed list under the allow mechanism only.
AnyListInUse(l) == TRUE                            \* a wrong InUse
InUse(l) == /\ l = "blocked" => macmechanism = "block"
            /\ l = "allowed" => macmechanism = "allow"

AddsDuplicates(l, mac) == InUse(l)                 \* a wrong MayAdd
MayAdd(l, mac) == InUse(l) /\ mac \notin maclist[l]
MayRemove(l, mac) == InUse(l) /\ mac \in maclist[l]

add_to_list(l, mac) == maclist' = [maclist EXCEPT ![l] = @ \cup {mac}]
remove_from_list(l, mac) == maclist' = [maclist EXCEPT ![l] = @ \ {mac}]

\* A line of the configuration file, or an entry of the server's lists.
ListLine(l, mac) ==
    /\ phase = "config"
    /\ MayAdd(l, mac)
    /\ add_to_list(l, mac)
    /\ UNCHANGED <<phase, macmechanism, orMark, masked, chainVars, authenticated, answer, failed>>

MechanismLine(m) ==
    /\ phase = "config"
    /\ macmechanism' = m
    /\ UNCHANGED <<phase, maclist, orMark, masked, chainVars, authenticated, answer, failed>>

----------------------------------------------------------------------------
(* The rules. *)

RuleOf(l, mac) == IF l = "allowed" THEN ReturnRule(mac) ELSE MarkRule(mac)

\* A rule for each MAC of a list, in some order.
RulesFor(l) == {[i \in DOMAIN s |-> RuleOf(l, s[i])] : s \in SetToSeqs(maclist[l])}

\* iptables_fw_init(), before any thread is started; if a command fails the
\* program cleans up and exits.
fw_init ==
    /\ phase = "config"
    /\ phase' = "running"
    /\ orMark' \in BOOLEAN /\ masked' \in BOOLEAN
    /\ chainTrusted' \in RulesFor("trusted")
    /\ IF macmechanism = "block"
       THEN chainBlocked' \in RulesFor("blocked")
       ELSE chainBlocked' \in {Append(s, MarkRule(Everyone)) : s \in RulesFor("allowed")}
    /\ UNCHANGED <<configVars, authenticated, answer, failed>>

\* A wrong AddRule: allowed MACs are appended like the others.
AddRuleAppends(l, mac) ==
    CASE l = "trusted" -> /\ chainTrusted' = Append(chainTrusted, MarkRule(mac))
                          /\ UNCHANGED chainBlocked
      [] l = "blocked" -> /\ chainBlocked' = Append(chainBlocked, MarkRule(mac))
                          /\ UNCHANGED chainTrusted
      [] l = "allowed" -> /\ chainBlocked' = Append(chainBlocked, ReturnRule(mac))
                          /\ UNCHANGED chainTrusted

\* iptables_trust_mac(), iptables_block_mac() and iptables_allow_mac().
AddRule(l, mac) ==
    CASE l = "trusted" -> /\ chainTrusted' = Append(chainTrusted, MarkRule(mac))
                          /\ UNCHANGED chainBlocked
      [] l = "blocked" -> /\ chainBlocked' = Append(chainBlocked, MarkRule(mac))
                          /\ UNCHANGED chainTrusted
      [] l = "allowed" -> /\ chainBlocked' = <<ReturnRule(mac)>> \o chainBlocked
                          /\ UNCHANGED chainTrusted

\* The chain in which -D looks for the rule to undo that.
ChainOf(l) == IF l = "trusted" THEN chainTrusted ELSE chainBlocked
HasRule(l, mac) == RuleOf(l, mac) \in ToSet(ChainOf(l))

\* -D takes the first rule that matches, and fails when there is none.
DeleteRule(l, mac) ==
    LET left == RemoveFirst(ChainOf(l), RuleOf(l, mac)) IN
    /\ chainTrusted' = IF l = "trusted" THEN left ELSE chainTrusted
    /\ chainBlocked' = IF l = "trusted" THEN chainBlocked ELSE left

----------------------------------------------------------------------------
(* The ndsctl commands: trust, block, allow, and their opposites. *)

Yes(op, l, mac) == answer' = [op |-> op, list |-> l, mac |-> mac]
No == answer' = NULL
Fails(l, mac) == /\ failed' = failed \cup {<<l, mac>>}
                 /\ UNCHANGED chainVars
                 /\ No

\* The command runs only when the list was changed; when it fails the list
\* stays changed.
ndsctl_add(l, mac) ==
    /\ phase = "running"
    /\ IF MayAdd(l, mac)
       THEN /\ add_to_list(l, mac)
            /\ \/ /\ Len(ChainOf(l)) < MaxRules
                  /\ AddRule(l, mac)
                  /\ Yes("add", l, mac)
                  /\ UNCHANGED failed
               \/ Fails(l, mac)
       ELSE UNCHANGED <<maclist, chainVars, failed>> /\ No
    /\ UNCHANGED <<phase, macmechanism, orMark, masked, authenticated>>

ndsctl_remove(l, mac) ==
    /\ phase = "running"
    /\ IF MayRemove(l, mac)
       THEN /\ remove_from_list(l, mac)
            /\ \/ /\ HasRule(l, mac)
                  /\ DeleteRule(l, mac)
                  /\ Yes("remove", l, mac)
                  /\ UNCHANGED failed
               \/ Fails(l, mac)
       ELSE UNCHANGED <<maclist, chainVars, failed>> /\ No
    /\ UNCHANGED <<phase, macmechanism, orMark, masked, authenticated>>

\* iptables_fw_access(): the client with this MAC is authenticated, or no more.
fw_access(mac) ==
    /\ phase = "running"
    /\ authenticated' = IF mac \in authenticated THEN authenticated \ {mac}
                                                  ELSE authenticated \cup {mac}
    /\ UNCHANGED <<phase, configVars, orMark, masked, chainVars, answer, failed>>

Next == \/ \E l \in List, mac \in MAC :
              ListLine(l, mac) \/ ndsctl_add(l, mac) \/ ndsctl_remove(l, mac)
        \/ \E m \in {"block", "allow"} : MechanismLine(m)
        \/ \E mac \in MAC : fw_access(mac)
        \/ fw_init

Spec == Init /\ [][Next]_vars

----------------------------------------------------------------------------
(* What becomes of a packet from a MAC. *)

Marked(old, new) == IF orMark THEN old \cup new ELSE new

Hits(chain, mac) == {i \in DOMAIN chain : chain[i].mac \in {mac, Everyone}}

\* A chain marks the packet unless it returns before the first marking rule.
ChainMarks(chain, mac) ==
    \E i \in Hits(chain, mac) :
        /\ chain[i].target = "MARK"
        /\ \A j \in Hits(chain, mac) : j < i => chain[j].target = "MARK"

ThroughOutgoing(mac, mark) ==
    IF mac \in authenticated THEN Marked(mark, {"index", "AUTHENTICATED"}) ELSE mark
ThroughBlocked(mac, mark) ==
    IF ChainMarks(chainBlocked, mac) THEN Marked(mark, {"BLOCKED"}) ELSE mark
ThroughTrusted(mac, mark) ==
    IF ChainMarks(chainTrusted, mac) THEN Marked(mark, {"TRUSTED"}) ELSE mark

\* A wrong PREROUTING: the three jumps are inserted the other way round.
PREROUTINGReversed(mac) ==
    ThroughOutgoing(mac, ThroughBlocked(mac, ThroughTrusted(mac, {})))
PREROUTING(mac) == ThroughTrusted(mac, ThroughBlocked(mac, ThroughOutgoing(mac, {})))

\* -m mark --mark state, with the mask or without.
Matches(mark, state) == (IF masked THEN mark \cap State ELSE mark) = {state}

FirstTarget(chain, mark) ==
    chain[CHOOSE i \in DOMAIN chain :
            /\ chain[i][1] = "any" \/ Matches(mark, chain[i][1])
            /\ \A j \in 1 .. i - 1 : chain[j][1] # "any" /\ ~ Matches(mark, chain[j][1])][2]

\* The chains' rules about marks; a target names a rule set of the
\* configuration, whose rules or empty policy decide.
natOutgoing == <<  <<"TRUSTED", "accept">>, <<"AUTHENTICATED", "accept">>,
                   <<"any", "redirect">> >>
ToRouter == << <<"BLOCKED", "drop">>, <<"any", "splash">> >>
ToInternet == << <<"BLOCKED", "drop">>, <<"TRUSTED", "trusted-users">>,
                 <<"AUTHENTICATED", "authenticated-users">>,
                 <<"any", "preauthenticated-users">> >>

\* A web request is redirected to the gateway's own server or sent on.
WebVerdict(mac) ==
    IF FirstTarget(natOutgoing, PREROUTING(mac)) = "redirect"
    THEN FirstTarget(ToRouter, PREROUTING(mac))
    ELSE FirstTarget(ToInternet, PREROUTING(mac))
Verdict(mac) == FirstTarget(ToInternet, PREROUTING(mac))

----------------------------------------------------------------------------
\* The chain of blocked packets holds the rules of one mechanism only.
TypeOK == /\ phase \in {"config", "running"}
          /\ macmechanism \in {"block", "allow"}
          /\ maclist \in [List -> SUBSET MAC]
          /\ orMark \in BOOLEAN /\ masked \in BOOLEAN
          /\ chainTrusted \in Seq({MarkRule(mac) : mac \in MAC})
          /\ chainBlocked \in Seq(IF macmechanism = "block"
                                 THEN {MarkRule(mac) : mac \in MAC}
                                 ELSE {ReturnRule(mac) : mac \in MAC} \cup {MarkRule(Everyone)})
          /\ authenticated \subseteq MAC
          /\ answer \in {NULL} \cup [op : {"add", "remove"}, list : List, mac : MAC]
          /\ failed \subseteq List \X MAC

\* MACs whose rules no failed command has touched.
Intact == {mac \in MAC : \A l \in List : <<l, mac>> \notin failed}

\* The addresses the operator wants blocked, whatever the mechanism.
Blocked == IF macmechanism = "block" THEN maclist["blocked"] ELSE MAC \ maclist["allowed"]
Trusted == maclist["trusted"]

Copies(l, mac) == Cardinality({i \in DOMAIN ChainOf(l) : ChainOf(l)[i] = RuleOf(l, mac)})

\* The chains hold one rule for each listed MAC and none for the others, so
\* that a command is undone by its opposite; a command that fails disturbs
\* this for its own MAC and list only.
ChainsMatchLists ==
    phase = "running" =>
        \A l \in List, mac \in MAC :
            InUse(l) /\ <<l, mac>> \notin failed =>
                Copies(l, mac) = IF mac \in maclist[l] THEN 1 ELSE 0

\* Nobody gets through on somebody else's account: the rules of authenticated
\* users apply to authenticated clients, those of trusted users to trusted
\* MACs, and the former never to blocked MACs; on every kernel, whichever mark
\* options it supports, and whatever commands failed for other MACs.
AccessIsGranted ==
    phase = "running" =>
        \A mac \in Intact : \A v \in {Verdict(mac), WebVerdict(mac)} :
            /\ v = "authenticated-users" => mac \in authenticated \ Blocked
            /\ v = "trusted-users" => mac \in Trusted

\* And it is granted where nothing forbids it, when the kernel masks marks: an
\* authenticated client gets its rules, a trusted MAC its own.
GrantedHasAccess ==
    phase = "running" /\ masked =>
        \A mac \in Intact \ Blocked :
            /\ mac \in authenticated \ Trusted =>
                   {Verdict(mac), WebVerdict(mac)} = {"authenticated-users"}
            /\ mac \in Trusted \ authenticated =>
                   {Verdict(mac), WebVerdict(mac)} = {"trusted-users"}

\* What ndsctl reports ("MAC %s unblocked." and so on) is so, unless an earlier
\* command for the same list and MAC failed.
YesHolds ==
    answer # NULL /\ <<answer.list, answer.mac>> \notin failed =>
        (HasRule(answer.list, answer.mac) <=> answer.op = "add")

\* "MAC addresses who will be completely blocked from the GatewayInterface"
\* (wificat.conf:266-267): where marks can be masked, packets of a MAC that is
\* blocked and not trusted are dropped.
BlockedIsDropped ==
    phase = "running" /\ masked =>
        \A mac \in (Intact \cap Blocked) \ Trusted :
            {Verdict(mac), WebVerdict(mac)} = {"drop"}
============================================================================
