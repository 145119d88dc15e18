------------------------------ MODULE FwChains ------------------------------
(***************************************************************************)
(* The chains and queueing disciplines that wifi-cat makes in the kernel,  *)
(* and the commands that make and remove them: iptables_fw_init(),         *)
(* iptables_fw_destroy() of fw_iptables.c and tc.c, as the sequences of    *)
(* commands that they run in a given configuration, and what the kernel    *)
(* does with one.  Lifecycle runs the sequences.                           *)
(*                                                                         *)
(* A rule is its target: a chain of wifi-cat's, "rule" for any other of    *)
(* its rules, "test" for the two it tries the kernel with, "client" and    *)
(* "mac" for those added while it serves, or the name of a rule that       *)
(* belongs to another program.                                             *)
(***************************************************************************)
EXTENDS Naturals, Sequences, SequencesExt

CONSTANT OtherRule              \* the rules of other programs

\* The chains of fw_iptables.h.  A chain is named with its table, since
\* CHAIN_TRUSTED is in two tables and CHAIN_OUTGOING too.
MangleChain == {"mangle TRUSTED", "mangle BLOCKED", "mangle ALLOWED",
                "mangle OUTGOING", "mangle INCOMING"}
FilterChain == {"TO_ROUTER", "TO_INTERNET", "AUTHENTICATED", "TRUSTED",
                "TRUSTED_TO_ROUTER"}
OwnChain == MangleChain \cup {"nat OUTGOING"} \cup FilterChain

\* The kernel's chains that jump to them, and the two imq devices.
BuiltIn == {"mangle PREROUTING", "mangle POSTROUTING", "nat PREROUTING",
            "filter INPUT", "filter FORWARD"}
Imq == {"download", "upload"}

Chain == OwnChain \cup BuiltIn \cup Imq

OwnRule == OwnChain \cup {"rule", "test", "client", "mac", "class 1", "class 2", "filter"}
Rule == OwnRule \cup OtherRule

ASSUME RuleAssumption == OwnRule \cap OtherRule = {}

\* The kernel: which chains exist (a device exists here when it has a
\* qdisc) and the rules of each (of a device: its classes and filters).
Kernel == [chains : SUBSET Chain, rules : [Chain -> Seq(Rule)]]

EmptyKernel(others) ==
    [chains |-> BuiltIn,
     rules  |-> [c \in Chain |-> IF c \in BuiltIn THEN others[c] ELSE <<>>]]

----------------------------------------------------------------------------
(* Commands.  "must": a failure counts in the return code of the function  *)
(* that runs the command.  "skip": how many of the commands that follow    *)
(* are left out when it fails.                                             *)

Command(op, on, at, to) ==
    [op |-> op, on |-> on, at |-> at, to |-> to, must |-> TRUE, skip |-> 0]
Unchecked(cmd) == [cmd EXCEPT !.must = FALSE]

New(c) == Command("-N", c, 0, "")
Insert(c, n, t) == Command("-I", c, n, t)
AppendRule(c, t) == Command("-A", c, 0, t)
Flush(c) == Unchecked(Command("-F", c, 0, ""))
DeleteChain(c) == Unchecked(Command("-X", c, 0, ""))
DeleteNth(c, n) == Unchecked(Command("-D", c, n, ""))
DeleteRule(c, t) == Command("-D rule", c, 0, t)

\* iptables_fw_destroy_mention(): see Lifecycle.
Unmention(c, t) == Command("mention", c, 0, t)

\* Not commands: LOCK_CONFIG() and UNLOCK_CONFIG() stand in the sequences
\* at the place where the code takes and releases config_mutex.
Lock == Command("lock", "", 0, "")
Unlock == Command("unlock", "", 0, "")

\* The position of the first rule with target t, 0 if there is none.
Mention(k, c, t) == SelectInSeq(k.rules[c], LAMBDA r : r = t)

\* Whether the kernel can carry a command out.  A chain must be new to be
\* made, and be empty and not jumped to in order to be deleted; a target
\* must exist; a rule is inserted at most one place past the end.  A class
\* is not deleted while a filter sends packets to it.
Unreferenced(k, c) == \A d \in Chain : Mention(k, d, c) = 0

Accepts(k, cmd) ==
    CASE cmd.op = "-N"      -> cmd.on \notin k.chains
      [] cmd.op = "-I"      -> /\ cmd.on \in k.chains
                               /\ cmd.to \in OwnChain => cmd.to \in k.chains
                               /\ cmd.at <= Len(k.rules[cmd.on]) + 1
      [] cmd.op = "-A"      -> /\ cmd.on \in k.chains
                               /\ cmd.to \in OwnChain => cmd.to \in k.chains
      [] cmd.op = "-F"      -> cmd.on \in k.chains
      [] cmd.op = "-X"      -> /\ cmd.on \in k.chains
                               /\ k.rules[cmd.on] = <<>>
                               /\ Unreferenced(k, cmd.on)
      [] cmd.op = "-D"      -> cmd.at <= Len(k.rules[cmd.on])
      [] cmd.op = "-D rule" -> Mention(k, cmd.on, cmd.to) > 0
      [] cmd.op = "qdisc del" -> cmd.on \in k.chains
      [] cmd.op = "class add" -> /\ cmd.on \in k.chains
                                 /\ Mention(k, cmd.on, cmd.to) = 0
      [] cmd.op = "class del" -> /\ Mention(k, cmd.on, cmd.to) > 0
                                 /\ Mention(k, cmd.on, "filter") = 0
      [] cmd.op = "no link" -> FALSE
      [] OTHER -> TRUE

Effect(k, cmd) ==
    LET c == cmd.on
        WithRules(s) == [k EXCEPT !.rules[c] = s]
    IN CASE cmd.op = "-N"      -> [k EXCEPT !.chains = @ \cup {c}]
         [] cmd.op = "-I"      -> WithRules(InsertAt(k.rules[c], cmd.at, cmd.to))
         [] cmd.op \in {"-A", "class add"} -> WithRules(Append(k.rules[c], cmd.to))
         [] cmd.op = "-F"      -> WithRules(<<>>)
         [] cmd.op = "-X"      -> [k EXCEPT !.chains = @ \ {c}]
         [] cmd.op = "-D"      -> WithRules(RemoveAt(k.rules[c], cmd.at))
         [] cmd.op \in {"-D rule", "class del"} ->
                WithRules(RemoveAt(k.rules[c], Mention(k, c, cmd.to)))
         [] cmd.op = "qdisc del" -> [WithRules(<<>>) EXCEPT !.chains = @ \ {c}]
         [] OTHER -> k

----------------------------------------------------------------------------
(* A configuration c: the rule sets that are not empty (the rules of one   *)
(* are one here), whether a MAC is trusted or blocked, set_mss,       *)
(* traffic_control, the devices with a limit above 0, and those that       *)
(* "ip link set ... up" brings up.                                         *)
RuleSet == {"trusted-users", "trusted-users-to-router", "users-to-router",
            "authenticated-users", "preauthenticated-users"}
Configuration == [rulesets : SUBSET RuleSet, macs : SUBSET {"mangle TRUSTED", "mangle BLOCKED"},
                  set_mss : BOOLEAN, traffic_control : BOOLEAN,
                  limited : SUBSET Imq, up : SUBSET Imq]

When(b, s) == IF b THEN s ELSE <<>>

\* The kernel is tried out with a rule at the top of a chain, which is
\* deleted by its number if it could be inserted.
TryRuleAlwaysDeletes(c) == <<Unchecked(Insert(c, 1, "test")), DeleteNth(c, 1)>>   \* a wrong TryRule
TryRule(c) == <<[Unchecked(Insert(c, 1, "test")) EXCEPT !.skip = 1], DeleteNth(c, 1)>>

_iptables_check_mark_masking ==
    TryRule("mangle PREROUTING") \o TryRule("filter FORWARD")

_iptables_append_ruleset(c, ruleset, chain) ==
    When(ruleset \in c.rulesets, <<AppendRule(chain, "rule")>>)

\* A rule set that is empty gives its policy as one rule; otherwise a
\* chain of its own is filled and jumped to.
JumpOrPolicy(c, from, ruleset, chain) ==
    IF ruleset \notin c.rulesets THEN <<AppendRule(from, "rule")>>
    ELSE <<AppendRule(from, chain), AppendRule(chain, "rule")>>
         \o _iptables_append_ruleset(c, ruleset, chain)
         \o <<AppendRule(chain, "rule")>>

\* A device is brought up, packets are sent to it, and it gets a qdisc with
\* a class for all packets and one for those of no client.  A download
\* device that does not come up is passed over, an upload device fails.
Class(dev, name) == Command("class add", dev, 0, name)
tc_attach_qdisc(dev) == <<New(dev), Class(dev, "class 1"), Class(dev, "class 2")>>
LinkUp(c, dev) ==
    [Command(IF dev \in c.up THEN "link" ELSE "no link", dev, 0, "")
     EXCEPT !.must = (dev = "upload"), !.skip = 4]
tc_init_tc(c) ==
    When("download" \in c.limited,
         <<LinkUp(c, "download"), AppendRule("mangle INCOMING", "rule")>> \o tc_attach_qdisc("download"))
    \o When("upload" \in c.limited,
         <<LinkUp(c, "upload"), AppendRule("mangle OUTGOING", "rule")>> \o tc_attach_qdisc("upload"))

\* Rules that are appended to one chain in a row whatever the
\* configuration are one command here.
MangleInit(c) ==
    <<New("mangle TRUSTED"), New("mangle BLOCKED"), New("mangle INCOMING"), New("mangle OUTGOING"),
      Insert("mangle PREROUTING", 1, "mangle OUTGOING"),
      Insert("mangle PREROUTING", 2, "mangle BLOCKED"),
      Insert("mangle PREROUTING", 3, "mangle TRUSTED"),
      Insert("mangle POSTROUTING", 1, "mangle INCOMING")>>
    \o When("mangle TRUSTED" \in c.macs, <<AppendRule("mangle TRUSTED", "rule")>>)
    \o When("mangle BLOCKED" \in c.macs, <<AppendRule("mangle BLOCKED", "rule")>>)
    \o When(c.traffic_control, tc_init_tc(c))

NatInit(c) ==
    <<New("nat OUTGOING"), Insert("nat PREROUTING", 1, "nat OUTGOING"),
      AppendRule("nat OUTGOING", "rule")>>
    \o _iptables_append_ruleset(c, "preauthenticated-users", "nat OUTGOING")
    \o <<AppendRule("nat OUTGOING", "rule")>>

RouterInit(c) ==
    <<New("TO_INTERNET"), New("TO_ROUTER"), New("AUTHENTICATED"), New("TRUSTED"),
      New("TRUSTED_TO_ROUTER"), Insert("filter INPUT", 1, "TO_ROUTER"),
      AppendRule("TO_ROUTER", "rule")>>
    \o JumpOrPolicy(c, "TO_ROUTER", "trusted-users-to-router", "TRUSTED_TO_ROUTER")
    \o _iptables_append_ruleset(c, "users-to-router", "TO_ROUTER")
    \o <<AppendRule("TO_ROUTER", "rule")>>

InternetInit(c) ==
    <<Insert("filter FORWARD", 1, "TO_INTERNET"), AppendRule("TO_INTERNET", "rule")>>
    \o When(c.set_mss, <<AppendRule("TO_INTERNET", "rule")>>)
    \o JumpOrPolicy(c, "TO_INTERNET", "trusted-users", "TRUSTED")
    \o JumpOrPolicy(c, "TO_INTERNET", "authenticated-users", "AUTHENTICATED")
    \o <<AppendRule("TO_INTERNET", "rule")>>

fw_init(c) ==
    <<Lock, Unlock>> \o _iptables_check_mark_masking
    \o MangleInit(c) \o NatInit(c) \o RouterInit(c) \o InternetInit(c)

----------------------------------------------------------------------------
(* Clean-up, and the commands for a client and for a MAC. *)

tc_destroy_tc ==
    << Unchecked(Command("qdisc del", "download", 0, "")),
       Unchecked(Command("qdisc del", "upload", 0, "")),
       Unchecked(Command("link", "download", 0, "")),
       Unchecked(Command("link", "upload", 0, "")) >>

MangleOrder == <<"mangle TRUSTED", "mangle BLOCKED", "mangle ALLOWED",
                 "mangle OUTGOING", "mangle INCOMING">>
FilterOrder == <<"TO_ROUTER", "TO_INTERNET", "AUTHENTICATED", "TRUSTED",
                 "TRUSTED_TO_ROUTER">>
FlushAll(order) == [i \in DOMAIN order |-> Flush(order[i])]
RemoveAll(order) == [i \in DOMAIN order |-> DeleteChain(order[i])]

MangleMentions ==
    [i \in 1 .. 4 |-> Unmention("mangle PREROUTING", MangleOrder[i])]
    \o <<Unmention("mangle POSTROUTING", "mangle INCOMING")>>
MangleDestroyUnflushed ==                           \* a wrong MangleDestroy
    MangleMentions \o RemoveAll(MangleOrder) \o FlushAll(MangleOrder)
MangleDestroy ==
    MangleMentions \o FlushAll(MangleOrder) \o RemoveAll(MangleOrder)
NatDestroy ==
    <<Unmention("nat PREROUTING", "nat OUTGOING"), Flush("nat OUTGOING"), DeleteChain("nat OUTGOING")>>
FilterDestroy ==
    <<Unmention("filter INPUT", "TO_ROUTER"), Unmention("filter FORWARD", "TO_INTERNET")>>
    \o FlushAll(FilterOrder) \o RemoveAll(FilterOrder)

fw_destroy(c) ==
    <<Lock, Unlock>> \o When(c.traffic_control, tc_destroy_tc)
    \o MangleDestroy \o NatDestroy \o FilterDestroy

\* iptables_fw_access() for a client, and under traffic control its class
\* and its filter on each device; detaching deletes the classes only.
tc_attach_client ==
    <<Class("download", "client"), AppendRule("download", "filter"),
      Class("upload", "client"), AppendRule("upload", "filter")>>
tc_detach_client ==
    <<Command("class del", "download", 0, "client"), Command("class del", "upload", 0, "client")>>

fw_authenticate(c) ==
    <<Lock, Unlock, AppendRule("mangle OUTGOING", "client"),
      AppendRule("mangle INCOMING", "client"), AppendRule("mangle INCOMING", "client")>>
    \o When(c.traffic_control, tc_attach_client)
fw_deauthenticate(c) ==
    <<Lock, Unlock, DeleteRule("mangle OUTGOING", "client"),
      DeleteRule("mangle INCOMING", "client"), DeleteRule("mangle INCOMING", "client")>>
    \o When(c.traffic_control, tc_detach_client)

\* ndsctl block and trust: config_mutex is held while the command runs.
ndsctl_macKeepsMutex(chain) == <<Lock, AppendRule(chain, "mac")>>    \* a wrong ndsctl_mac
ndsctl_mac(chain) == <<Lock, AppendRule(chain, "mac"), Unlock>>
============================================================================
