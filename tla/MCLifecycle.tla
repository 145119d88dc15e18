---------------------------- MODULE MCLifecycle ----------------------------
(* A small instance of Lifecycle: the main thread and one other, another    *)
(* program's rules in three of the kernel's chains, and two configurations, *)
(* a plain one and one with traffic control.                                *)
EXTENDS Lifecycle

CONSTANT w1

OneWorker == {w1}

Plain == [rulesets |-> {"preauthenticated-users"},
          macs |-> {"mangle BLOCKED"}, set_mss |-> TRUE, traffic_control |-> FALSE,
          limited |-> {}, up |-> {}]
Shaped == [rulesets |-> {}, macs |-> {}, set_mss |-> FALSE, traffic_control |-> TRUE,
           limited |-> {"upload"}, up |-> {"upload"}]

TwoConfigurations == {Plain, Shaped}
BlockedChain == {"mangle BLOCKED"}

OtherRules == {"other", "another"}

OthersRules ==
    [c \in BuiltIn |-> CASE c = "mangle PREROUTING" -> <<"other", "another">>
                         [] c = "filter FORWARD" -> <<"other">>
                         [] c = "filter INPUT" -> <<"other">>
                         [] OTHER -> <<>>]
============================================================================
