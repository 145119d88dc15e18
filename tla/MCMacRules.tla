---------------------------- MODULE MCMacRules ----------------------------
(* Two MACs: one that the commands are about and one that they are not.    *)
EXTENDS MacRules

CONSTANTS m1, m2

TwoMACs == {m1, m2}
Symmetry == Permutations(TwoMACs)
============================================================================
