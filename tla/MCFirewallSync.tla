-------------------------- MODULE MCFirewallSync --------------------------
(* Instances of FirewallSync: two rules on any of the three backends.      *)
EXTENDS FirewallSync, TLC

CONSTANTS r1, r2

MCRules == {r1, r2}
RuleSymmetry == Permutations(MCRules)
=============================================================================
