--------------------------- MODULE MCRuleMatcher ---------------------------
(* One letter, in both cases.                                              *)
EXTENDS RuleMatcher

MCLowerCase == [A |-> "a"]

=============================================================================
