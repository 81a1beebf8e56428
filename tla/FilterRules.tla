---------------------------- MODULE FilterRules ----------------------------
(***************************************************************************)
(* internal/rules: what a compiled rule set says of one host or command,   *)
(* and how internal/mode turns that into a verdict.  Pure definitions.     *)
(*                                                                         *)
(* A rule's pattern is abstracted to the set of subjects its regular       *)
(* expression matches; a rule without a pattern of the kind asked for is   *)
(* skipped by the engine, as one that matches nothing is.                  *)
(***************************************************************************)
EXTENDS Integers, Sequences, FiniteSetsExt

CONSTANTS
    Subjects,    \* the hosts (or commands) that occur
    Tiers,       \* the agent tiers that occur
    Commodore,   \* the tier "commodore"
    NoTier,      \* the empty tier of the calls without tier awareness
    Default      \* defaultAction: "allow" or "block"

ASSUME FilterAssumption ==
    /\ Default \in {"allow", "block"}
    /\ NoTier \notin Tiers

Rule == [matches : SUBSET Subjects, action : {"allow", "block"},
         tiers : SUBSET Tiers, enabled : BOOLEAN]

Modes == {"enforce", "audit", "lockdown"}

\* A block rule spares the commodore unless it lists that tier; otherwise an
\* empty list stands for every tier.
AppliesToTier(rule, tier) ==
    IF tier = Commodore /\ rule.action = "block"
    THEN Commodore \in rule.tiers
    ELSE rule.tiers = {} \/ tier \in rule.tiers

Applicable(rule, subject, tier) ==
    /\ rule.enabled
    /\ subject \in rule.matches
    /\ tier = NoTier \/ AppliesToTier(rule, tier)

\* CheckDomainWithTier and CheckCommandWithTier: the first applicable rule
\* decides, and the default action if there is none.
Allowed(rules, subject, tier) ==
    LET applicable == {i \in DOMAIN rules : Applicable(rules[i], subject, tier)}
    IN  IF applicable = {} THEN Default # "block"
        ELSE rules[Min(applicable)].action # "block"

\* Mutant: only a lockdown blocks.
VerdictOfLockdown(mode, ruleMatched) == mode = "lockdown"

\* mode.Manager.ShouldBlock, once it has the agent's mode.
Verdict(mode, ruleMatched) ==
    CASE mode = "audit"    -> FALSE
      [] mode = "lockdown" -> TRUE
      [] OTHER             -> ruleMatched

=============================================================================
