-------------------------- MODULE MCManagementApi --------------------------
(* Agents, one of which the store may never hear of, and two commands.     *)
EXTENDS ManagementApi, TLC

CONSTANTS a1, a2, run, rm

MCNoRules == {}

\* One agent.
MCFilters == {{a} : a \in Agents}

MCRuleBodies == { [matches |-> {rm}, action |-> "block", enabled |-> TRUE],
                  [matches |-> {run}, action |-> "block", enabled |-> FALSE] }

\* The agents are alike.
MCSymmetry == Permutations(Agents)

=============================================================================
