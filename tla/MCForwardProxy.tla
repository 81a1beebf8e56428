--------------------------- MODULE MCForwardProxy ---------------------------
(* The forward proxy on instances small enough for TLC: one host that the  *)
(* rules are about, and a rule file that is edited while requests run.     *)
EXTENDS ForwardProxy

CONSTANTS host, crew, captain, a1, a2, crewIP, captainIP, commodoreIP, strangeIP

MCTiers == {crew, captain, Commodore}

\* One address per tier, and one nobody registered.
MCRegistry == [s \in Sources |-> CASE s = crewIP      -> crew
                                   [] s = captainIP   -> captain
                                   [] s = commodoreIP -> Commodore
                                   [] OTHER           -> Unregistered]

BlockAll  == [matches |-> {host}, action |-> "block", tiers |-> {}, enabled |-> TRUE]
BlockCrew == [BlockAll EXCEPT !.tiers = {crew}]
AllowAll  == [BlockAll EXCEPT !.action = "allow"]
Off       == [BlockAll EXCEPT !.enabled = FALSE]

\* A strict file, one with a syntax error, one that blocks only the crew (the
\* allow rule after it decides for the captain), and one that blocks nobody.
MCRuleFiles == << <<BlockAll>>, Invalid, <<Off, BlockCrew, AllowAll>>, <<AllowAll, BlockAll>> >>

=============================================================================
