-------------------------- MODULE MCBastionSessions --------------------------
(* Two sessions of one user, each on a connection of its own.              *)
EXTENDS BastionSessions

CONSTANTS alice, host, c1, c2, s1, s2

MCDurations == {1}
MCUser == [c \in Conns |-> alice]
MCConnOf == [s \in Sessions |-> IF s = s1 THEN c1 ELSE c2]
MCDest == [s \in Sessions |-> host]

=============================================================================
