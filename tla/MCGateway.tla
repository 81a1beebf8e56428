----------------------------- MODULE MCGateway -----------------------------
(* One user, one destination, one grant made through the API.              *)
EXTENDS Gateway

CONSTANTS alice, host, c1, s1

MCDurations == {1}
MCUser == [c \in Conns |-> alice]
MCConnOf == [s \in Sessions |-> c1]
MCDest == [s \in Sessions |-> host]

=============================================================================
