-------------------------- MODULE MCBastionServer --------------------------
(* Two users and a connection of each.                                     *)
EXTENDS BastionServer

CONSTANTS alice, bob, c1, c2

MCDurations == {1}
\* One certificate of another signer, without names.
MCForeignCerts == {[signer |-> Foreign, principals |-> {}, from |-> 0, until |-> 1]}
MCUser == [c \in Conns |-> IF c = c1 THEN alice ELSE bob]

=============================================================================
