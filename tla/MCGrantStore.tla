---------------------------- MODULE MCGrantStore ----------------------------
(* The grant store on instances small enough for TLC.                      *)
EXTENDS GrantStore

\* Every grant runs out one unit after its stamp.
MCDurations == {1}

=============================================================================
