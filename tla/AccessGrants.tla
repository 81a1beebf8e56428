---------------------------- MODULE AccessGrants ----------------------------
(***************************************************************************)
(* What internal/bastion promises of its grants, with no file, no mutex    *)
(* and no process that can die: a table that changes only when a grant is  *)
(* issued under an ID that is not in use, when a grant is revoked, or when *)
(* grants that can no longer authorise anything are swept out.             *)
(***************************************************************************)
EXTENDS Grants

VARIABLES
    clock,    \* the time the store's clock reports
    table     \* the grants in force, by ID

vars == <<clock, table>>

Init == clock \in Time /\ table = EmptyTable

Tick == clock < MaxTime /\ clock' = clock + 1 /\ UNCHANGED table

\* The grant runs from its stamp, which the clock may have left behind by the
\* time the grant takes effect.
Issue(id, p, t, d) ==
    /\ id \notin DOMAIN table
    /\ id[1] <= clock
    /\ table' = [i \in DOMAIN table \cup {id} |->
                    IF i = id THEN NewGrant(p, t, d, id[1]) ELSE table[i]]
    /\ UNCHANGED clock

Keep(ids) == table' = [i \in DOMAIN table \cap ids |-> table[i]] /\ UNCHANGED clock

Revoke(id) == id \in DOMAIN table /\ Keep(DOMAIN table \ {id})

Sweep == \E ids \in SUBSET DOMAIN table :
            /\ \A id \in DOMAIN table \ ids : Expired(table[id], clock)
            /\ Keep(ids)

Next ==
    \/ Tick
    \/ \E id \in GrantId, p \in Principals, t \in Targets \cup {Any}, d \in Durations :
            Issue(id, p, t, d)
    \/ \E id \in DOMAIN table : Revoke(id)
    \/ Sweep

Spec == Init /\ [][Next]_vars

=============================================================================
