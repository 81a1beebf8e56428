--------------------------- MODULE MCFleetManager ---------------------------
(* The fleet manager alone, with the calls that move one agent to another  *)
(* address.                                                                *)
EXTENDS FleetManager

CONSTANTS t1, t2, a1, a2, ip1, ip2, captain1

At(t, i, ip) ==
    [tenant |-> t, agent |-> [id |-> i, ip |-> ip, hook |-> NoHook, tier |-> NoTier]]

ReaddressedAdds == {At(t1, a1, ip1), At(t1, a1, ip2)}
ReaddressedRemoves == {[tenant |-> t1, id |-> a1], [tenant |-> t1, id |-> a2]}

=============================================================================
