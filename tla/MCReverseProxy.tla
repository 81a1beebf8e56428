--------------------------- MODULE MCReverseProxy ---------------------------
(* Two tenants, a configuration file with every kind of repetition, and    *)
(* agents of which one keeps its place and the others do not.              *)
EXTENDS ReverseProxy

CONSTANTS t1, t2, a1, a2, a3, ip1, ip2, hook1, captain1, k1, k2

Entry(i, ip, hook, tier) == [id |-> i, ip |-> ip, hook |-> hook, tier |-> tier]
At(t, i, ip, hook) == [tenant |-> t, agent |-> Entry(i, ip, hook, Crew)]
From(t, i) == [tenant |-> t, id |-> i]

\* a1 changes its tenant and its endpoint, a2 takes over its address, a3 may
\* be added again and keeps its place.
MCAdds == {At(t1, a1, ip1, NoHook), At(t2, a1, NoIP, hook1), At(t1, a2, ip1, NoHook),
           At(t1, a3, ip2, NoHook), At(t1, a3, ip2, hook1)}
MCRemoves == {From(t1, a1), From(t2, a1), From(t1, a2), From(t1, a3)}

\* Tenant t2 has two blocks, a1 an entry in both tenants, k1 two registrations.
Repetitive ==
    [tenants |-> <<[id |-> t2, captain |-> captain1, mode |-> "fleet",
                    agents |-> <<Entry(a1, NoIP, hook1, NoTier)>>],
                   [id |-> t1, captain |-> captain1, mode |-> "fleet",
                    agents |-> <<Entry(a1, ip1, NoHook, NoTier), Entry(a2, ip1, NoHook, Crew),
                                 Entry(a3, ip2, NoHook, NoTier), Entry(a3, ip2, hook1, NoTier)>>],
                   [id |-> t2, captain |-> None, mode |-> "open", agents |-> << >>]>>,
     tokens |-> <<[token |-> k1, tenant |-> t2], [token |-> k1, tenant |-> t1],
                  [token |-> k2, tenant |-> t2]>>]

MCConfigs == {Repetitive}
MCEnvironment == <<[token |-> k1, tenant |-> t1]>>

=============================================================================
