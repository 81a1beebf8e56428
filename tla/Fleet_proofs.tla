----------------------------- MODULE Fleet_proofs -----------------------------
(***************************************************************************)
(* Proofs about the fleet, for every set of tenants, agents and addresses, *)
(* every configuration file and every set of calls: first about the        *)
(* manager alone (FleetManager), then about the loading of a file          *)
(* (FleetConfig) and about a request that is served while the manager is   *)
(* called (ReverseProxy), which both are the manager with more around it.  *)
(***************************************************************************)
EXTENDS ReverseProxy, SequenceTheorems, TLAPS

-----------------------------------------------------------------------------
(* Type correctness.                                                       *)

\* A change of the fleet keeps the types.
LEMMA ChangeType == ASSUME TypeOK, Next PROVE TypeOK'
<1> USE FleetAssumption DEF TypeOK, FleetModes
<1>1. ASSUME NEW t \in Tenants, CreateTenant(t) PROVE TypeOK'
  <2>1. \A s \in Tenants : agents'[s] = IF s = t THEN [i \in AgentIds |-> None] ELSE agents[s]
    BY <1>1 DEF CreateTenant
  <2> QED
    BY <1>1, <2>1 DEF CreateTenant
<1>2. ASSUME NEW t \in Tenants, NEW n \in Names, SetCaptainName(t, n) PROVE TypeOK'
  BY <1>2 DEF SetCaptainName, GetMode, Exists
<1>3. ASSUME NEW t \in Tenants, NEW m \in FleetModes, SetMode(t, m) PROVE TypeOK'
  BY <1>3 DEF SetMode
<1>4. ASSUME NEW x \in Adds, AddAgent(x.tenant, x.agent) PROVE TypeOK'
  <2>1. x.tenant \in Tenants /\ x.agent \in Agent
    OBVIOUS
  <2>2. x.agent.id \in AgentIds /\ x.agent.ip \in IPs \cup {NoIP}
    BY <2>1 DEF Agent
  <2>3. agents' \in [Tenants -> [AgentIds -> Agent \cup {None}]]
    BY <1>4, <2>1, <2>2 DEF AddAgent
  <2>4. byIP' \in [IPs -> Agent \cup {None}]
    BY <1>4, <2>1, <2>2 DEF AddAgent
  <2>5. mode' \in [Tenants -> FleetModes \cup {None}]
    BY <1>4, <2>1 DEF AddAgent, GetMode, Exists
  <2>6. \A s \in Tenants, i \in AgentIds : agents'[s][i] # None => agents'[s][i].id = i
    BY <1>4, <2>1, <2>2 DEF AddAgent
  <2>7. tenantOf' \in [AgentIds -> Tenants \cup {None}]
    BY <1>4, <2>1, <2>2 DEF AddAgent
  <2> QED
    BY <1>4, <2>3, <2>4, <2>5, <2>6, <2>7 DEF AddAgent
<1>5. ASSUME NEW x \in Removes, RemoveAgent(x.tenant, x.id) PROVE TypeOK'
  <2>1. x.tenant \in Tenants /\ x.id \in AgentIds
    OBVIOUS
  <2>2. agents' \in [Tenants -> [AgentIds -> Agent \cup {None}]]
    BY <1>5, <2>1 DEF RemoveAgent
  <2>3. byIP' \in [IPs -> Agent \cup {None}]
    BY <1>5, <2>1 DEF RemoveAgent
  <2>4. \A s \in Tenants, i \in AgentIds : agents'[s][i] # None => agents'[s][i].id = i
    BY <1>5, <2>1 DEF RemoveAgent
  <2> QED
    BY <1>5, <2>1, <2>2, <2>3, <2>4 DEF RemoveAgent
<1> QED
  BY <1>1, <1>2, <1>3, <1>4, <1>5 DEF Next

\* Every map keeps its type, and an entry is found under its own ID.
THEOREM TypeCorrect == Spec => []TypeOK
<1>1. Init => TypeOK
  BY FleetAssumption DEF Init, TypeOK, FleetModes
<1>2. TypeOK /\ [Next]_vars => TypeOK'
  <2> SUFFICES ASSUME TypeOK, [Next]_vars PROVE TypeOK'
    OBVIOUS
  <2>1. CASE Next
    BY <2>1, ChangeType
  <2>2. CASE UNCHANGED vars
    BY <2>2 DEF vars, TypeOK
  <2> QED
    BY <2>1, <2>2
<1> QED
  BY <1>1, <1>2, PTL DEF Spec

-----------------------------------------------------------------------------
(* The three maps.  That they agree about one agent is not inductive: any  *)
(* entry, in a tenant or in the address index, must also be one that some  *)
(* AddAgent may put there, so that what is known of the calls speaks of    *)
(* it, and a tenant that does not exist must be empty, since CreateTenant  *)
(* empties it without a look at the indexes.                               *)

HasAgent(t, i) == agents[t][i] # None

FromAdds == \A t \in Tenants, i \in AgentIds :
    HasAgent(t, i) => [tenant |-> t, agent |-> agents[t][i]] \in Adds

IndexedFromAdds == \A ip \in IPs : byIP[ip] # None =>
    /\ byIP[ip].ip = ip
    /\ \E t \in Tenants : [tenant |-> t, agent |-> byIP[ip]] \in Adds

NoTenantNoAgents == \A t \in Tenants : mode[t] = None => \A i \in AgentIds : ~ HasAgent(t, i)

\* What holds of every entry.
EntriesInv == FromAdds /\ IndexedFromAdds /\ NoTenantNoAgents

TenantIndex(i) == \A t \in Tenants : HasAgent(t, i) <=> tenantOf[i] = t

IndexedIsHeld(i) == \A ip \in IPs : byIP[ip] # None /\ byIP[ip].id = i =>
    \E t \in Tenants : agents[t][i] = byIP[ip]

HeldIsIndexed(i) == \A t \in Tenants :
    HasAgent(t, i) /\ agents[t][i].ip # NoIP => byIP[agents[t][i].ip] = agents[t][i]

\* What holds of an agent that keeps its place.
PlaceInv(i) == TenantIndex(i) /\ IndexedIsHeld(i) /\ HeldIsIndexed(i)

\* Types of an entry, for the steps below.
LEMMA EntryType ==
    ASSUME TypeOK, NEW t \in Tenants, NEW i \in AgentIds, HasAgent(t, i)
    PROVE  agents[t][i] \in Agent /\ agents[t][i].id = i /\ agents[t][i].ip \in IPs \cup {NoIP}
  BY DEF TypeOK, HasAgent, Agent

\* The same of an entry of the address index.
LEMMA IndexedType ==
    ASSUME TypeOK, NEW ip \in IPs, byIP[ip] # None
    PROVE  byIP[ip] \in Agent /\ byIP[ip].id \in AgentIds
  BY DEF TypeOK, Agent

\* An agent that keeps its place has one tenant and one address, which is no
\* other agent's.
LEMMA OnePlace ==
    ASSUME NEW i \in AgentIds, Keeps(i), NEW x \in Adds, x.agent.id = i, NEW y \in Adds
    PROVE  /\ x.tenant \notin Recreates
           /\ y.agent.id = i => y.tenant = x.tenant /\ y.agent.ip = x.agent.ip
           /\ y.agent.ip = x.agent.ip /\ x.agent.ip # NoIP => y.agent.id = i
  BY DEF Keeps

\* Its entry is one of those calls.
LEMMA PlaceOfHeld ==
    ASSUME TypeOK, EntriesInv, NEW i \in AgentIds, Keeps(i), NEW t \in Tenants, HasAgent(t, i)
    PROVE  /\ t \notin Recreates
           /\ \A y \in Adds :
                /\ y.agent.id = i => y.tenant = t /\ y.agent.ip = agents[t][i].ip
                /\ y.agent.ip = agents[t][i].ip /\ agents[t][i].ip # NoIP => y.agent.id = i
           /\ \A y \in Removes : y.id = i => y.tenant = t
<1> DEFINE x == [tenant |-> t, agent |-> agents[t][i]]
<1>1. x \in Adds /\ x.tenant = t /\ x.agent = agents[t][i] /\ x.agent.id = i
  BY EntryType DEF EntriesInv, FromAdds
<1> HIDE DEF x
<1> QED
  BY <1>1 DEF Keeps

\* What a step does to the entries of all agents: it keeps them among those
\* that may be added, and none is in a tenant that does not exist.
LEMMA EntriesStep == ASSUME TypeOK, EntriesInv, [Next]_vars PROVE EntriesInv'
<1> USE FleetAssumption DEF EntriesInv, FromAdds, IndexedFromAdds, NoTenantNoAgents, HasAgent
<1>1. ASSUME NEW t \in Tenants, CreateTenant(t) PROVE EntriesInv'
  <2>1. \A u \in Tenants, i \in AgentIds :
          agents'[u][i] = IF u = t THEN None ELSE agents[u][i]
    BY <1>1 DEF CreateTenant, TypeOK
  <2>2. \A u \in Tenants : mode'[u] = None => mode[u] = None
    BY <1>1 DEF CreateTenant, TypeOK, FleetModes
  <2> QED
    BY <1>1, <2>1, <2>2 DEF CreateTenant
<1>2. ASSUME NEW t \in Tenants, NEW n \in Names, SetCaptainName(t, n) PROVE EntriesInv'
  <2>1. \A u \in Tenants : mode'[u] = None => mode[u] = None
    BY <1>2 DEF SetCaptainName, GetMode, Exists, TypeOK
  <2> QED
    BY <1>2, <2>1 DEF SetCaptainName
<1>3. ASSUME NEW t \in Tenants, NEW m \in FleetModes, SetMode(t, m) PROVE EntriesInv'
  <2>1. \A u \in Tenants : mode'[u] = None => mode[u] = None
    BY <1>3 DEF SetMode, TypeOK, FleetModes
  <2> QED
    BY <1>3, <2>1 DEF SetMode
<1>4. ASSUME NEW x \in Adds, AddAgent(x.tenant, x.agent) PROVE EntriesInv'
  <2> DEFINE a == x.agent
  <2>1. /\ x.tenant \in Tenants /\ a \in Agent /\ a.id \in AgentIds
        /\ x = [tenant |-> x.tenant, agent |-> a]
    BY DEF Agent
  <2>2. \A t \in Tenants, i \in AgentIds :
          agents'[t][i] = IF t = x.tenant /\ i = a.id THEN a ELSE agents[t][i]
    BY <1>4, <2>1 DEF AddAgent, TypeOK
  <2>3. \A ip \in IPs : byIP'[ip] = IF ip = a.ip THEN a ELSE byIP[ip]
    BY <1>4, <2>1 DEF AddAgent, TypeOK
  <2>4. \A u \in Tenants : mode'[u] = None => mode[u] = None /\ u # x.tenant
    BY <1>4, <2>1 DEF AddAgent, GetMode, Exists, TypeOK, FleetModes
  <2> HIDE DEF a
  <2>5. FromAdds'
    BY <2>1, <2>2
  <2>6. IndexedFromAdds'
    <3> SUFFICES ASSUME NEW ip \in IPs, byIP'[ip] # None
                 PROVE  /\ byIP'[ip].ip = ip
                        /\ \E t \in Tenants : [tenant |-> t, agent |-> byIP'[ip]] \in Adds
      OBVIOUS
    <3>1. CASE ip = a.ip
      BY <2>1, <2>3, <3>1
    <3>2. CASE ip # a.ip
      BY <2>3, <3>2
    <3> QED
      BY <3>1, <3>2
  <2>7. NoTenantNoAgents'
    BY <2>1, <2>2, <2>4
  <2> QED
    BY <2>5, <2>6, <2>7
<1>5. ASSUME NEW x \in Removes, RemoveAgent(x.tenant, x.id) PROVE EntriesInv'
  <2>1. x.tenant \in Tenants /\ x.id \in AgentIds
    OBVIOUS
  <2>2. \A t \in Tenants, i \in AgentIds :
          agents'[t][i] = IF t = x.tenant /\ i = x.id THEN None ELSE agents[t][i]
    BY <1>5, <2>1 DEF RemoveAgent, TypeOK
  <2>3. \A ip \in IPs : byIP'[ip] = None \/ byIP'[ip] = byIP[ip]
    BY <1>5 DEF RemoveAgent, TypeOK
  <2>4. FromAdds'
    BY <2>2
  <2>5. IndexedFromAdds'
    BY <2>3
  <2>6. NoTenantNoAgents'
    BY <1>5, <2>2 DEF RemoveAgent
  <2> QED
    BY <2>4, <2>5, <2>6
<1>6. CASE UNCHANGED vars
  BY <1>6 DEF vars
<1> QED
  BY <1>1, <1>2, <1>3, <1>4, <1>5, <1>6 DEF Next

\* A step that leaves the agent's entries and the indexes alone keeps its place.
LEMMA PlaceSame ==
    ASSUME TypeOK, NEW i \in AgentIds, PlaceInv(i), UNCHANGED <<tenantOf, byIP>>,
           \A t \in Tenants : agents'[t][i] = agents[t][i]
    PROVE  PlaceInv(i)'
<1>0. \A t \in Tenants : HasAgent(t, i)' <=> HasAgent(t, i)
  BY DEF HasAgent
<1>1. TenantIndex(i)'
  BY <1>0 DEF PlaceInv, TenantIndex
<1>2. IndexedIsHeld(i)'
  BY DEF PlaceInv, IndexedIsHeld
<1>3. HeldIsIndexed(i)'
  BY <1>0 DEF PlaceInv, HeldIsIndexed
<1> QED
  BY <1>1, <1>2, <1>3 DEF PlaceInv

\* A tenant that is created again holds no agent that keeps its place.
LEMMA PlaceCreateTenant ==
    ASSUME TypeOK, EntriesInv, NEW i \in AgentIds, Keeps(i), PlaceInv(i),
           NEW t \in Tenants, CreateTenant(t)
    PROVE  PlaceInv(i)'
<1>1. ~ HasAgent(t, i)
  <2>1. CASE mode[t] = None
    BY <2>1 DEF EntriesInv, NoTenantNoAgents
  <2>2. CASE mode[t] # None
    BY <2>2, PlaceOfHeld DEF CreateTenant, Exists
  <2> QED
    BY <2>1, <2>2
<1>2. \A u \in Tenants : agents'[u][i] = agents[u][i]
  BY <1>1 DEF CreateTenant, HasAgent, TypeOK
<1> QED
  BY <1>2, PlaceSame DEF CreateTenant

\* AddAgent of the agent replaces its only entry; AddAgent of another leaves it
\* alone and takes an address that is not the agent's.
LEMMA PlaceAddAgent ==
    ASSUME TypeOK, EntriesInv, NEW i \in AgentIds, Keeps(i), PlaceInv(i),
           NEW x \in Adds, AddAgent(x.tenant, x.agent)
    PROVE  PlaceInv(i)'
<1> DEFINE a == x.agent
<1>1. /\ x.tenant \in Tenants /\ a \in Agent /\ a.id \in AgentIds /\ a # None
      /\ a.ip \in IPs \cup {NoIP}
  BY FleetAssumption DEF Agent
<1>2. \A t \in Tenants :
        agents'[t][i] = IF t = x.tenant /\ i = a.id THEN a ELSE agents[t][i]
  BY <1>1 DEF AddAgent, TypeOK
<1>3. \A ip \in IPs : byIP'[ip] = IF ip = a.ip THEN a ELSE byIP[ip]
  BY <1>1, FleetAssumption DEF AddAgent, TypeOK
<1>4. tenantOf'[i] = IF i = a.id THEN x.tenant ELSE tenantOf[i]
  BY <1>1 DEF AddAgent, TypeOK
<1>5. ASSUME NEW t \in Tenants, HasAgent(t, i)
      PROVE  /\ agents[t][i] \in Agent /\ agents[t][i].id = i
             /\ agents[t][i].ip \in IPs \cup {NoIP}
             /\ a.id = i => x.tenant = t /\ a.ip = agents[t][i].ip
             /\ a.ip = agents[t][i].ip /\ agents[t][i].ip # NoIP => a.id = i
  BY <1>5, EntryType, PlaceOfHeld
<1> HIDE DEF a
<1>6. TenantIndex(i)'
  BY <1>1, <1>2, <1>4, <1>5 DEF PlaceInv, TenantIndex, HasAgent
<1>7. IndexedIsHeld(i)'
  <2> SUFFICES ASSUME NEW ip \in IPs, byIP'[ip] # None, byIP'[ip].id = i
               PROVE  \E t \in Tenants : agents'[t][i] = byIP'[ip]
    BY DEF IndexedIsHeld
  <2>1. CASE ip = a.ip
    <3>1. byIP'[ip] = a /\ a.id = i
      BY <1>3, <2>1
    <3> QED
      BY <1>1, <1>2, <3>1
  <2>2. CASE ip # a.ip
    <3>1. byIP'[ip] = byIP[ip] /\ byIP[ip] # None /\ byIP[ip].id = i /\ byIP[ip].ip = ip
      BY <1>3, <2>2 DEF EntriesInv, IndexedFromAdds
    <3>2. PICK t \in Tenants : agents[t][i] = byIP[ip]
      BY <3>1 DEF PlaceInv, IndexedIsHeld
    <3>3. HasAgent(t, i) /\ agents[t][i].ip # a.ip
      BY <2>2, <3>1, <3>2 DEF HasAgent
    <3>4. a.id # i
      BY <1>5, <3>3
    <3> QED
      BY <1>2, <3>1, <3>2, <3>4
  <2> QED
    BY <2>1, <2>2
<1>8. HeldIsIndexed(i)'
  <2> SUFFICES ASSUME NEW t \in Tenants, agents'[t][i] # None, agents'[t][i].ip # NoIP
               PROVE  byIP'[agents'[t][i].ip] = agents'[t][i]
    BY DEF HeldIsIndexed, HasAgent
  <2>1. CASE t = x.tenant /\ i = a.id
    BY <1>1, <1>2, <1>3, <2>1
  <2>2. CASE ~ (t = x.tenant /\ i = a.id)
    <3>1. agents'[t][i] = agents[t][i] /\ HasAgent(t, i)
      BY <1>2, <2>2 DEF HasAgent
    <3>2. i # a.id /\ agents[t][i].ip \in IPs /\ agents[t][i].ip # a.ip
      BY <1>5, <2>2, <3>1
    <3> QED
      BY <1>3, <3>1, <3>2 DEF PlaceInv, HeldIsIndexed
  <2> QED
    BY <2>1, <2>2
<1> QED
  BY <1>6, <1>7, <1>8 DEF PlaceInv

\* RemoveAgent of the agent takes out its only entry, and with it its address;
\* RemoveAgent of another frees an address that is not the agent's.
LEMMA PlaceRemoveAgent ==
    ASSUME TypeOK, EntriesInv, NEW i \in AgentIds, Keeps(i), PlaceInv(i),
           NEW x \in Removes, RemoveAgent(x.tenant, x.id)
    PROVE  PlaceInv(i)'
<1> DEFINE b == agents[x.tenant][x.id]
<1>1. x.tenant \in Tenants /\ x.id \in AgentIds
  BY FleetAssumption
<1>2. \A t \in Tenants :
        agents'[t][i] = IF t = x.tenant /\ i = x.id THEN None ELSE agents[t][i]
  BY <1>1 DEF RemoveAgent, TypeOK
<1>3. b # None => /\ b.id = x.id /\ b.ip \in IPs \cup {NoIP}
                  /\ [tenant |-> x.tenant, agent |-> b] \in Adds
  BY <1>1, EntryType DEF HasAgent, EntriesInv, FromAdds
<1>4. \A ip \in IPs :
        byIP'[ip] = IF b # None /\ b.ip # NoIP /\ ip = b.ip THEN None ELSE byIP[ip]
  BY <1>3 DEF RemoveAgent, TypeOK
<1>5. tenantOf'[i] = IF i = x.id THEN None ELSE tenantOf[i]
  BY <1>1 DEF RemoveAgent, TypeOK
<1>6. ASSUME NEW t \in Tenants, HasAgent(t, i)
      PROVE  /\ agents[t][i].id = i /\ agents[t][i].ip \in IPs \cup {NoIP}
             /\ i = x.id => t = x.tenant
             /\ b # None /\ b.ip # NoIP /\ agents[t][i].ip = b.ip => i = x.id
  <2> DEFINE y == [tenant |-> x.tenant, agent |-> b]
  <2>1. b # None => y \in Adds /\ y.agent.ip = b.ip /\ y.agent.id = x.id
    BY <1>3
  <2> HIDE DEF y, b
  <2> QED
    BY <1>6, <2>1, EntryType, PlaceOfHeld
<1> HIDE DEF b
<1>7. TenantIndex(i)'
  BY <1>1, <1>2, <1>5, <1>6, FleetAssumption DEF PlaceInv, TenantIndex, HasAgent
<1>8. IndexedIsHeld(i)'
  <2> SUFFICES ASSUME NEW ip \in IPs, byIP'[ip] # None, byIP'[ip].id = i
               PROVE  \E t \in Tenants : agents'[t][i] = byIP'[ip]
    BY DEF IndexedIsHeld
  <2>1. byIP'[ip] = byIP[ip] /\ byIP[ip] # None /\ byIP[ip].id = i /\ byIP[ip].ip = ip
    BY <1>4 DEF EntriesInv, IndexedFromAdds
  <2>2. PICK t \in Tenants : agents[t][i] = byIP[ip]
    BY <2>1 DEF PlaceInv, IndexedIsHeld
  <2>3. HasAgent(t, i) /\ agents[t][i].ip = ip
    BY <2>1, <2>2 DEF HasAgent
  <2>4. i # x.id
    <3> SUFFICES ASSUME i = x.id PROVE FALSE
      OBVIOUS
    <3>1. t = x.tenant /\ b = byIP[ip] /\ ip # NoIP
      BY <1>6, <2>2, <2>3, FleetAssumption DEF b
    <3> QED
      BY <1>4, <2>1, <3>1
  <2> QED
    BY <1>2, <2>1, <2>2, <2>4
<1>9. HeldIsIndexed(i)'
  <2> SUFFICES ASSUME NEW t \in Tenants, agents'[t][i] # None, agents'[t][i].ip # NoIP
               PROVE  byIP'[agents'[t][i].ip] = agents'[t][i]
    BY DEF HeldIsIndexed, HasAgent
  <2>1. agents'[t][i] = agents[t][i] /\ HasAgent(t, i) /\ ~ (t = x.tenant /\ i = x.id)
    BY <1>2 DEF HasAgent
  <2>2. i # x.id /\ agents[t][i].ip \in IPs
    BY <1>6, <2>1
  <2>3. ~ (b # None /\ b.ip # NoIP /\ agents[t][i].ip = b.ip)
    BY <1>6, <2>1, <2>2
  <2> QED
    BY <1>4, <2>1, <2>2, <2>3 DEF PlaceInv, HeldIsIndexed
<1> QED
  BY <1>7, <1>8, <1>9 DEF PlaceInv

\* Every step keeps the place of an agent that keeps it.
LEMMA PlaceStep ==
    ASSUME TypeOK, EntriesInv, NEW i \in AgentIds, Keeps(i), PlaceInv(i), [Next]_vars
    PROVE  PlaceInv(i)'
<1>1. ASSUME NEW t \in Tenants, CreateTenant(t) PROVE PlaceInv(i)'
  BY <1>1, PlaceCreateTenant
<1>2. ASSUME NEW t \in Tenants, NEW n \in Names, SetCaptainName(t, n) PROVE PlaceInv(i)'
  BY <1>2, PlaceSame DEF SetCaptainName
<1>3. ASSUME NEW t \in Tenants, NEW m \in FleetModes, SetMode(t, m) PROVE PlaceInv(i)'
  BY <1>3, PlaceSame DEF SetMode
<1>4. ASSUME NEW x \in Adds, AddAgent(x.tenant, x.agent) PROVE PlaceInv(i)'
  BY <1>4, PlaceAddAgent
<1>5. ASSUME NEW x \in Removes, RemoveAgent(x.tenant, x.id) PROVE PlaceInv(i)'
  BY <1>5, PlaceRemoveAgent
<1>6. CASE UNCHANGED vars
  BY <1>6, PlaceSame DEF vars
<1> QED
  BY <1>1, <1>2, <1>3, <1>4, <1>5, <1>6 DEF Next

KeptInv == \A i \in AgentIds : Keeps(i) => PlaceInv(i)

\* fleet.go: about an agent that never changes place, the tenant's own map and
\* the two indexes always say the same, whatever is done with the others.
THEOREM MapsAlwaysAgree == Spec => []MapsAgree
<1>1. Init => EntriesInv /\ KeptInv
  BY FleetAssumption DEF Init, EntriesInv, FromAdds, IndexedFromAdds, NoTenantNoAgents, HasAgent,
      KeptInv, PlaceInv, TenantIndex, IndexedIsHeld, HeldIsIndexed
<1>2. TypeOK /\ EntriesInv /\ [Next]_vars => EntriesInv'
  BY EntriesStep
<1>3. TypeOK /\ EntriesInv /\ KeptInv /\ [Next]_vars => KeptInv'
  BY PlaceStep DEF KeptInv, Keeps
<1>4. TypeOK /\ EntriesInv /\ KeptInv => MapsAgree
  <2> SUFFICES ASSUME TypeOK, EntriesInv, NEW i \in AgentIds, PlaceInv(i)
               PROVE  /\ \A t \in Tenants : agents[t][i] # None <=> tenantOf[i] = t
                      /\ \A ip \in IPs :
                            (byIP[ip] # None /\ byIP[ip].id = i)
                            <=> \E t \in Tenants : agents[t][i] # None /\ agents[t][i].ip = ip
                      /\ \A ip \in IPs : byIP[ip] # None /\ byIP[ip].id = i =>
                            \E t \in Tenants : agents[t][i] = byIP[ip]
    BY DEF KeptInv, MapsAgree
  <2>1. \A t \in Tenants : agents[t][i] # None <=> tenantOf[i] = t
    BY DEF PlaceInv, TenantIndex, HasAgent
  <2>2. ASSUME NEW ip \in IPs, byIP[ip] # None, byIP[ip].id = i
        PROVE  byIP[ip].ip = ip /\ \E t \in Tenants : agents[t][i] = byIP[ip]
    BY <2>2 DEF PlaceInv, IndexedIsHeld, EntriesInv, IndexedFromAdds
  <2>3. ASSUME NEW ip \in IPs, NEW t \in Tenants, agents[t][i] # None, agents[t][i].ip = ip
        PROVE  byIP[ip] # None /\ byIP[ip].id = i
    BY <2>3, EntryType, FleetAssumption DEF PlaceInv, HeldIsIndexed, HasAgent
  <2> QED
    BY <2>1, <2>2, <2>3
<1> QED
  BY <1>1, <1>2, <1>3, <1>4, TypeCorrect, PTL DEF Spec

-----------------------------------------------------------------------------
(* Communication.  The tenant index may be behind an agent that was taken  *)
(* out of another tenant, but never names a tenant that does not hold it,  *)
(* unless that tenant was created again.                                   *)

IndexedIsMember == \A i \in AgentIds :
    tenantOf[i] # None /\ tenantOf[i] \notin Recreates =>
        Exists(tenantOf[i]) /\ HasAgent(tenantOf[i], i)

\* Every step keeps the tenant index to members.
LEMMA IndexedIsMemberStep ==
    ASSUME TypeOK, IndexedIsMember, [Next]_vars
    PROVE  IndexedIsMember'
<1> SUFFICES ASSUME NEW i \in AgentIds, tenantOf'[i] # None, tenantOf'[i] \notin Recreates
             PROVE  mode'[tenantOf'[i]] # None /\ agents'[tenantOf'[i]][i] # None
  BY DEF IndexedIsMember, Exists, HasAgent
<1> USE FleetAssumption DEF IndexedIsMember, Exists, HasAgent
<1>t. tenantOf[i] \in Tenants \cup {None} /\ \A t \in Tenants : mode[t] \in FleetModes \cup {None}
  BY DEF TypeOK
<1>1. ASSUME NEW t \in Tenants, CreateTenant(t)
      PROVE  mode'[tenantOf'[i]] # None /\ agents'[tenantOf'[i]][i] # None
  <2>1. tenantOf'[i] = tenantOf[i] /\ tenantOf[i] # t
    BY <1>1 DEF CreateTenant
  <2> QED
    BY <1>1, <1>t, <2>1 DEF CreateTenant, TypeOK
<1>2. ASSUME NEW t \in Tenants, NEW n \in Names, SetCaptainName(t, n)
      PROVE  mode'[tenantOf'[i]] # None /\ agents'[tenantOf'[i]][i] # None
  BY <1>2, <1>t DEF SetCaptainName, GetMode, TypeOK
<1>3. ASSUME NEW t \in Tenants, NEW m \in FleetModes, SetMode(t, m)
      PROVE  mode'[tenantOf'[i]] # None /\ agents'[tenantOf'[i]][i] # None
  BY <1>3, <1>t DEF SetMode, TypeOK
<1>4. ASSUME NEW x \in Adds, AddAgent(x.tenant, x.agent)
      PROVE  mode'[tenantOf'[i]] # None /\ agents'[tenantOf'[i]][i] # None
  <2>1. x.tenant \in Tenants /\ x.agent \in Agent /\ x.agent.id \in AgentIds /\ x.agent # None
    BY DEF Agent
  <2>2. \A t \in Tenants :
          /\ agents'[t][i] = IF t = x.tenant /\ i = x.agent.id THEN x.agent ELSE agents[t][i]
          /\ mode'[t] = IF t = x.tenant THEN GetMode(t) ELSE mode[t]
    BY <1>4, <2>1 DEF AddAgent, TypeOK
  <2>3. tenantOf'[i] = IF i = x.agent.id THEN x.tenant ELSE tenantOf[i]
    BY <1>4, <2>1 DEF AddAgent, TypeOK
  <2>4. \A t \in Tenants : GetMode(t) # None
    BY <1>t DEF GetMode, FleetModes
  <2> QED
    BY <1>t, <2>1, <2>2, <2>3, <2>4
<1>5. ASSUME NEW x \in Removes, RemoveAgent(x.tenant, x.id)
      PROVE  mode'[tenantOf'[i]] # None /\ agents'[tenantOf'[i]][i] # None
  <2>1. x.tenant \in Tenants /\ x.id \in AgentIds
    OBVIOUS
  <2>2. tenantOf'[i] = tenantOf[i] /\ i # x.id
    BY <1>5, <2>1 DEF RemoveAgent, TypeOK
  <2>3. \A t \in Tenants : agents'[t][i] = agents[t][i]
    BY <1>5, <2>1, <2>2 DEF RemoveAgent, TypeOK
  <2> QED
    BY <1>5, <1>t, <2>2, <2>3 DEF RemoveAgent
<1>6. CASE UNCHANGED vars
  BY <1>6 DEF vars
<1> QED
  BY <1>1, <1>2, <1>3, <1>4, <1>5, <1>6 DEF Next

\* fleet.go, CanCommunicate: two agents that may communicate are in one tenant
\* that allows it, may do so in both directions, and each is shown to the other.
THEOREM CommunicationAlwaysMutual == Spec => []CommunicationIsMutual
<1>1. Init => IndexedIsMember
  BY DEF Init, IndexedIsMember
<1>2. TypeOK /\ IndexedIsMember => CommunicationIsMutual
  <2> SUFFICES ASSUME TypeOK, IndexedIsMember, NEW i \in AgentIds, NEW j \in AgentIds,
                      CanCommunicate(i, j), i # j, tenantOf[i] \notin Recreates
               PROVE  /\ CanCommunicate(j, i)
                      /\ \E t \in Tenants : mode[t] = "fleet" /\ {i, j} \subseteq Members(t)
                      /\ i \in GetAgentsForAgent(j)
    BY DEF CommunicationIsMutual
  <2>1. /\ tenantOf[i] \in Tenants /\ tenantOf[i] # None /\ tenantOf[j] = tenantOf[i]
        /\ mode[tenantOf[i]] = "fleet" /\ Exists(tenantOf[i])
    BY DEF CanCommunicate, TypeOK
  <2>2. {i, j} \subseteq Members(tenantOf[i])
    BY <2>1 DEF IndexedIsMember, HasAgent, Members
  <2>3. CanCommunicate(j, i)
    BY <2>1 DEF CanCommunicate
  <2>4. i \in GetAgentsForAgent(j)
    BY <2>1, <2>2 DEF GetAgentsForAgent, GetAgents, GetMode
  <2> QED
    BY <2>1, <2>2, <2>3, <2>4
<1> QED
  BY <1>1, <1>2, IndexedIsMemberStep, TypeCorrect, PTL DEF Spec

-----------------------------------------------------------------------------
(* Who opens a tenant.                                                     *)

\* fleet.go, CreateTenant, SetCaptainName, AddAgent and RemoveAgent: none of
\* them lets a tenant go from isolated to fleet, also when it creates the tenant
\* on its way; the step that does leaves agents and name alone.
THEOREM OnlySetModeEverOpens == Spec => OnlySetModeOpens
<1>1. ASSUME TypeOK, [Next]_vars, NEW t \in Tenants,
             GetMode(t) = "isolated", GetMode(t)' = "fleet"
      PROVE  agents' = agents /\ captain' = captain
  <2>1. CASE UNCHANGED vars
    BY <2>1 DEF vars
  <2>2. ASSUME NEW s \in Tenants, CreateTenant(s) PROVE FALSE
    BY <1>1, <2>2 DEF CreateTenant, GetMode, Exists, TypeOK
  <2>3. ASSUME NEW s \in Tenants, NEW n \in Names, SetCaptainName(s, n) PROVE FALSE
    BY <1>1, <2>3 DEF SetCaptainName, GetMode, Exists, TypeOK
  <2>4. ASSUME NEW s \in Tenants, NEW m \in FleetModes, SetMode(s, m)
        PROVE  agents' = agents /\ captain' = captain
    BY <2>4 DEF SetMode
  <2>5. ASSUME NEW x \in Adds, AddAgent(x.tenant, x.agent) PROVE FALSE
    <3>1. x.tenant \in Tenants
      BY FleetAssumption
    <3> QED
      BY <1>1, <2>5, <3>1 DEF AddAgent, GetMode, Exists, TypeOK
  <2>6. ASSUME NEW x \in Removes, RemoveAgent(x.tenant, x.id) PROVE FALSE
    BY <1>1, <2>6 DEF RemoveAgent, GetMode, Exists
  <2> QED
    BY <1>1, <2>1, <2>2, <2>3, <2>4, <2>5, <2>6 DEF Next
<1>2. TypeOK /\ [Next]_vars => [ \A t \in Tenants :
          GetMode(t) = "isolated" /\ GetMode(t)' = "fleet" =>
              agents' = agents /\ captain' = captain ]_vars
  BY <1>1
<1> QED
  BY <1>2, TypeCorrect, PTL DEF Spec, OnlySetModeOpens

-----------------------------------------------------------------------------
(* The loading of a file: where it stands.                                 *)

\* The two counters never leave the file: a block has ForBlock calls and one
\* for every agent, and after the last block come the tokens.
FileTypeOK ==
    /\ config \in Configs \cup {Unreadable}
    /\ block \in Nat \ {0} /\ call \in Nat \ {0}
    /\ block <= Len(Blocks) + 1
    /\ block <= Len(Blocks) => call <= ForBlock + Len(Current.agents)
    /\ block > Len(Blocks) => call <= Len(TokenEntries) + 1

\* What is in a file.
LEMMA FileTypes ==
    ASSUME config \in Configs \cup {Unreadable}
    PROVE  /\ Blocks \in Seq(Block) /\ Len(Blocks) \in Nat /\ DOMAIN Blocks = 1..Len(Blocks)
           /\ TokenEntries \in Seq(TokenEntry) /\ Len(TokenEntries) \in Nat
           /\ DOMAIN TokenEntries = 1..Len(TokenEntries)
<1>1. Blocks \in Seq(Block) /\ TokenEntries \in Seq(TokenEntry)
  BY ConfigAssumption DEF Blocks, TokenEntries
<1> QED
  BY <1>1, LenProperties

\* What is in a block.
LEMMA BlockTypes ==
    ASSUME config \in Configs \cup {Unreadable}, NEW k \in DOMAIN Blocks
    PROVE  /\ Blocks[k].id \in Tenants /\ Blocks[k].captain \in Names \cup {None}
           /\ Blocks[k].agents \in Seq(Agent) /\ Len(Blocks[k].agents) \in Nat
           /\ DOMAIN Blocks[k].agents = 1..Len(Blocks[k].agents)
           /\ \A j \in DOMAIN Blocks[k].agents : Blocks[k].agents[j] \in Agent
<1>1. Blocks[k] \in Block
  BY FileTypes, ElementOfSeq
<1>2. /\ Blocks[k].id \in Tenants /\ Blocks[k].captain \in Names \cup {None}
      /\ Blocks[k].agents \in Seq(Agent)
  BY <1>1 DEF Block
<1>3. DOMAIN Blocks[k].agents = 1..Len(Blocks[k].agents) /\ Len(Blocks[k].agents) \in Nat
  BY <1>2, LenProperties
<1> QED
  BY <1>2, <1>3, ElementOfSeq

\* The calls for a file end before anything is served.
LEMMA LoadingUnloaded ==
    ASSUME ConfigStep, FileTypeOK
    PROVE  ~ Loaded
  BY FileTypes DEF ConfigStep, ApplyBlock, RegisterToken, Loaded, FileTypeOK

\* Nothing in the file changes with the counters.
LEMMA SameFile ==
    ASSUME config' = config
    PROVE  /\ Blocks' = Blocks /\ TokenEntries' = TokenEntries /\ Places' = Places
           /\ \A p : EntryAt(p)' = EntryAt(p)
<1>1. Blocks' = Blocks /\ TokenEntries' = TokenEntries
  BY DEF Blocks, TokenEntries
<1> QED
  BY <1>1 DEF Places, EntryAt

LEMMA FileTypeStep ==
    ASSUME FileTypeOK, ConfigStep
    PROVE  FileTypeOK'
<1>1. config' = config /\ Blocks' = Blocks /\ TokenEntries' = TokenEntries
  BY SameFile DEF ConfigStep, ApplyBlock, RegisterToken
<1>2. CASE ApplyBlock
  <2>1. block \in DOMAIN Blocks /\ block <= Len(Blocks) /\ Len(Blocks) \in Nat /\ Len(TokenEntries) \in Nat
    BY <1>2, FileTypes DEF ApplyBlock, FileTypeOK
  <2>2. Len(Current.agents) \in Nat
    BY <2>1, BlockTypes DEF Current, FileTypeOK
  <2>3. CASE block' = block /\ call' = call + 1 /\ call < ForBlock + Len(Current.agents)
    <3>1. Current' = Current
      BY <1>1, <2>3 DEF Current
    <3> QED
      BY <1>1, <2>1, <2>2, <2>3, <3>1 DEF FileTypeOK, ForBlock
  <2>4. CASE block' = block + 1 /\ call' = 1
    <3>1. block' <= Len(Blocks) => Len(Current.agents)' \in Nat
      <4> SUFFICES ASSUME block' <= Len(Blocks) PROVE Len(Current.agents)' \in Nat
        OBVIOUS
      <4>1. block' \in DOMAIN Blocks
        BY <2>1, <2>4, FileTypes DEF FileTypeOK
      <4> QED
        BY <1>1, <4>1, BlockTypes DEF Current, FileTypeOK
    <3> QED
      BY <1>1, <2>1, <2>4, <3>1 DEF FileTypeOK, ForBlock
  <2> QED
    BY <1>2, <2>3, <2>4 DEF ApplyBlock, GoOn
<1>3. CASE RegisterToken
  BY <1>1, <1>3, FileTypes DEF RegisterToken, FileTypeOK
<1> QED
  BY <1>2, <1>3 DEF ConfigStep

\* A call for the file is one that the manager allows for.
LEMMA LoadingCallsManager ==
    ASSUME FileTypeOK, ConfigStep
    PROVE  [Next]_vars
<1>1. CASE RegisterToken
  BY <1>1 DEF RegisterToken
<1>2. CASE ApplyBlock
  <2>1. block \in DOMAIN Blocks
    BY <1>2, FileTypes DEF ApplyBlock, FileTypeOK
  <2>2. Current.id \in Tenants /\ Current.captain \in Names \cup {None}
    BY <2>1, BlockTypes DEF Current, FileTypeOK
  <2>3. CASE Create
    BY <2>2, <2>3 DEF Create, Next
  <2>4. CASE NameCaptain
    BY <2>2, <2>4 DEF NameCaptain, Next
  <2>5. CASE ChooseMode
    BY <2>2, <2>5 DEF ChooseMode, ModeOf, FleetModes, Next
  <2>6. CASE EnterAgent
    <3> DEFINE j == call - ForBlock
               x == [tenant |-> Current.id, agent |-> WithTier(Current.agents[j])]
    <3>1. j \in DOMAIN Current.agents
      BY <1>2, <2>1, <2>6, BlockTypes
         DEF EnterAgent, ApplyBlock, FileTypeOK, ForBlock, Current
    <3>2. config \in Configs /\ Blocks = config.tenants
      BY <2>1, FileTypes DEF Blocks, FileTypeOK
    <3>3. x \in Adds
      BY <2>1, <3>1, <3>2, ConfigAssumption DEF Current
    <3>4. x.tenant = Current.id /\ x.agent = WithTier(Current.agents[j])
      OBVIOUS
    <3>5. AddAgent(Current.id, WithTier(Current.agents[j]))
      BY <2>6 DEF EnterAgent
    <3> HIDE DEF x, j
    <3>6. AddAgent(x.tenant, x.agent)
      BY <3>4, <3>5
    <3> QED
      BY <3>3, <3>6 DEF Next
  <2> QED
    BY <1>2, <2>3, <2>4, <2>5, <2>6 DEF ApplyBlock
<1> QED
  BY <1>1, <1>2 DEF ConfigStep

-----------------------------------------------------------------------------
(* What the loading and the requests are to the manager.                   *)

LEMMA FileTypeAlways == ReverseSpec => []FileTypeOK
<1>1. ReverseInit => FileTypeOK
  <2> SUFFICES ASSUME ReverseInit PROVE FileTypeOK
    OBVIOUS
  <2>1. config \in Configs \cup {Unreadable} /\ block = 1 /\ call = 1
    BY DEF ReverseInit, ConfigInit
  <2>2. 1 <= Len(Blocks) => 1 \in DOMAIN Blocks /\ Len(Blocks[1].agents) \in Nat
    BY <2>1, FileTypes, BlockTypes
  <2> QED
    BY <2>1, <2>2, FileTypes DEF FileTypeOK, Current, ForBlock
<1>2. ASSUME FileTypeOK, [ReverseNext]_reverseVars
      PROVE  FileTypeOK'
  <2>1. CASE Load
    BY <1>2, <2>1, FileTypeStep DEF Load
  <2>2. CASE UNCHANGED configVars
    BY <1>2, <2>2, SameFile DEF configVars, FileTypeOK, Current
  <2> QED
    BY <1>2, <2>1, <2>2 DEF ReverseNext, Serve, Manage, reverseVars
<1> QED
  BY <1>1, <1>2, PTL DEF ReverseSpec

\* What a step of the gateway is to the manager: a call, or nothing.
LEMMA ManagerStep ==
    ASSUME FileTypeOK, [ReverseNext]_reverseVars
    PROVE  [Next]_vars
<1>1. CASE Load
  BY <1>1, LoadingCallsManager DEF Load
<1>2. CASE Manage
  BY <1>2 DEF Manage, Call, Next
<1>3. CASE Serve \/ UNCHANGED reverseVars
  BY <1>3 DEF Serve, reverseVars
<1> QED
  BY <1>1, <1>2, <1>3 DEF ReverseNext

\* loader.go, ApplyConfig, and reverse.go: a fleet that is loaded from a file,
\* and called while requests are served, is the manager of fleet.go; what is
\* proved of any sequence of calls holds of it.
THEOREM LoadedFleetIsManager == ReverseSpec => Spec
<1>1. ReverseInit => Init
  BY DEF ReverseInit, ConfigInit
<1> QED
  BY <1>1, ManagerStep, FileTypeAlways, PTL DEF ReverseSpec, Spec

\* So the maps of a loaded fleet agree, communication in it is mutual, and only
\* SetMode opens a tenant of it.
THEOREM LoadedFleetIsSound ==
    ReverseSpec => []MapsAgree /\ []CommunicationIsMutual /\ OnlySetModeOpens
  BY LoadedFleetIsManager, MapsAlwaysAgree, CommunicationAlwaysMutual, OnlySetModeEverOpens, PTL

-----------------------------------------------------------------------------
(* Type correctness of the gateway.  What is read is only as well typed as *)
(* what the window and the history of the manager hold.                    *)

ReadsTypeOK ==
    /\ at # Idle => tenantID \in Tenants /\ agentID \in AgentIds
    /\ object # Live => object.captain \in Names \cup {None}
    /\ at = "agent" => window \subseteq Agent \cup {None}
    /\ at = "captain" => window \subseteq Names \cup {None}

GatewayTypeInv == ReverseTypeOK /\ FileTypeOK /\ ReadsTypeOK

\* An endpoint that is not the empty address is an address or a webhook.
LEMMA EndpointType ==
    ASSUME NEW e \in Agent, NEW f \in Agent, EndpointOf(e.hook, f.ip) # NoIP
    PROVE  EndpointOf(e.hook, f.ip) \in IPs \cup Hooks
  BY DEF Agent, EndpointOf

\* What a tenant held, live or dropped.
LEMMA FieldTypes ==
    ASSUME TypeOK, NEW t \in Tenants, NEW i \in AgentIds,
           object = Live \/ object.agents \in [AgentIds -> Agent \cup {None}],
           object # Live => object.captain \in Names \cup {None}
    PROVE  AgentsOf(t)[i] \in Agent \cup {None} /\ CaptainOf(t) \in Names \cup {None}
  BY DEF TypeOK, AgentsOf, CaptainOf

\* The answer leaves nothing of the request.
LEMMA DoneType ==
    ASSUME Done, alive' = alive, UNCHANGED <<vars, configVars>>, GatewayTypeInv
    PROVE  GatewayTypeInv'
<1>1. TypeOK' /\ FileTypeOK'
  BY SameFile DEF GatewayTypeInv, ReverseTypeOK, TypeOK, vars, configVars, FileTypeOK, Current
<1> QED
  BY <1>1, ReverseAssumption
     DEF Done, GatewayTypeInv, ReverseTypeOK, ReadsTypeOK, configVars, Idle, Live

LEMMA GatewayTypeLoad ==
    ASSUME GatewayTypeInv, Load
    PROVE  GatewayTypeInv'
<1>1. FileTypeOK' /\ config' = config
  BY FileTypeStep DEF GatewayTypeInv, Load, ConfigStep, ApplyBlock, RegisterToken
<1>2. TypeOK'
  <2>1. [Next]_vars /\ TypeOK
    BY LoadingCallsManager DEF GatewayTypeInv, Load, ReverseTypeOK
  <2>2. CASE Next
    BY <2>1, <2>2, ChangeType
  <2>3. CASE UNCHANGED vars
    BY <2>1, <2>3 DEF vars, TypeOK
  <2> QED
    BY <2>1, <2>2, <2>3
<1>3. tokens' \in [Tokens -> Tenants \cup {None}]
  <2>1. CASE RegisterToken
    <3>1. call \in DOMAIN TokenEntries
      BY <2>1, FileTypes DEF RegisterToken, GatewayTypeInv, FileTypeOK
    <3>2. TokenEntries[call] \in TokenEntry
      BY <3>1, FileTypes, ElementOfSeq DEF GatewayTypeInv, FileTypeOK
    <3> QED
      BY <2>1, <3>2 DEF RegisterToken, TokenEntry, GatewayTypeInv, ReverseTypeOK
  <2>2. CASE ApplyBlock
    BY <2>2 DEF ApplyBlock, GatewayTypeInv, ReverseTypeOK
  <2> QED
    BY <2>1, <2>2 DEF Load, ConfigStep
<1> QED
  BY <1>1, <1>2, <1>3 DEF Load, reqVars, GatewayTypeInv, ReverseTypeOK, ReadsTypeOK, FileTypeOK

LEMMA GatewayTypeServe ==
    ASSUME GatewayTypeInv, Serve
    PROVE  GatewayTypeInv'
<1>1. UNCHANGED <<vars, configVars>>
  BY DEF Serve
<1>2. TypeOK' /\ FileTypeOK' /\ config' \in Configs \cup {Unreadable} /\ block' \in Nat
      /\ call' \in Nat /\ tokens' \in [Tokens -> Tenants \cup {None}]
  BY <1>1, SameFile
     DEF GatewayTypeInv, ReverseTypeOK, TypeOK, vars, configVars, FileTypeOK, Current
<1>3. ASSUME NEW token \in Tokens, NEW i \in AgentIds, Receive(token, i)
      PROVE  GatewayTypeInv'
  <2>1. tokens[token] \in Tenants /\ agents[tokens[token]][i] \in Agent \cup {None}
    BY <1>3 DEF Receive, GatewayTypeInv, ReverseTypeOK, TypeOK
  <2> QED
    BY <1>2, <1>3, <2>1, ReverseAssumption
       DEF Receive, GatewayTypeInv, ReverseTypeOK, ReadsTypeOK, Idle
<1>4. CASE ReadAgent
  <2>1. tenantID \in Tenants /\ agentID \in AgentIds /\ window \subseteq Agent \cup {None}
    BY <1>4 DEF ReadAgent, Idle, GatewayTypeInv, ReadsTypeOK
  <2>2. endpoint' \in IPs \cup Hooks \cup {Torn, None}
    <3>1. PICK e \in window \ {None}, f \in window \ {None}, torn \in BOOLEAN :
             /\ EndpointOf(e.hook, f.ip) # NoIP
             /\ endpoint' = IF torn THEN Torn ELSE EndpointOf(e.hook, f.ip)
      BY <1>4 DEF ReadAgent
    <3>2. e \in Agent /\ f \in Agent
      BY <2>1, <3>1
    <3> QED
      BY <3>1, <3>2, EndpointType
  <2>3. CaptainOf(tenantID) \in Names \cup {None}
    BY <2>1, FieldTypes DEF GatewayTypeInv, ReverseTypeOK, ReadsTypeOK
  <2>4. /\ at' = "captain" /\ window' = {CaptainOf(tenantID)}
        /\ UNCHANGED <<tenantID, agentID, object, name, alive, meanwhile>>
    BY <1>4 DEF ReadAgent
  <2> QED
    BY <1>2, <2>1, <2>2, <2>3, <2>4 DEF GatewayTypeInv, ReverseTypeOK, ReadsTypeOK
<1>5. CASE ReadCaptain
  <2>1. tenantID \in Tenants /\ agentID \in AgentIds /\ window \subseteq Names \cup {None}
    BY <1>5 DEF ReadCaptain, Idle, GatewayTypeInv, ReadsTypeOK
  <2>2. name' \in Names \cup Tenants \cup {Torn, None}
    BY <1>5, <2>1 DEF ReadCaptain, Mask
  <2> QED
    BY <1>2, <1>5, <2>1, <2>2 DEF ReadCaptain, GatewayTypeInv, ReverseTypeOK, ReadsTypeOK
<1>6. CASE RefuseAgent \/ Respond
  BY <1>1, <1>6, DoneType DEF RefuseAgent, Respond
<1> QED
  BY <1>3, <1>4, <1>5, <1>6 DEF Serve

\* A call of the manager leaves the request its tenant, or, when it puts another
\* in its place, the tenant as it was.
LEMMA CallObject ==
    ASSUME Call
    PROVE  \/ object' = object
           \/ /\ at # Idle /\ object = Live
              /\ object' = [agents |-> agents[tenantID], captain |-> captain[tenantID]]
  BY DEF Call, Replaced, MapWritten

LEMMA GatewayTypeManage ==
    ASSUME GatewayTypeInv, Manage
    PROVE  GatewayTypeInv'
<1>1. Next /\ UNCHANGED <<configVars, at, tenantID, agentID, endpoint, name>>
  BY DEF Manage, Call, Next
<1>2. TypeOK'
  BY <1>1, ChangeType DEF GatewayTypeInv, ReverseTypeOK
<1>3. FileTypeOK' /\ config' \in Configs \cup {Unreadable} /\ block' \in Nat /\ call' \in Nat
      /\ tokens' \in [Tokens -> Tenants \cup {None}]
  BY <1>1, SameFile DEF GatewayTypeInv, ReverseTypeOK, configVars, FileTypeOK, Current
<1>4. alive' \in BOOLEAN
  BY DEF Manage, Call, Replaced, MapWritten, GatewayTypeInv, ReverseTypeOK
<1>5. /\ object' = Live \/ object'.agents \in [AgentIds -> Agent \cup {None}]
      /\ object' # Live => object'.captain \in Names \cup {None}
  <2>1. CASE object' = object
    BY <2>1 DEF GatewayTypeInv, ReverseTypeOK, ReadsTypeOK
  <2>2. CASE /\ at # Idle
             /\ object' = [agents |-> agents[tenantID], captain |-> captain[tenantID]]
    <3>1. agents[tenantID] \in [AgentIds -> Agent \cup {None}]
          /\ captain[tenantID] \in Names \cup {None}
      BY <2>2 DEF GatewayTypeInv, ReverseTypeOK, ReadsTypeOK, TypeOK
    <3> QED
      BY <2>2, <3>1
  <2> QED
    BY <2>1, <2>2, CallObject DEF Manage
<1>6. /\ meanwhile' \in 0..MaxMeanwhile
      /\ at = Idle \/ at = "forward" \/ window' = window \cup {Field'}
  BY ReverseAssumption DEF Manage, GatewayTypeInv, ReverseTypeOK
<1>7. at # Idle => /\ (AgentsOf(tenantID)')[agentID] \in Agent \cup {None}
                   /\ CaptainOf(tenantID)' \in Names \cup {None}
  BY <1>1, <1>2, <1>5 DEF AgentsOf, CaptainOf, TypeOK, GatewayTypeInv, ReadsTypeOK
<1>8. /\ at = "agent" => Field' \in Agent \cup {None}
      /\ at = "captain" => Field' \in Names \cup {None}
  BY <1>1, <1>7 DEF Field, Idle
<1>9. ReadsTypeOK'
  BY <1>1, <1>5, <1>6, <1>8 DEF GatewayTypeInv, ReadsTypeOK, Idle
<1> QED
  BY <1>1, <1>2, <1>3, <1>4, <1>5, <1>6, <1>9 DEF GatewayTypeInv, ReverseTypeOK

\* The fleet, the counters of the loading and the request keep their types:
\* in particular what is forwarded is an address or a webhook, never nothing.
THEOREM GatewayTypeCorrect == ReverseSpec => []ReverseTypeOK
<1>1. ASSUME ReverseInit, FileTypeOK
      PROVE  GatewayTypeInv
  <2>1. TypeOK
    BY <1>1, FleetAssumption DEF ReverseInit, ConfigInit, Init, TypeOK, FleetModes
  <2> QED
    BY <1>1, <2>1, ReverseAssumption
       DEF ReverseInit, ConfigInit, NoRequest, GatewayTypeInv, ReverseTypeOK, ReadsTypeOK,
           FileTypeOK
<1>2. ASSUME GatewayTypeInv, [ReverseNext]_reverseVars
      PROVE  GatewayTypeInv'
  <2>1. CASE UNCHANGED reverseVars
    <3>1. UNCHANGED <<vars, configVars, reqVars, alive, meanwhile>>
      BY <2>1 DEF reverseVars
    <3>2. TypeOK' /\ FileTypeOK'
      BY <1>2, <3>1, SameFile
         DEF GatewayTypeInv, ReverseTypeOK, TypeOK, vars, configVars, FileTypeOK, Current
    <3> QED
      BY <1>2, <3>1, <3>2 DEF GatewayTypeInv, ReverseTypeOK, ReadsTypeOK, configVars, reqVars
  <2> QED
    BY <1>2, <2>1, GatewayTypeLoad, GatewayTypeServe, GatewayTypeManage DEF ReverseNext
<1>3. GatewayTypeInv => ReverseTypeOK
  BY DEF GatewayTypeInv
<1> QED
  BY <1>1, <1>2, <1>3, FileTypeAlways, PTL DEF ReverseSpec

-----------------------------------------------------------------------------
(* What has been taken of a file.  That the fleet is what the file says is *)
(* only promised at the end; SoFar says at every moment of the loading     *)
(* what the calls made so far amount to.  It is ConfigTaken read over the  *)
(* blocks, entries and tokens whose calls have been made, and with the     *)
(* block at hand half applied.                                             *)

\* Call c for block k has been made.
Made(k, c) == k < block \/ (k = block /\ call > c)

MadeBlocks == {k \in DOMAIN Blocks : Made(k, 1)}
MadePlaces == {p \in Places : Made(p[1], ForBlock + p[2])}
MadeTokens == {n \in DOMAIN TokenEntries : block > Len(Blocks) /\ call > n}

EntriesIn(places, k, i) == {p \in places : p[1] = k /\ EntryAt(p).id = i}
EntriesFor(places, i) == {p \in places : EntryAt(p).id = i}
EntriesUnder(places, ip) == {p \in places : EntryAt(p).ip = ip}
BlocksOf(blocks, t) == {k \in blocks : Blocks[k].id = t}
EntriesOf(positions, k) == {n \in positions : TokenEntries[n].token = k}

AgentsSoFar(t, k) ==
    \A i \in AgentIds :
        /\ EntriesIn(MadePlaces, k, i) = {} => agents[t][i] = None
        /\ \A p \in EntriesIn(MadePlaces, k, i) :
              IsLastPlace(p, EntriesIn(MadePlaces, k, i)) => agents[t][i] = WithTier(EntryAt(p))

TenantSoFar(t) ==
    /\ BlocksOf(MadeBlocks, t) = {} => ~ Exists(t)
    /\ \A k \in BlocksOf(MadeBlocks, t) : IsLast(k, BlocksOf(MadeBlocks, t)) =>
        /\ mode[t] = IF Made(k, 3) THEN ModeOf(Blocks[k].mode) ELSE "isolated"
        /\ captain[t] = IF Made(k, 2) THEN Blocks[k].captain ELSE None
        /\ AgentsSoFar(t, k)

TenantIndexSoFar ==
    \A i \in AgentIds :
        /\ EntriesFor(MadePlaces, i) = {} => tenantOf[i] = None
        /\ \A p \in EntriesFor(MadePlaces, i) :
              IsLastPlace(p, EntriesFor(MadePlaces, i)) => tenantOf[i] = Blocks[p[1]].id

AddressIndexSoFar ==
    \A ip \in IPs :
        /\ EntriesUnder(MadePlaces, ip) = {} => byIP[ip] = None
        /\ \A p \in EntriesUnder(MadePlaces, ip) :
              IsLastPlace(p, EntriesUnder(MadePlaces, ip)) => byIP[ip] = WithTier(EntryAt(p))

TokensSoFar ==
    \A k \in Tokens :
        /\ EntriesOf(MadeTokens, k) = {} => tokens[k] = None
        /\ \A n \in EntriesOf(MadeTokens, k) :
              IsLast(n, EntriesOf(MadeTokens, k)) => tokens[k] = TokenEntries[n].tenant

SoFar ==
    /\ \A t \in Tenants : TenantSoFar(t)
    /\ TenantIndexSoFar /\ AddressIndexSoFar /\ TokensSoFar

\* A place is a block and an entry in it.
LEMMA PlaceTypes ==
    ASSUME config \in Configs \cup {Unreadable}
    PROVE  /\ \A p \in Places :
                /\ p[1] \in DOMAIN Blocks /\ p[1] \in Nat \ {0}
                /\ p[2] \in DOMAIN Blocks[p[1]].agents /\ p[2] \in Nat \ {0}
                /\ p[2] <= Len(Blocks[p[1]].agents)
                /\ p = <<p[1], p[2]>> /\ EntryAt(p) \in Agent
           /\ \A k \in DOMAIN Blocks : \A j \in DOMAIN Blocks[k].agents :
                /\ <<k, j>> \in Places /\ EntryAt(<<k, j>>) = Blocks[k].agents[j]
<1>1. ASSUME NEW p \in Places
      PROVE  /\ p[1] \in DOMAIN Blocks /\ p[2] \in DOMAIN Blocks[p[1]].agents
             /\ p = <<p[1], p[2]>>
  BY DEF Places
<1>2. ASSUME NEW k \in DOMAIN Blocks, NEW j \in DOMAIN Blocks[k].agents
      PROVE  <<k, j>> \in Places
  BY DEF Places
<1>3. ASSUME NEW p \in Places
      PROVE  /\ p[1] \in Nat \ {0} /\ p[2] \in Nat \ {0} /\ p[2] <= Len(Blocks[p[1]].agents)
             /\ EntryAt(p) \in Agent
  <2>1. p[1] \in DOMAIN Blocks /\ p[2] \in DOMAIN Blocks[p[1]].agents
    BY <1>1
  <2>2. EntryAt(p) \in Agent
    BY <2>1, BlockTypes DEF EntryAt
  <2>3. p[1] \in 1..Len(Blocks) /\ Len(Blocks) \in Nat
    BY <2>1, FileTypes
  <2>4. p[2] \in 1..Len(Blocks[p[1]].agents) /\ Len(Blocks[p[1]].agents) \in Nat
    BY <2>1, BlockTypes
  <2> QED
    BY <2>2, <2>3, <2>4
<1> QED
  BY <1>1, <1>2, <1>3 DEF EntryAt

\* A call for a block is the next one that is made, whichever comes then.
LEMMA OneMore ==
    ASSUME FileTypeOK, ApplyBlock, NEW k \in DOMAIN Blocks,
           NEW c \in 1..(ForBlock + Len(Blocks[k].agents))
    PROVE  Made(k, c)' <=> Made(k, c) \/ (k = block /\ c = call)
<1>1. /\ block \in Nat /\ call \in Nat \ {0} /\ k \in Nat /\ c \in Nat \ {0}
      /\ Len(Blocks[k].agents) \in Nat
  BY FileTypes, BlockTypes DEF FileTypeOK, ForBlock
<1>2. /\ k = block => c <= ForBlock + Len(Current.agents)
      /\ call <= ForBlock + Len(Current.agents)
  BY <1>1 DEF Current, FileTypeOK, ForBlock, ApplyBlock
<1>3. block \in DOMAIN Blocks
  BY FileTypes DEF FileTypeOK, ApplyBlock
<1>4. Len(Current.agents) \in Nat
  BY <1>3, BlockTypes DEF Current, FileTypeOK
<1>5. CASE call' = call + 1 /\ block' = block
  BY <1>1, <1>5 DEF Made
<1>6. CASE call >= ForBlock + Len(Current.agents) /\ call' = 1 /\ block' = block + 1
  BY <1>1, <1>2, <1>4, <1>6 DEF Made, ForBlock
<1>7. CASE call < ForBlock + Len(Current.agents)
  BY <1>5, <1>7 DEF ApplyBlock, GoOn
<1>8. CASE ~ (call < ForBlock + Len(Current.agents))
  BY <1>1, <1>4, <1>6, <1>8 DEF ApplyBlock, GoOn, ForBlock
<1> QED
  BY <1>7, <1>8

\* What a call for a block adds to what has been made.
LEMMA MadeByCall ==
    ASSUME FileTypeOK, ApplyBlock
    PROVE  /\ block \in DOMAIN Blocks /\ Blocks' = Blocks /\ TokenEntries' = TokenEntries
           /\ MadeBlocks' = IF call = 1 THEN MadeBlocks \cup {block} ELSE MadeBlocks
           /\ call # 1 => block \in MadeBlocks
           /\ \A k \in MadeBlocks : k \in Nat /\ k <= block
           /\ call <= ForBlock => MadePlaces' = MadePlaces
           /\ call > ForBlock =>
                /\ <<block, call - ForBlock>> \in Places
                /\ MadePlaces' = MadePlaces \cup {<<block, call - ForBlock>>}
           /\ \A p \in MadePlaces : Before(p, <<block, call - ForBlock>>)
           /\ call = 1 => \A p \in MadePlaces : p[1] # block
           /\ MadeTokens' = MadeTokens
<1>1. block \in DOMAIN Blocks /\ block \in Nat \ {0} /\ call \in Nat \ {0}
  BY FileTypes DEF FileTypeOK, ApplyBlock
<1>2. Blocks' = Blocks /\ TokenEntries' = TokenEntries /\ Places' = Places
      /\ \A p : EntryAt(p)' = EntryAt(p)
  BY SameFile DEF ApplyBlock
<1>3. \A k \in DOMAIN Blocks : k \in Nat /\ Len(Blocks[k].agents) \in Nat
  BY FileTypes, BlockTypes DEF FileTypeOK
<1>4. call <= ForBlock + Len(Blocks[block].agents)
  BY DEF FileTypeOK, ApplyBlock, Current
<1>5. MadeBlocks' = IF call = 1 THEN MadeBlocks \cup {block} ELSE MadeBlocks
  <2>1. \A k \in DOMAIN Blocks : Made(k, 1)' <=> Made(k, 1) \/ (k = block /\ 1 = call)
    BY <1>3, OneMore DEF ForBlock
  <2> QED
    BY <1>1, <1>2, <2>1 DEF MadeBlocks
<1>6. call # 1 => block \in MadeBlocks
  BY <1>1 DEF MadeBlocks, Made
<1>7. \A k \in MadeBlocks : k \in Nat /\ k <= block
  BY <1>1, <1>3 DEF MadeBlocks, Made
<1>8. \A p \in Places :
        Made(p[1], ForBlock + p[2])'
        <=> Made(p[1], ForBlock + p[2]) \/ (p[1] = block /\ ForBlock + p[2] = call)
  <2> SUFFICES ASSUME NEW p \in Places
               PROVE  Made(p[1], ForBlock + p[2])'
                      <=> Made(p[1], ForBlock + p[2]) \/ (p[1] = block /\ ForBlock + p[2] = call)
    OBVIOUS
  <2> DEFINE k == p[1]
             c == ForBlock + p[2]
  <2>1. k \in DOMAIN Blocks /\ p[2] \in Nat \ {0} /\ p[2] <= Len(Blocks[k].agents)
    BY PlaceTypes DEF FileTypeOK
  <2>2. c \in 1..(ForBlock + Len(Blocks[k].agents))
    BY <1>3, <2>1 DEF ForBlock
  <2> HIDE DEF k, c
  <2>3. Made(k, c)' <=> Made(k, c) \/ (k = block /\ c = call)
    BY <2>1, <2>2, OneMore
  <2> QED
    BY <2>3 DEF k, c
<1>9. call <= ForBlock => MadePlaces' = MadePlaces
  <2>1. \A p \in Places : p[2] \in Nat \ {0}
    BY PlaceTypes DEF FileTypeOK
  <2>2. call <= ForBlock => \A p \in Places : ForBlock + p[2] # call
    BY <1>1, <2>1 DEF ForBlock
  <2> QED
    BY <1>2, <1>8, <2>2 DEF MadePlaces
<1>10. ASSUME call > ForBlock
       PROVE  /\ <<block, call - ForBlock>> \in Places
              /\ MadePlaces' = MadePlaces \cup {<<block, call - ForBlock>>}
  <2>1. call - ForBlock \in DOMAIN Blocks[block].agents
    BY <1>1, <1>4, <1>10, BlockTypes DEF ForBlock, FileTypeOK
  <2>2. <<block, call - ForBlock>> \in Places
    BY <1>1, <2>1, PlaceTypes DEF FileTypeOK
  <2>3. \A p \in Places : p[1] = block /\ ForBlock + p[2] = call <=> p = <<block, call - ForBlock>>
    <3>1. \A p \in Places : p[2] \in Nat /\ p = <<p[1], p[2]>>
      BY PlaceTypes DEF FileTypeOK
    <3>2. \A n \in Nat : ForBlock + n = call <=> n = call - ForBlock
      BY <1>1 DEF ForBlock
    <3> QED
      BY <3>1, <3>2
  <2> QED
    BY <1>2, <1>8, <2>2, <2>3 DEF MadePlaces
<1>11. \A p \in MadePlaces : Before(p, <<block, call - ForBlock>>)
  <2> SUFFICES ASSUME NEW p \in MadePlaces PROVE Before(p, <<block, call - ForBlock>>)
    OBVIOUS
  <2>1. p[1] \in Nat /\ p[2] \in Nat /\ Made(p[1], ForBlock + p[2])
    BY PlaceTypes DEF MadePlaces, FileTypeOK
  <2>2. p[1] < block \/ (p[1] = block /\ p[2] < call - ForBlock)
    BY <1>1, <2>1 DEF Made, ForBlock
  <2> QED
    BY <2>2 DEF Before
<1>12. call = 1 => \A p \in MadePlaces : p[1] # block
  <2>1. \A p \in MadePlaces : p[1] \in Nat /\ p[2] \in Nat /\ Made(p[1], ForBlock + p[2])
    BY PlaceTypes DEF MadePlaces, FileTypeOK
  <2> QED
    BY <1>1, <2>1 DEF Made, ForBlock
<1>13. MadeTokens' = MadeTokens
  <2>1. \A n \in DOMAIN TokenEntries : n \in Nat \ {0}
    BY FileTypes DEF FileTypeOK
  <2>2. ~ (block > Len(Blocks)) /\ Len(Blocks) \in Nat
    BY <1>1, FileTypes DEF FileTypeOK
  <2>3. block' > Len(Blocks) => call' = 1
    BY <1>1, <2>2 DEF ApplyBlock, GoOn
  <2> QED
    BY <1>2, <2>1, <2>2, <2>3 DEF MadeTokens
<1> QED
  BY <1>1, <1>2, <1>5, <1>6, <1>7, <1>9, <1>10, <1>11, <1>12, <1>13

\* The place of the call at hand.
Place == <<block, call - ForBlock>>

\* A place behind all others is the last.
LEMMA LastIsNew ==
    ASSUME config \in Configs \cup {Unreadable}, NEW S \in SUBSET Places, NEW q \in Places,
           \A p \in S : Before(p, q)
    PROVE  \A p : IsLastPlace(p, S \cup {q}) <=> p = q
<1>1. ASSUME NEW p \in S PROVE ~ Before(q, p)
  BY <1>1, PlaceTypes DEF Before
<1>2. ~ Before(q, q)
  BY PlaceTypes DEF Before
<1> QED
  BY <1>1, <1>2 DEF IsLastPlace

\* What an entry is when its tier is filled in.
LEMMA Filled ==
    ASSUME NEW a \in Agent
    PROVE  /\ WithTier(a) \in Agent
           /\ WithTier(a).id = a.id /\ WithTier(a).ip = a.ip /\ WithTier(a).hook = a.hook
           /\ WithTier(a).tier = IF a.tier = NoTier THEN Crew ELSE a.tier
  BY FleetAssumption DEF WithTier, Agent

\* Only the tenant of the block is touched; AddAgent finds it there.
LEMMA CallRows ==
    ASSUME TypeOK, FileTypeOK, ApplyBlock
    PROVE  LET t == Blocks[block].id
               e == WithTier(EntryAt(Place))
           IN  /\ t \in Tenants
               /\ \A s \in Tenants \ {t} :
                     mode'[s] = mode[s] /\ captain'[s] = captain[s] /\ agents'[s] = agents[s]
               /\ call = 1 => /\ mode'[t] = "isolated" /\ captain'[t] = None
                              /\ \A i \in AgentIds : agents'[t][i] = None
               /\ call = 2 => /\ mode'[t] = GetMode(t) \/ mode'[t] = mode[t]
                              /\ captain'[t] = Blocks[block].captain \/ Blocks[block].captain = None
                              /\ Blocks[block].captain = None => captain'[t] = captain[t]
                              /\ agents'[t] = agents[t]
               /\ call = 3 => /\ mode'[t] = ModeOf(Blocks[block].mode)
                              /\ captain'[t] = captain[t] /\ agents'[t] = agents[t]
               /\ call > 3 => /\ mode'[t] = GetMode(t) /\ captain'[t] = captain[t]
                              /\ e \in Agent /\ e.id \in AgentIds /\ e.ip \in IPs \cup {NoIP}
                              /\ e.id = EntryAt(Place).id /\ e.ip = EntryAt(Place).ip
                              /\ agents' = [agents EXCEPT ![t][e.id] = e]
                              /\ tenantOf' = [tenantOf EXCEPT ![e.id] = t]
                              /\ byIP' = IF e.ip = NoIP THEN byIP ELSE [byIP EXCEPT ![e.ip] = e]
               /\ call <= 3 => tenantOf' = tenantOf /\ byIP' = byIP
<1> DEFINE t == Blocks[block].id
           e == WithTier(EntryAt(Place))
<1>1. block \in DOMAIN Blocks /\ call \in Nat \ {0} /\ Current = Blocks[block]
  BY MadeByCall DEF FileTypeOK, Current
<1>2. t \in Tenants /\ Current.id = t
  BY <1>1, BlockTypes DEF FileTypeOK
<1>3. CASE Create
  BY <1>1, <1>2, <1>3 DEF Create, CreateTenant, TypeOK
<1>4. CASE NameCaptain
  BY <1>1, <1>2, <1>4 DEF NameCaptain, SetCaptainName, TypeOK, vars
<1>5. CASE ChooseMode
  BY <1>1, <1>2, <1>5 DEF ChooseMode, SetMode, TypeOK
<1>6. CASE EnterAgent
  <2>1. call > 3
    BY <1>6 DEF EnterAgent, ForBlock
  <2>2. Place \in Places /\ EntryAt(Place) = Current.agents[call - ForBlock]
    BY <1>1, <2>1, MadeByCall DEF Place, EntryAt, ForBlock
  <2>3. e \in Agent /\ e.id = EntryAt(Place).id /\ e.ip = EntryAt(Place).ip
    BY <2>2, PlaceTypes, Filled DEF FileTypeOK
  <2>4. e.id \in AgentIds /\ e.ip \in IPs \cup {NoIP}
    BY <2>3 DEF Agent
  <2>5. AddAgent(t, e)
    BY <1>2, <1>6, <2>2 DEF EnterAgent
  <2> HIDE DEF e
  <2>6. /\ mode' = [mode EXCEPT ![t] = GetMode(t)]
        /\ agents' = [agents EXCEPT ![t][e.id] = e]
        /\ tenantOf' = [tenantOf EXCEPT ![e.id] = t]
        /\ byIP' = IF e.ip = NoIP THEN byIP ELSE [byIP EXCEPT ![e.ip] = e]
        /\ captain' = captain
    BY <2>5 DEF AddAgent
  <2>7. /\ \A s \in Tenants \ {t} :
             mode'[s] = mode[s] /\ captain'[s] = captain[s] /\ agents'[s] = agents[s]
        /\ mode'[t] = GetMode(t) /\ captain'[t] = captain[t]
    BY <1>2, <2>6 DEF TypeOK
  <2> QED
    BY <1>1, <1>2, <2>1, <2>3, <2>4, <2>6, <2>7 DEF e
<1> QED
  BY <1>3, <1>4, <1>5, <1>6 DEF ApplyBlock

\* What a call makes of the entries that are looked for: it adds its own, if it
\* has one and that is looked for, and then as the last.
LEMMA EntriesByCall ==
    ASSUME FileTypeOK, ApplyBlock
    PROVE  /\ \A k, i : EntriesIn(MadePlaces, k, i)' =
                IF call > 3 /\ k = block /\ EntryAt(Place).id = i
                THEN EntriesIn(MadePlaces, k, i) \cup {Place} ELSE EntriesIn(MadePlaces, k, i)
           /\ \A i : EntriesFor(MadePlaces, i)' =
                IF call > 3 /\ EntryAt(Place).id = i
                THEN EntriesFor(MadePlaces, i) \cup {Place} ELSE EntriesFor(MadePlaces, i)
           /\ \A ip : EntriesUnder(MadePlaces, ip)' =
                IF call > 3 /\ EntryAt(Place).ip = ip
                THEN EntriesUnder(MadePlaces, ip) \cup {Place} ELSE EntriesUnder(MadePlaces, ip)
           /\ call > 3 => \A S \in SUBSET MadePlaces :
                \A p : IsLastPlace(p, S \cup {Place}) <=> p = Place
<1>1. \A p : EntryAt(p)' = EntryAt(p)
  BY SameFile DEF ApplyBlock
<1>2. call \in Nat /\ MadePlaces' = IF call > 3 THEN MadePlaces \cup {Place} ELSE MadePlaces
  BY MadeByCall DEF Place, ForBlock, FileTypeOK
<1>3. \A k, i : EntriesIn(MadePlaces, k, i)' =
        IF call > 3 /\ k = block /\ EntryAt(Place).id = i
        THEN EntriesIn(MadePlaces, k, i) \cup {Place} ELSE EntriesIn(MadePlaces, k, i)
  <2>1. Place[1] = block
    BY DEF Place
  <2> HIDE DEF Place
  <2> QED
    BY <1>1, <1>2, <2>1 DEF EntriesIn
<1>4. \A i : EntriesFor(MadePlaces, i)' =
        IF call > 3 /\ EntryAt(Place).id = i
        THEN EntriesFor(MadePlaces, i) \cup {Place} ELSE EntriesFor(MadePlaces, i)
  BY <1>1, <1>2 DEF EntriesFor
<1>5. \A ip : EntriesUnder(MadePlaces, ip)' =
        IF call > 3 /\ EntryAt(Place).ip = ip
        THEN EntriesUnder(MadePlaces, ip) \cup {Place} ELSE EntriesUnder(MadePlaces, ip)
  BY <1>1, <1>2 DEF EntriesUnder
<1>6. ASSUME call > 3, NEW S \in SUBSET MadePlaces
      PROVE  \A p : IsLastPlace(p, S \cup {Place}) <=> p = Place
  <2>1. Place \in Places /\ \A p \in S : Before(p, Place)
    BY <1>6, MadeByCall DEF Place, ForBlock
  <2>2. S \in SUBSET Places
    BY <1>6 DEF MadePlaces
  <2> QED
    BY <2>1, <2>2, LastIsNew DEF FileTypeOK
<1> QED
  BY <1>3, <1>4, <1>5, <1>6

LEMMA TenantIndexStep ==
    ASSUME TypeOK, FileTypeOK, ApplyBlock, TenantIndexSoFar
    PROVE  TenantIndexSoFar'
<1>1. Blocks' = Blocks /\ call \in Nat
  BY MadeByCall DEF FileTypeOK
<1>2. ASSUME NEW i \in AgentIds, call > 3 => EntryAt(Place).id # i
      PROVE  EntriesFor(MadePlaces, i)' = EntriesFor(MadePlaces, i) /\ tenantOf'[i] = tenantOf[i]
  BY <1>1, <1>2, EntriesByCall, CallRows DEF TypeOK
<1>3. ASSUME NEW i \in AgentIds, call > 3, EntryAt(Place).id = i
      PROVE  /\ EntriesFor(MadePlaces, i)' # {}
             /\ \A p : IsLastPlace(p, EntriesFor(MadePlaces, i)') <=> p = Place
             /\ tenantOf'[i] = Blocks[Place[1]].id
  <2>1. EntriesFor(MadePlaces, i)' = EntriesFor(MadePlaces, i) \cup {Place}
    BY <1>3, EntriesByCall
  <2>2. \A p : IsLastPlace(p, EntriesFor(MadePlaces, i) \cup {Place}) <=> p = Place
    <3>1. EntriesFor(MadePlaces, i) \in SUBSET MadePlaces
      BY DEF EntriesFor
    <3> QED
      BY <1>3, <3>1, EntriesByCall
  <2>3. tenantOf'[i] = Blocks[block].id
    BY <1>3, CallRows DEF TypeOK
  <2>4. Place[1] = block
    BY DEF Place
  <2> QED
    BY <2>1, <2>2, <2>3, <2>4
<1>4. ASSUME NEW i \in AgentIds
      PROVE  /\ EntriesFor(MadePlaces, i)' = {} => tenantOf'[i] = None
             /\ \A p \in EntriesFor(MadePlaces, i)' :
                   IsLastPlace(p, EntriesFor(MadePlaces, i)') => tenantOf'[i] = Blocks[p[1]].id
  <2>1. CASE call > 3 => EntryAt(Place).id # i
    BY <1>2, <2>1 DEF TenantIndexSoFar
  <2>2. CASE call > 3 /\ EntryAt(Place).id = i
    BY <1>3, <2>2
  <2> QED
    BY <2>1, <2>2
<1>5. \A p, S : IsLastPlace(p, S)' <=> IsLastPlace(p, S')
  BY DEF IsLastPlace, Before
<1> QED
  BY <1>1, <1>4 DEF TenantIndexSoFar, IsLastPlace, Before

LEMMA AddressIndexStep ==
    ASSUME TypeOK, FileTypeOK, ApplyBlock, AddressIndexSoFar
    PROVE  AddressIndexSoFar'
<1>1. call \in Nat /\ \A p : EntryAt(p)' = EntryAt(p)
  BY SameFile DEF FileTypeOK, ApplyBlock
<1>2. ASSUME NEW ip \in IPs, call > 3 => EntryAt(Place).ip # ip
      PROVE  EntriesUnder(MadePlaces, ip)' = EntriesUnder(MadePlaces, ip) /\ byIP'[ip] = byIP[ip]
  BY <1>1, <1>2, EntriesByCall, CallRows DEF TypeOK
<1>3. ASSUME NEW ip \in IPs, call > 3, EntryAt(Place).ip = ip
      PROVE  /\ EntriesUnder(MadePlaces, ip)' # {}
             /\ \A p : IsLastPlace(p, EntriesUnder(MadePlaces, ip)') <=> p = Place
             /\ byIP'[ip] = WithTier(EntryAt(Place))
  <2>1. EntriesUnder(MadePlaces, ip)' = EntriesUnder(MadePlaces, ip) \cup {Place}
    BY <1>3, EntriesByCall
  <2>2. \A p : IsLastPlace(p, EntriesUnder(MadePlaces, ip) \cup {Place}) <=> p = Place
    <3>1. EntriesUnder(MadePlaces, ip) \in SUBSET MadePlaces
      BY DEF EntriesUnder
    <3> QED
      BY <1>3, <3>1, EntriesByCall
  <2>3. byIP'[ip] = WithTier(EntryAt(Place))
    BY <1>3, CallRows, FleetAssumption DEF TypeOK
  <2> QED
    BY <2>1, <2>2, <2>3
<1>4. ASSUME NEW ip \in IPs
      PROVE  /\ EntriesUnder(MadePlaces, ip)' = {} => byIP'[ip] = None
             /\ \A p \in EntriesUnder(MadePlaces, ip)' :
                   IsLastPlace(p, EntriesUnder(MadePlaces, ip)') =>
                      byIP'[ip] = WithTier(EntryAt(p))
  <2>1. CASE call > 3 => EntryAt(Place).ip # ip
    BY <1>2, <2>1 DEF AddressIndexSoFar
  <2>2. CASE call > 3 /\ EntryAt(Place).ip = ip
    BY <1>3, <2>2
  <2> QED
    BY <2>1, <2>2
<1> QED
  BY <1>1, <1>4 DEF AddressIndexSoFar, IsLastPlace, Before, WithTier

\* The tenant of the block is what the block says so far, the others are what
\* they were.
LEMMA TenantStep ==
    ASSUME TypeOK, FileTypeOK, ApplyBlock, NEW t \in Tenants, TenantSoFar(t)
    PROVE  TenantSoFar(t)'
<1>1. /\ block \in DOMAIN Blocks /\ block \in Nat \ {0} /\ call \in Nat \ {0}
      /\ Blocks' = Blocks /\ \A p : EntryAt(p)' = EntryAt(p)
  BY MadeByCall, SameFile DEF FileTypeOK, ApplyBlock
<1>2. BlocksOf(MadeBlocks, t)' = IF call = 1 /\ Blocks[block].id = t
                                 THEN BlocksOf(MadeBlocks, t) \cup {block}
                                 ELSE BlocksOf(MadeBlocks, t)
  BY <1>1, MadeByCall DEF BlocksOf
<1>3. \A k \in DOMAIN Blocks, c \in {2, 3} : Made(k, c)' <=> Made(k, c) \/ (k = block /\ c = call)
  <2>1. \A k \in DOMAIN Blocks : Len(Blocks[k].agents) \in Nat
    BY BlockTypes DEF FileTypeOK
  <2> QED
    BY <2>1, OneMore DEF ForBlock
<1>4. CASE t # Blocks[block].id
  <2>1. mode'[t] = mode[t] /\ captain'[t] = captain[t] /\ agents'[t] = agents[t]
    BY <1>4, CallRows
  <2>2. BlocksOf(MadeBlocks, t)' = BlocksOf(MadeBlocks, t)
    BY <1>2, <1>4
  <2>3. \A k \in BlocksOf(MadeBlocks, t) :
          /\ k \in DOMAIN Blocks /\ k # block
          /\ Made(k, 2)' <=> Made(k, 2)
          /\ Made(k, 3)' <=> Made(k, 3)
          /\ \A i : EntriesIn(MadePlaces, k, i)' = EntriesIn(MadePlaces, k, i)
    BY <1>3, <1>4, EntriesByCall DEF BlocksOf, MadeBlocks
  <2>4. ASSUME NEW k \in BlocksOf(MadeBlocks, t), AgentsSoFar(t, k)
        PROVE  AgentsSoFar(t, k)'
    BY <1>1, <2>1, <2>3, <2>4 DEF AgentsSoFar, IsLastPlace, Before, WithTier
  <2>5. BlocksOf(MadeBlocks, t)' = {} => ~ Exists(t)'
    BY <2>1, <2>2 DEF TenantSoFar, Exists
  <2>6. ASSUME NEW k \in BlocksOf(MadeBlocks, t), IsLast(k, BlocksOf(MadeBlocks, t))
        PROVE  /\ mode'[t] = IF Made(k, 3)' THEN ModeOf(Blocks[k].mode) ELSE "isolated"
               /\ captain'[t] = IF Made(k, 2)' THEN Blocks[k].captain ELSE None
               /\ AgentsSoFar(t, k)'
    BY <2>1, <2>3, <2>4, <2>6 DEF TenantSoFar
  <2> QED
    BY <1>1, <2>2, <2>5, <2>6 DEF TenantSoFar, IsLast, ModeOf
<1>5. CASE t = Blocks[block].id
  <2>0. PICK b : b = block
    OBVIOUS
  <2>1. \A k : k \in BlocksOf(MadeBlocks, t)' /\ IsLast(k, BlocksOf(MadeBlocks, t)') <=> k = b
    <3>1. b \in BlocksOf(MadeBlocks, t)'
      BY <1>1, <2>0, <1>2, <1>5, MadeByCall DEF BlocksOf
    <3>2. \A k \in BlocksOf(MadeBlocks, t)' : k \in Nat /\ k <= b
      BY <1>1, <2>0, <1>2, MadeByCall DEF BlocksOf
    <3> QED
      BY <1>1, <2>0, <3>1, <3>2 DEF IsLast
  <2>2. call # 1 => /\ mode[t] = IF Made(b, 3) THEN ModeOf(Blocks[b].mode) ELSE "isolated"
                    /\ captain[t] = IF Made(b, 2) THEN Blocks[b].captain ELSE None
                    /\ AgentsSoFar(t, b)
    <3> SUFFICES ASSUME call # 1
                 PROVE  b \in BlocksOf(MadeBlocks, t) /\ IsLast(b, BlocksOf(MadeBlocks, t))
      BY DEF TenantSoFar
    <3>1. BlocksOf(MadeBlocks, t) = BlocksOf(MadeBlocks, t)'
      BY <1>2
    <3> QED
      BY <2>0, <2>1, <3>1
  <2>3. /\ Made(b, 2) <=> call > 2
        /\ Made(b, 3) <=> call > 3
        /\ Made(b, 2)' <=> call >= 2
        /\ Made(b, 3)' <=> call >= 3
    <3>1. Made(b, 2) <=> call > 2
      BY <1>1, <2>0 DEF Made
    <3>2. Made(b, 3) <=> call > 3
      BY <1>1, <2>0 DEF Made
    <3> QED
      BY <1>1, <2>0, <1>3, <3>1, <3>2
  <2>4. call # 1 => GetMode(t) = mode[t]
    BY <2>0, <2>2, FleetAssumption DEF GetMode, Exists, ModeOf, FleetModes
  <2>5. mode'[t] = IF Made(b, 3)' THEN ModeOf(Blocks[b].mode) ELSE "isolated"
    BY <1>1, <2>0, <1>5, <2>2, <2>3, <2>4, CallRows
  <2>6. captain'[t] = IF Made(b, 2)' THEN Blocks[b].captain ELSE None
    BY <1>1, <2>0, <1>5, <2>2, <2>3, CallRows
  <2>7. ASSUME NEW i \in AgentIds
        PROVE  LET here == EntriesIn(MadePlaces, b, i)' IN
               /\ here = {} => agents'[t][i] = None
               /\ \A p \in here : IsLastPlace(p, here) => agents'[t][i] = WithTier(EntryAt(p))
    <3> DEFINE here == EntriesIn(MadePlaces, b, i)
    <3>1. CASE call = 1
      <4>1. here = {}
        BY <2>0, <3>1, MadeByCall DEF EntriesIn
      <4>2. here' = {}
        BY <2>0, <3>1, <4>1, EntriesByCall
      <4>3. agents'[t][i] = None
        BY <1>5, <2>0, <3>1, CallRows
      <4> QED
        BY <4>2, <4>3
    <3>2. CASE call # 1 /\ (call > 3 => EntryAt(Place).id # i)
      <4>1. here' = here
        BY <2>0, <3>2, EntriesByCall
      <4>2. agents'[t][i] = agents[t][i]
        <5>1. CASE call > 3
          BY <1>5, <2>0, <3>2, <5>1, CallRows DEF TypeOK
        <5>2. CASE call = 2 \/ call = 3
          BY <1>5, <2>0, <5>2, CallRows
        <5> QED
          BY <1>1, <2>0, <3>2, <5>1, <5>2
      <4>3. /\ here = {} => agents[t][i] = None
            /\ \A p \in here : IsLastPlace(p, here) => agents[t][i] = WithTier(EntryAt(p))
        BY <2>0, <2>2, <3>2 DEF AgentsSoFar
      <4> QED
        BY <4>1, <4>2, <4>3
    <3>3. CASE call > 3 /\ EntryAt(Place).id = i
      <4>1. here' = here \cup {Place}
        BY <2>0, <3>3, EntriesByCall
      <4>2. here \in SUBSET MadePlaces
        BY DEF EntriesIn
      <4>3. agents'[t][i] = WithTier(EntryAt(Place))
        BY <1>5, <2>0, <3>3, CallRows DEF TypeOK
      <4>4. \A p : IsLastPlace(p, here \cup {Place}) <=> p = Place
        BY <3>3, <4>2, EntriesByCall
      <4> QED
        BY <4>1, <4>3, <4>4
    <3> QED
      BY <1>1, <2>0, <3>1, <3>2, <3>3
  <2>8. AgentsSoFar(t, b)'
    <3>1. \A i \in AgentIds : EntriesIn(MadePlaces, b, i)' = EntriesIn(MadePlaces', block, i)
      BY <1>1, <2>0 DEF EntriesIn
    <3> QED
      BY <1>1, <2>0, <2>7 DEF AgentsSoFar, IsLastPlace, Before, WithTier
  <2> QED
    BY <1>1, <2>0, <2>1, <2>5, <2>6, <2>8 DEF TenantSoFar, IsLast, ModeOf
<1> QED
  BY <1>4, <1>5

LEMMA TokensKept ==
    ASSUME FileTypeOK, ApplyBlock, TokensSoFar
    PROVE  TokensSoFar'
<1>1. TokenEntries' = TokenEntries /\ MadeTokens' = MadeTokens /\ tokens' = tokens
  BY MadeByCall DEF ApplyBlock
<1> QED
  BY <1>1 DEF TokensSoFar, EntriesOf, IsLast

\* A registration is the last of its token; the fleet is as the blocks left it.
LEMMA RegisterStep ==
    ASSUME FileTypeOK, ReverseTypeOK, RegisterToken, SoFar
    PROVE  SoFar'
<1>1. /\ Blocks' = Blocks /\ TokenEntries' = TokenEntries /\ Places' = Places
      /\ \A p : EntryAt(p)' = EntryAt(p)
  BY SameFile DEF RegisterToken
<1>2. /\ block' = block /\ call' = call + 1 /\ block \in Nat /\ call \in Nat \ {0}
      /\ block > Len(Blocks) /\ Len(Blocks) \in Nat /\ call \in DOMAIN TokenEntries
      /\ UNCHANGED <<mode, captain, agents, tenantOf, byIP>>
  BY FileTypes DEF RegisterToken, FileTypeOK, vars
<1>3. \A k \in DOMAIN Blocks : \A c : Made(k, c) /\ Made(k, c)'
  <2>1. \A k \in DOMAIN Blocks : k \in Nat /\ k <= Len(Blocks)
    BY FileTypes DEF FileTypeOK
  <2> QED
    BY <1>2, <2>1 DEF Made
<1>4. MadeBlocks' = MadeBlocks /\ MadePlaces' = MadePlaces
  <2>1. \A p \in Places : p[1] \in DOMAIN Blocks
    BY PlaceTypes DEF FileTypeOK
  <2> QED
    BY <1>1, <1>3, <2>1 DEF MadeBlocks, MadePlaces
<1>5. ASSUME NEW t \in Tenants PROVE TenantSoFar(t)'
  <2>1. BlocksOf(MadeBlocks, t)' = BlocksOf(MadeBlocks, t)
    BY <1>1, <1>4 DEF BlocksOf
  <2>2. \A k \in BlocksOf(MadeBlocks, t) :
          /\ k \in DOMAIN Blocks
          /\ AgentsSoFar(t, k) => AgentsSoFar(t, k)'
    BY <1>1, <1>2, <1>4
       DEF BlocksOf, MadeBlocks, AgentsSoFar, EntriesIn, IsLastPlace, Before, WithTier
  <2> QED
    BY <1>1, <1>2, <1>3, <2>1, <2>2 DEF SoFar, TenantSoFar, IsLast, Exists, ModeOf
<1>6. TenantIndexSoFar'
  BY <1>1, <1>2, <1>4 DEF SoFar, TenantIndexSoFar, EntriesFor, IsLastPlace, Before
<1>7. AddressIndexSoFar'
  BY <1>1, <1>2, <1>4 DEF SoFar, AddressIndexSoFar, EntriesUnder, IsLastPlace, Before, WithTier
<1>8. TokensSoFar'
  <2>1. MadeTokens' = MadeTokens \cup {call} /\ \A n \in MadeTokens : n \in Nat /\ n < call
    <3>1. \A n \in DOMAIN TokenEntries : n \in Nat
      BY FileTypes DEF FileTypeOK
    <3> QED
      BY <1>1, <1>2, <3>1 DEF MadeTokens
  <2> DEFINE e == TokenEntries[call]
  <2>2. e.token \in Tokens /\ tokens' = [tokens EXCEPT ![e.token] = e.tenant]
    <3>1. e \in TokenEntry
      BY <1>2, FileTypes, ElementOfSeq DEF FileTypeOK
    <3> QED
      BY <3>1 DEF TokenEntry, RegisterToken
  <2>3. ASSUME NEW k \in Tokens, k # e.token
        PROVE  EntriesOf(MadeTokens, k)' = EntriesOf(MadeTokens, k) /\ tokens'[k] = tokens[k]
    BY <1>1, <2>1, <2>2, <2>3 DEF EntriesOf, ReverseTypeOK
  <2>4. ASSUME NEW k \in Tokens, k = e.token
        PROVE  /\ EntriesOf(MadeTokens, k)' # {}
               /\ tokens'[k] = e.tenant
               /\ \A n \in EntriesOf(MadeTokens, k)' :
                     IsLast(n, EntriesOf(MadeTokens, k)') => TokenEntries[n] = e
    <3>1. EntriesOf(MadeTokens, k)' = EntriesOf(MadeTokens, k) \cup {call}
      BY <1>1, <2>1, <2>4 DEF EntriesOf
    <3>2. \A n \in EntriesOf(MadeTokens, k) : n \in Nat /\ n < call
      BY <2>1 DEF EntriesOf
    <3>3. tokens'[k] = e.tenant
      BY <2>2, <2>4 DEF ReverseTypeOK
    <3>0. TokenEntries[call] = e
      OBVIOUS
    <3> HIDE DEF e
    <3>4. ASSUME NEW n \in EntriesOf(MadeTokens, k)', IsLast(n, EntriesOf(MadeTokens, k)')
          PROVE  n = call
      <4>1. call \in EntriesOf(MadeTokens, k)' /\ call \in Nat
        BY <1>2, <3>1
      <4>2. call <= n
        BY <3>4, <4>1 DEF IsLast
      <4>3. CASE n \in EntriesOf(MadeTokens, k)
        BY <3>2, <4>1, <4>2, <4>3
      <4> QED
        BY <3>1, <4>3
    <3>5. EntriesOf(MadeTokens, k)' # {}
      BY <3>1
    <3> QED
      BY <3>0, <3>3, <3>4, <3>5
  <2> HIDE DEF e
  <2>5. ASSUME NEW k \in Tokens
        PROVE  /\ EntriesOf(MadeTokens, k)' = {} => tokens'[k] = None
               /\ \A n \in EntriesOf(MadeTokens, k)' :
                     IsLast(n, EntriesOf(MadeTokens, k)') => tokens'[k] = TokenEntries[n].tenant
    <3>1. CASE k = e.token
      BY <2>4, <3>1
    <3>2. CASE k # e.token
      BY <2>3, <3>2 DEF SoFar, TokensSoFar
    <3> QED
      BY <3>1, <3>2
  <2> QED
    BY <1>1, <2>5 DEF TokensSoFar, IsLast
<1> QED
  BY <1>5, <1>6, <1>7, <1>8 DEF SoFar

LEMMA SoFarStep ==
    ASSUME ReverseTypeOK, FileTypeOK, ConfigStep, SoFar
    PROVE  SoFar'
<1>1. CASE ApplyBlock
  <2>1. TypeOK
    BY DEF ReverseTypeOK
  <2> QED
    BY <1>1, <2>1, TenantStep, TenantIndexStep, AddressIndexStep, TokensKept DEF SoFar
<1>2. CASE RegisterToken
  BY <1>2, RegisterStep
<1> QED
  BY <1>1, <1>2 DEF ConfigStep

\* Nor does it change by itself.
LEMMA SoFarSame ==
    ASSUME UNCHANGED <<vars, configVars>>, SoFar
    PROVE  SoFar'
<1>1. /\ Blocks' = Blocks /\ TokenEntries' = TokenEntries /\ Places' = Places
      /\ \A p : EntryAt(p)' = EntryAt(p)
  BY SameFile DEF configVars
<1>2. /\ UNCHANGED <<mode, captain, agents, tenantOf, byIP, tokens, block, call>>
      /\ \A k, c : Made(k, c)' <=> Made(k, c)
  BY DEF vars, configVars, Made
<1>3. UNCHANGED <<MadeBlocks, MadePlaces, MadeTokens>>
  BY <1>1, <1>2 DEF MadeBlocks, MadePlaces, MadeTokens
<1>4. ASSUME NEW t \in Tenants PROVE TenantSoFar(t)'
  <2>1. BlocksOf(MadeBlocks, t)' = BlocksOf(MadeBlocks, t)
    BY <1>1, <1>3 DEF BlocksOf
  <2>2. \A k : AgentsSoFar(t, k) => AgentsSoFar(t, k)'
    BY <1>1, <1>2, <1>3 DEF AgentsSoFar, EntriesIn, IsLastPlace, Before, WithTier
  <2> QED
    BY <1>1, <1>2, <2>1, <2>2 DEF SoFar, TenantSoFar, IsLast, Exists, ModeOf
<1>5. TenantIndexSoFar'
  BY <1>1, <1>2, <1>3 DEF SoFar, TenantIndexSoFar, EntriesFor, IsLastPlace, Before
<1>6. AddressIndexSoFar'
  BY <1>1, <1>2, <1>3 DEF SoFar, AddressIndexSoFar, EntriesUnder, IsLastPlace, Before, WithTier
<1>7. TokensSoFar'
  BY <1>1, <1>2, <1>3 DEF SoFar, TokensSoFar, EntriesOf, IsLast
<1> QED
  BY <1>4, <1>5, <1>6, <1>7 DEF SoFar

\* Before the first call nothing has been made.
LEMMA SoFarInit == ASSUME ReverseInit, FileTypeOK PROVE SoFar
<1>1. Init /\ block = 1 /\ call = 1 /\ tokens = [k \in Tokens |-> None]
  BY DEF ReverseInit, ConfigInit
<1>2. MadeBlocks = {}
  <2>1. \A k \in DOMAIN Blocks : k \in Nat \ {0}
    BY FileTypes DEF FileTypeOK
  <2> QED
    BY <1>1, <2>1 DEF MadeBlocks, Made
<1>3. MadePlaces = {}
  <2>1. \A p \in Places : p[1] \in Nat \ {0} /\ p[2] \in Nat \ {0}
    BY PlaceTypes DEF FileTypeOK
  <2> QED
    BY <1>1, <2>1 DEF MadePlaces, Made, ForBlock
<1>4. MadeTokens = {}
  <2>1. \A n \in DOMAIN TokenEntries : n \in Nat \ {0}
    BY FileTypes DEF FileTypeOK
  <2> QED
    BY <1>1, <2>1 DEF MadeTokens
<1>5. \A t \in Tenants : TenantSoFar(t)
  BY <1>1, <1>2 DEF Init, TenantSoFar, BlocksOf, Exists
<1>6. TenantIndexSoFar /\ AddressIndexSoFar
  BY <1>1, <1>3 DEF Init, TenantIndexSoFar, AddressIndexSoFar, EntriesFor, EntriesUnder
<1>7. TokensSoFar
  BY <1>1, <1>4 DEF TokensSoFar, EntriesOf
<1> QED
  BY <1>5, <1>6, <1>7 DEF SoFar

Listed == (\A t \in Tenants : TenantAsListed(t)) /\ IndexesAsListed /\ TokensAsListed

\* After the last call everything has been made.
LEMMA SoFarIsAll == FileTypeOK /\ Loaded /\ SoFar => Listed
<1> SUFFICES ASSUME FileTypeOK, Loaded, SoFar PROVE Listed
  OBVIOUS
<1>1. \A k \in DOMAIN Blocks : \A c : Made(k, c)
  BY FileTypes DEF FileTypeOK, Loaded, Made
<1>2. MadeBlocks = DOMAIN Blocks
  BY <1>1 DEF MadeBlocks
<1>3. MadePlaces = Places
  <2>1. \A p \in Places : p[1] \in DOMAIN Blocks
    BY PlaceTypes DEF FileTypeOK
  <2> QED
    BY <1>1, <2>1 DEF MadePlaces
<1>4. MadeTokens = DOMAIN TokenEntries
  <2>1. \A n \in DOMAIN TokenEntries : block > Len(Blocks) /\ call > n
    BY FileTypes DEF FileTypeOK, Loaded
  <2> QED
    BY <2>1 DEF MadeTokens
<1>5. ASSUME NEW p \in Places PROVE Means(WithTier(EntryAt(p)), p)
  <2> DEFINE e == EntryAt(p)
  <2>1. e \in Agent
    BY PlaceTypes DEF FileTypeOK
  <2>2. WithTier(e) = IF e.tier = NoTier THEN [e EXCEPT !.tier = Crew] ELSE e
    BY DEF WithTier
  <2> HIDE DEF e
  <2>3. WithTier(e) # None /\ WithTier(e).tier = IF e.tier = NoTier THEN Crew ELSE e.tier
    BY <2>1, Filled, FleetAssumption
  <2>4. [WithTier(e) EXCEPT !.tier = NoTier] = [e EXCEPT !.tier = NoTier]
    BY <2>1, <2>2 DEF Agent
  <2> QED
    BY <2>3, <2>4 DEF Means, e
<1>6. ASSUME NEW t \in Tenants PROVE TenantAsListed(t)
  <2> DEFINE mine == {k \in DOMAIN Blocks : Blocks[k].id = t}
  <2>1. BlocksOf(MadeBlocks, t) = mine
    BY <1>2 DEF BlocksOf
  <2>2. mine = {} => ~ Exists(t)
    BY <2>1 DEF SoFar, TenantSoFar
  <2>3. ASSUME NEW k \in mine, IsLast(k, mine)
        PROVE  /\ mode[t] = ModeOf(Blocks[k].mode) /\ captain[t] = Blocks[k].captain
               /\ AgentsSoFar(t, k)
    BY <1>1, <2>1, <2>3 DEF SoFar, TenantSoFar
  <2>4. ASSUME NEW k \in mine, IsLast(k, mine)
        PROVE  /\ Exists(t)
               /\ mode[t] = "fleet" <=> Blocks[k].mode = "fleet"
    BY <2>3, <2>4, FleetAssumption DEF Exists, ModeOf, FleetModes
  <2>5. ASSUME NEW k \in mine, IsLast(k, mine), NEW i \in AgentIds
        PROVE  LET here == {p \in Places : p[1] = k /\ EntryAt(p).id = i} IN
               /\ here = {} => agents[t][i] = None
               /\ \A p \in here : IsLastPlace(p, here) => Means(agents[t][i], p)
    <3>1. EntriesIn(MadePlaces, k, i) = {p \in Places : p[1] = k /\ EntryAt(p).id = i}
      BY <1>3 DEF EntriesIn
    <3>2. AgentsSoFar(t, k)
      BY <2>3, <2>5
    <3> QED
      BY <1>5, <3>1, <3>2 DEF AgentsSoFar
  <2> QED
    BY <2>2, <2>3, <2>4, <2>5 DEF TenantAsListed
<1>7. IndexesAsListed
  <2>1. \A i : EntriesFor(MadePlaces, i) = {p \in Places : EntryAt(p).id = i}
    BY <1>3 DEF EntriesFor
  <2>2. \A ip : EntriesUnder(MadePlaces, ip) = {p \in Places : EntryAt(p).ip = ip}
    BY <1>3 DEF EntriesUnder
  <2>3. TenantIndexSoFar /\ AddressIndexSoFar
    BY DEF SoFar
  <2> QED
    BY <1>5, <2>1, <2>2, <2>3 DEF IndexesAsListed, TenantIndexSoFar, AddressIndexSoFar
<1>8. TokensAsListed
  BY <1>4 DEF SoFar, TokensSoFar, TokensAsListed, EntriesOf
<1> QED
  BY <1>6, <1>7, <1>8 DEF Listed

\* loader.go, ApplyConfig, and main.go of the gateway: for every file, with
\* tenants, agents, addresses and tokens repeated in any way, the fleet is what
\* the file says once the last call is made.
THEOREM FilesAreTaken == ReverseSpec => ConfigTaken
<1> DEFINE Loading == ~ Loaded => SoFar
<1>1. ReverseInit /\ FileTypeOK => Loading
  BY SoFarInit
<1>2. ReverseTypeOK /\ FileTypeOK /\ FileTypeOK' /\ Loading /\ [ReverseNext]_reverseVars
         => Loading' /\ (~ Loaded /\ Loaded' => SoFar')
  <2> SUFFICES ASSUME ReverseTypeOK, FileTypeOK, FileTypeOK', Loading, [ReverseNext]_reverseVars
               PROVE  Loading' /\ (~ Loaded /\ Loaded' => SoFar')
    OBVIOUS
  <2>1. CASE Load
    BY <2>1, SoFarStep, LoadingUnloaded DEF Load
  <2>2. CASE Serve \/ Manage \/ UNCHANGED reverseVars
    <3>1. configVars' = configVars
      BY <2>2 DEF Serve, Manage, reverseVars
    <3>2. Loaded' <=> Loaded
      BY <3>1, SameFile DEF Loaded, configVars
    <3>3. CASE Loaded
      BY <3>2, <3>3
    <3>4. CASE ~ Loaded
      <4>1. UNCHANGED reverseVars
        BY <2>2, <3>4 DEF Serve, Manage
      <4>2. SoFar => SoFar'
        BY <4>1, SoFarSame DEF reverseVars
      <4> QED
        BY <3>2, <4>2
    <3> QED
      BY <3>3, <3>4
  <2> QED
    BY <2>1, <2>2 DEF ReverseNext
<1>3. FileTypeOK' /\ Loaded' /\ SoFar' => Listed'
  BY SoFarIsAll, PTL
<1>4. ReverseTypeOK /\ FileTypeOK /\ FileTypeOK' /\ Loading /\ [ReverseNext]_reverseVars
         => [ ~ Loaded /\ Loaded' =>
                /\ \A t \in Tenants : TenantAsListed(t)'
                /\ IndexesAsListed'
                /\ TokensAsListed' ]_<<vars, configVars>>
  BY <1>2, <1>3 DEF Listed
<1> QED
  BY <1>1, <1>2, <1>4, FileTypeAlways, GatewayTypeCorrect, PTL DEF ReverseSpec, ConfigTaken

-----------------------------------------------------------------------------
(* A request under way.  What is promised of it speaks of what the manager *)
(* held for it since it came, and the handler reads through a pointer that *)
(* the manager may have dropped.  RouteInv says that this pointer, and the *)
(* field about to be read, never hold anything else.                       *)

Entries == {x.entry : x \in routes}
CaptainNames == {x.name : x \in routes}

\* No request is served before the configuration is loaded.
ServedWhenLoaded == at # Idle => Loaded

\* The manager's own state is always among what was held.
PresentIsSeen == at # Idle => Held(tenantID, agentID) \in routes

\* So is that of the tenant the request was left with.
DroppedIsSeen ==
    at # Idle /\ object # Live =>
        object.agents[agentID] \in Entries /\ object.captain \in CaptainNames

\* So is whatever a read may return.
WindowIsSeen ==
    /\ at = "agent" => window \subseteq Entries
    /\ at = "captain" => window \subseteq CaptainNames

\* What has been read was seen, or is a mixture of what was.
EndpointIsSeen ==
    at \in {"captain", "forward"} =>
        \E e, f \in Entries \ {None} :
            \/ endpoint = EndpointOf(e.hook, f.ip)
            \/ endpoint = Torn /\ e # f

NameIsSeen ==
    at = "forward" =>
        \E n, m \in CaptainNames :
            \/ name = Mask(n, tenantID)
            \/ name = Torn /\ n # m

RouteInv ==
    /\ at \in {Idle, "agent", "captain", "forward"}
    /\ ServedWhenLoaded /\ PresentIsSeen /\ DroppedIsSeen
    /\ WindowIsSeen /\ EndpointIsSeen /\ NameIsSeen

-----------------------------------------------------------------------------

\* At the start nothing is under way.
LEMMA RouteInit == ReverseInit => RouteInv
  BY DEF ReverseInit, NoRequest, Idle, RouteInv, ServedWhenLoaded, PresentIsSeen,
         DroppedIsSeen, WindowIsSeen, EndpointIsSeen, NameIsSeen

\* Nor is anything when a request has been answered.
LEMMA RouteDone ==
    ASSUME Done
    PROVE  RouteInv'
  BY DEF Done, Idle, RouteInv, ServedWhenLoaded, PresentIsSeen,
         DroppedIsSeen, WindowIsSeen, EndpointIsSeen, NameIsSeen

LEMMA RouteManage ==
    ASSUME RouteInv, Manage
    PROVE  RouteInv'
<1>1. UNCHANGED <<at, tenantID, agentID, endpoint, name, Loaded>>
  BY DEF Manage, configVars, Loaded, Blocks, TokenEntries
<1>2. CASE at = Idle
  BY <1>1, <1>2 DEF Idle, RouteInv, ServedWhenLoaded, PresentIsSeen,
         DroppedIsSeen, WindowIsSeen, EndpointIsSeen, NameIsSeen
<1>3. CASE at # Idle
  <2>1. /\ routes' = routes \cup {Held(tenantID, agentID)'}
        /\ window' = IF at = "forward" THEN window ELSE window \cup {Field'}
    BY <1>3 DEF Manage
  <2>2. /\ Entries \subseteq Entries' /\ CaptainNames \subseteq CaptainNames'
        /\ agents'[tenantID][agentID] \in Entries' /\ captain'[tenantID] \in CaptainNames'
    <3> DEFINE h == [entry |-> agents'[tenantID][agentID], name |-> captain'[tenantID]]
    <3>1. routes' = routes \cup {h}
      BY <1>1, <2>1 DEF Held
    <3>2. h.entry = agents'[tenantID][agentID] /\ h.name = captain'[tenantID]
      OBVIOUS
    <3> HIDE DEF h
    <3> QED
      BY <3>1, <3>2 DEF Entries, CaptainNames
  <2>3. agents[tenantID][agentID] \in Entries /\ captain[tenantID] \in CaptainNames
    BY <1>3 DEF RouteInv, PresentIsSeen, Held, Entries, CaptainNames
  <2>4. DroppedIsSeen'
    <3>1. CASE object' = object
      BY <1>1, <1>3, <2>2, <3>1 DEF RouteInv, DroppedIsSeen
    <3>2. CASE object' = [agents |-> agents[tenantID], captain |-> captain[tenantID]]
      BY <1>1, <2>2, <2>3, <3>2 DEF DroppedIsSeen
    <3> QED
      BY <3>1, <3>2, CallObject DEF Manage
  <2>5. Field' \in IF at = "agent" THEN Entries' ELSE CaptainNames'
    BY <1>1, <1>3, <2>2, <2>4 DEF Field, AgentsOf, CaptainOf, DroppedIsSeen
  <2>6. WindowIsSeen'
    BY <1>1, <2>1, <2>2, <2>5 DEF RouteInv, WindowIsSeen
  <2>7. PresentIsSeen' /\ ServedWhenLoaded'
    BY <1>1, <2>1 DEF RouteInv, PresentIsSeen, ServedWhenLoaded, Held
  <2>8. EndpointIsSeen'
    BY <1>1, <2>2 DEF RouteInv, EndpointIsSeen, EndpointOf
  <2>9. NameIsSeen'
    BY <1>1, <2>2 DEF RouteInv, NameIsSeen, Mask
  <2> QED
    BY <1>1, <2>4, <2>6, <2>7, <2>8, <2>9 DEF RouteInv
<1> QED
  BY <1>2, <1>3

LEMMA RouteServe ==
    ASSUME RouteInv, Serve
    PROVE  RouteInv'
<1>1. UNCHANGED <<agents, captain, Loaded>> /\ Loaded
  BY DEF Serve, vars, configVars, Loaded, Blocks, TokenEntries
<1>2. ASSUME NEW token \in Tokens, NEW i \in AgentIds, Receive(token, i)
      PROVE  RouteInv'
  <2>1. /\ at' = "agent" /\ object' = Live
        /\ routes' = {Held(tenantID', agentID')} /\ window' = {agents[tenantID'][agentID']}
    BY <1>2 DEF Receive, Held
  <2>2. PresentIsSeen' /\ WindowIsSeen'
    BY <1>1, <2>1 DEF PresentIsSeen, WindowIsSeen, Held, Entries
  <2> QED
    BY <1>1, <2>1, <2>2
       DEF RouteInv, ServedWhenLoaded, DroppedIsSeen, EndpointIsSeen, NameIsSeen
<1>3. ASSUME ReadAgent \/ ReadCaptain
      PROVE  /\ UNCHANGED <<tenantID, agentID, object, routes>>
             /\ PresentIsSeen' /\ ServedWhenLoaded' /\ DroppedIsSeen'
  <2>1. UNCHANGED <<tenantID, agentID, object, routes>> /\ at # Idle
    BY <1>3 DEF ReadAgent, ReadCaptain, Idle
  <2> QED
    BY <1>1, <2>1 DEF RouteInv, PresentIsSeen, ServedWhenLoaded, DroppedIsSeen, Held,
                      Entries, CaptainNames
<1>4. CASE ReadAgent
  <2>1. Entries' = Entries /\ CaptainNames' = CaptainNames
    BY <1>3, <1>4 DEF Entries, CaptainNames
  <2>2. CaptainOf(tenantID) \in CaptainNames
    BY <1>4 DEF ReadAgent, Idle, RouteInv, PresentIsSeen, DroppedIsSeen, CaptainOf, Held,
                CaptainNames
  <2>3. WindowIsSeen' /\ at' = "captain"
    BY <1>4, <2>1, <2>2 DEF ReadAgent, WindowIsSeen
  <2>4. PICK e \in window \ {None}, f \in window \ {None}, torn \in BOOLEAN :
           (torn => e # f) /\ endpoint' = IF torn THEN Torn ELSE EndpointOf(e.hook, f.ip)
    BY <1>4 DEF ReadAgent
  <2>5. e \in Entries \ {None} /\ f \in Entries \ {None}
    BY <1>4, <2>4 DEF ReadAgent, RouteInv, WindowIsSeen
  <2>6. EndpointIsSeen'
    BY <2>1, <2>4, <2>5 DEF EndpointIsSeen
  <2> QED
    BY <1>3, <1>4, <2>3, <2>6 DEF RouteInv, NameIsSeen
<1>5. CASE ReadCaptain
  <2>1. /\ Entries' = Entries /\ CaptainNames' = CaptainNames /\ window \subseteq CaptainNames
        /\ endpoint' = endpoint /\ at' = "forward"
    BY <1>3, <1>5 DEF Entries, CaptainNames, ReadCaptain, RouteInv, WindowIsSeen
  <2>2. EndpointIsSeen'
    BY <1>5, <2>1 DEF ReadCaptain, RouteInv, EndpointIsSeen, EndpointOf
  <2>3. NameIsSeen'
    BY <1>3, <1>5, <2>1 DEF ReadCaptain, NameIsSeen, Mask
  <2> QED
    BY <1>3, <1>5, <2>1, <2>2, <2>3 DEF RouteInv, WindowIsSeen
<1>6. CASE RefuseAgent \/ Respond
  BY <1>6, RouteDone DEF RefuseAgent, Respond
<1> QED
  BY <1>2, <1>4, <1>5, <1>6 DEF Serve

LEMMA RouteStep ==
    ASSUME RouteInv, FileTypeOK, [ReverseNext]_reverseVars
    PROVE  RouteInv'
<1>1. CASE Load
  <2>1. ~ Loaded
    BY <1>1, LoadingUnloaded DEF Load
  <2>2. at = Idle
    BY <2>1 DEF RouteInv, ServedWhenLoaded
  <2> QED
    BY <1>1, <2>2 DEF Load, reqVars, Idle, RouteInv, ServedWhenLoaded, PresentIsSeen,
                      DroppedIsSeen, WindowIsSeen, EndpointIsSeen, NameIsSeen
<1>2. CASE UNCHANGED reverseVars
  BY <1>2 DEF reverseVars, vars, configVars, reqVars, Loaded, Blocks, TokenEntries, RouteInv, ServedWhenLoaded, PresentIsSeen,
              Held, DroppedIsSeen, WindowIsSeen, EndpointIsSeen, NameIsSeen, Entries,
              CaptainNames, EndpointOf, Mask
<1> QED
  BY <1>1, <1>2, RouteManage, RouteServe DEF ReverseNext

LEMMA RouteAlways == ReverseSpec => []RouteInv
<1>1. RouteInv /\ FileTypeOK /\ [ReverseNext]_reverseVars => RouteInv'
  BY RouteStep
<1> QED
  BY <1>1, RouteInit, FileTypeAlways, PTL DEF ReverseSpec

-----------------------------------------------------------------------------

\* A request leaves for where its own tenant had that agent, and under a name
\* its tenant had, since it came, through every move of the agent and every
\* replacement of the tenant, or in the worst case with a torn string.
THEOREM RequestsStayInTenant == ReverseSpec => []ForwardedInTenant
<1>1. RouteInv => ForwardedInTenant
  BY DEF RouteInv, EndpointIsSeen, NameIsSeen, ForwardedInTenant, EndpointOf, Entries,
         CaptainNames
<1> QED
  BY <1>1, RouteAlways, PTL

\* What is not written while a request is under way cannot mislead it.
THEOREM UndisturbedRequestsAreExact == ReverseSpec => []UndisturbedIsExact
<1>1. ASSUME RouteInv, at = "forward", NEW x \in routes, routes = {x}
      PROVE  /\ x.entry # None /\ endpoint = EndpointOf(x.entry.hook, x.entry.ip)
             /\ name = Mask(x.name, tenantID)
  <2>1. Entries = {x.entry} /\ CaptainNames = {x.name}
    BY <1>1 DEF Entries, CaptainNames
  <2>2. x.entry # None /\ endpoint = EndpointOf(x.entry.hook, x.entry.ip)
    BY <1>1, <2>1 DEF RouteInv, EndpointIsSeen
  <2>3. name = Mask(x.name, tenantID)
    BY <1>1, <2>1 DEF RouteInv, NameIsSeen
  <2> QED
    BY <2>2, <2>3
<1>2. RouteInv => UndisturbedIsExact
  BY <1>1 DEF UndisturbedIsExact
<1> QED
  BY <1>2, RouteAlways, PTL

=============================================================================
