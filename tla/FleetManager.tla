---------------------------- MODULE FleetManager ----------------------------
(***************************************************************************)
(* internal/fleet/fleet.go: tenants, their agents, and the two indexes     *)
(* (agent to tenant, IP to agent) that the proxies and the console read.   *)
(* Every method holds the manager's mutex throughout, so each is a single  *)
(* step; what can go wrong is that the three maps come apart over a        *)
(* sequence of legal calls.                                                *)
(*                                                                         *)
(* Which calls are made is a parameter; what can be promised of an agent   *)
(* depends on the calls that name it, or its address.                      *)
(***************************************************************************)
EXTENDS Naturals, FiniteSets

CONSTANTS
    Tenants,     \* tenant IDs
    AgentIds,    \* agent IDs
    IPs,         \* addresses
    NoIP,        \* the empty address
    Hooks,       \* webhook URLs
    NoHook,      \* the empty webhook URL
    Tiers,       \* agent tiers
    NoTier,      \* the empty tier
    Crew,        \* the tier "crew", given to an agent without one
    None,        \* no tenant, no agent, no captain name
    Names,       \* captain names
    Adds,        \* the calls of AddAgent: a tenant and an agent
    Removes,     \* the calls of RemoveAgent: a tenant and an agent ID
    Recreates    \* the tenants for which CreateTenant is called again

Agent == [id : AgentIds, ip : IPs \cup {NoIP}, hook : Hooks \cup {NoHook},
          tier : Tiers \cup {NoTier}]

FleetModes == {"isolated", "fleet"}

ASSUME FleetAssumption ==
    /\ Adds \subseteq [tenant : Tenants, agent : Agent]
    /\ Removes \subseteq [tenant : Tenants, id : AgentIds]
    /\ Recreates \subseteq Tenants
    /\ None \notin Tenants /\ None \notin Agent /\ None \notin Names /\ None \notin FleetModes
    /\ NoIP \notin IPs /\ NoHook \notin Hooks
    /\ Crew \in Tiers

VARIABLES
    mode,       \* Tenant.Mode, or None: no such tenant
    captain,    \* Tenant.CaptainName
    agents,     \* Tenant.Agents, by ID
    tenantOf,   \* Manager.agentToTenant
    byIP        \* Manager.ipToAgent

vars == <<mode, captain, agents, tenantOf, byIP>>

TypeOK ==
    /\ mode \in [Tenants -> FleetModes \cup {None}]
    /\ captain \in [Tenants -> Names \cup {None}]
    /\ agents \in [Tenants -> [AgentIds -> Agent \cup {None}]]
    /\ \A t \in Tenants, i \in AgentIds : agents[t][i] # None => agents[t][i].id = i
    /\ tenantOf \in [AgentIds -> Tenants \cup {None}]
    /\ byIP \in [IPs -> Agent \cup {None}]

Init ==
    /\ mode = [t \in Tenants |-> None]
    /\ captain = [t \in Tenants |-> None]
    /\ agents = [t \in Tenants |-> [i \in AgentIds |-> None]]
    /\ tenantOf = [i \in AgentIds |-> None]
    /\ byIP = [ip \in IPs |-> None]

Exists(t) == mode[t] # None

-----------------------------------------------------------------------------
(* What the manager answers.                                               *)

\* ValidateAgentIP, whose answer the forward proxy acts on.
ValidAgentIP(ip) == byIP[ip] # None
TierOf(ip) == IF byIP[ip].tier = NoTier THEN Crew ELSE byIP[ip].tier

Members(t) == {i \in AgentIds : agents[t][i] # None}

\* GetMode.
GetMode(t) == IF Exists(t) THEN mode[t] ELSE "isolated"

\* GetAgents: nothing unless the tenant exists and is in fleet mode.
GetAgents(t) == IF GetMode(t) = "isolated" THEN {} ELSE Members(t)

\* GetAgentsForAgent.
GetAgentsForAgent(i) ==
    IF tenantOf[i] = None THEN {} ELSE GetAgents(tenantOf[i]) \ {i}

\* CanCommunicate.
CanCommunicate(from, to) ==
    /\ tenantOf[from] # None
    /\ tenantOf[from] = tenantOf[to]
    /\ Exists(tenantOf[from])
    /\ mode[tenantOf[from]] = "fleet"

-----------------------------------------------------------------------------
(* The calls that change the fleet.                                        *)

\* CreateTenant puts a fresh tenant in the place of one it finds, and leaves
\* the indexes alone.
CreateTenant(t) ==
    /\ Exists(t) => t \in Recreates
    /\ mode' = [mode EXCEPT ![t] = "isolated"]
    /\ captain' = [captain EXCEPT ![t] = None]
    /\ agents' = [agents EXCEPT ![t] = [i \in AgentIds |-> None]]
    /\ UNCHANGED <<tenantOf, byIP>>

\* Mutant: a tenant created on the way is open.
SetCaptainNameOpen(t, name) ==
    /\ captain' = [captain EXCEPT ![t] = name]
    /\ mode' = [mode EXCEPT ![t] = IF Exists(t) THEN @ ELSE "fleet"]
    /\ UNCHANGED <<agents, tenantOf, byIP>>

\* SetCaptainName creates the tenant, isolated, if need be.
SetCaptainName(t, name) ==
    /\ captain' = [captain EXCEPT ![t] = name]
    /\ mode' = [mode EXCEPT ![t] = GetMode(t)]
    /\ UNCHANGED <<agents, tenantOf, byIP>>

\* SetMode creates the tenant if need be.
SetMode(t, m) ==
    /\ mode' = [mode EXCEPT ![t] = m]
    /\ UNCHANGED <<captain, agents, tenantOf, byIP>>

\* Mutant: the empty address is put into the index as well.
AddAgentIndexEmpty(t, agent) ==
    /\ mode' = [mode EXCEPT ![t] = GetMode(t)]
    /\ agents' = [agents EXCEPT ![t][agent.id] = agent]
    /\ tenantOf' = [tenantOf EXCEPT ![agent.id] = t]
    /\ byIP' = [ip \in IPs \cup {agent.ip} |-> IF ip = agent.ip THEN agent ELSE byIP[ip]]
    /\ UNCHANGED captain

\* AddAgent: an earlier entry of the agent, in another tenant or under another
\* address, stays where it is.
AddAgent(t, agent) ==
    /\ mode' = [mode EXCEPT ![t] = GetMode(t)]
    /\ agents' = [agents EXCEPT ![t][agent.id] = agent]
    /\ tenantOf' = [tenantOf EXCEPT ![agent.id] = t]
    /\ byIP' = IF agent.ip = NoIP THEN byIP ELSE [byIP EXCEPT ![agent.ip] = agent]
    /\ UNCHANGED captain

\* Mutant: the address stays in its index.
RemoveAgentKeepIP(t, i) ==
    /\ Exists(t)
    /\ agents' = [agents EXCEPT ![t][i] = None]
    /\ tenantOf' = [tenantOf EXCEPT ![i] = None]
    /\ UNCHANGED <<mode, captain, byIP>>

\* Mutant: the agent stays in the tenant index.
RemoveAgentKeepTenant(t, i) ==
    /\ Exists(t)
    /\ byIP' = IF agents[t][i] # None /\ agents[t][i].ip # NoIP
               THEN [byIP EXCEPT ![agents[t][i].ip] = None] ELSE byIP
    /\ agents' = [agents EXCEPT ![t][i] = None]
    /\ UNCHANGED <<mode, captain, tenantOf>>

\* RemoveAgent of a tenant that does not exist returns at once.  The address
\* freed is the one the tenant's own entry names; the tenant index is cleared
\* even if the agent was not this tenant's.
RemoveAgent(t, i) ==
    /\ Exists(t)
    /\ byIP' = IF agents[t][i] # None /\ agents[t][i].ip # NoIP
               THEN [byIP EXCEPT ![agents[t][i].ip] = None] ELSE byIP
    /\ agents' = [agents EXCEPT ![t][i] = None]
    /\ tenantOf' = [tenantOf EXCEPT ![i] = None]
    /\ UNCHANGED <<mode, captain>>

Next ==
    \/ \E t \in Tenants :
          \/ CreateTenant(t)
          \/ \E name \in Names : SetCaptainName(t, name)
          \/ \E m \in FleetModes : SetMode(t, m)
    \/ \E x \in Adds : AddAgent(x.tenant, x.agent)
    \/ \E x \in Removes : RemoveAgent(x.tenant, x.id)

Spec == Init /\ [][Next]_vars

-----------------------------------------------------------------------------
(* Properties.                                                             *)

\* The agent keeps its place, whatever becomes of the others: it belongs to one
\* tenant, which is never created again, and has one address, which is no other
\* agent's; only its own tenant is told to remove it.
Keeps(i) ==
    \A x \in Adds : x.agent.id = i =>
        /\ x.tenant \notin Recreates
        /\ \A y \in Adds :
              /\ y.agent.id = i => y.tenant = x.tenant /\ y.agent.ip = x.agent.ip
              /\ y.agent.ip = x.agent.ip /\ x.agent.ip # NoIP => y.agent.id = i
        /\ \A y \in Removes : y.id = i => y.tenant = x.tenant

\* About an agent that keeps its place the three maps say the same, however
\* other agents move and other tenants are created again: the tenant index
\* names the only tenant that holds it, and the address index holds its entry,
\* at its latest, exactly if it has one with an address.
MapsAgree ==
    \A i \in AgentIds : Keeps(i) =>
        /\ \A t \in Tenants : agents[t][i] # None <=> tenantOf[i] = t
        /\ \A ip \in IPs :
              (byIP[ip] # None /\ byIP[ip].id = i)
              <=> \E t \in Tenants : agents[t][i] # None /\ agents[t][i].ip = ip
        /\ \A ip \in IPs : byIP[ip] # None /\ byIP[ip].id = i =>
              \E t \in Tenants : agents[t][i] = byIP[ip]

\* However agents are moved about, two agents that may communicate are both in
\* the fleet of the tenant whose mode allows it, and each is shown to the
\* other.  (CreateTenant for a tenant that exists empties it and leaves its
\* agents in the tenant index: they may communicate, and see nobody.)
CommunicationIsMutual ==
    \A i, j \in AgentIds : CanCommunicate(i, j) /\ i # j /\ tenantOf[i] \notin Recreates =>
        /\ CanCommunicate(j, i)
        /\ \E t \in Tenants : mode[t] = "fleet" /\ {i, j} \subseteq Members(t)
        /\ i \in GetAgentsForAgent(j)

\* An isolated tenant shows its agents nothing, and a tenant only goes from
\* isolated to fleet by SetMode: no AddAgent or SetCaptainName opens it.
OnlySetModeOpens ==
    [][ \A t \in Tenants :
          GetMode(t) = "isolated" /\ GetMode(t)' = "fleet" =>
              agents' = agents /\ captain' = captain ]_vars

\* fleet.go:55: ValidateAgentIP checks if an IP belongs to a registered agent.
\* False once an agent is added again with another address: the old address
\* stays in the index, and no RemoveAgent takes it out.
ValidIPsAreRegistered ==
    \A ip \in IPs : ValidAgentIP(ip) =>
        \E t \in Tenants : agents[t][byIP[ip].id] # None /\ agents[t][byIP[ip].id].ip = ip

=============================================================================
