----------------------------- MODULE ReverseProxy -----------------------------
(***************************************************************************)
(* internal/proxy/reverse.go: an inbound request is taken to an agent of   *)
(* the tenant its token stands for, under the name of the tenant's         *)
(* captain.  The handler holds no lock from one look at the fleet to the   *)
(* next: it asks the manager for the tenant, and then reads the tenant's   *)
(* agents and name through the pointer it was given, without the manager's *)
(* mutex, while other goroutines may call the manager.                     *)
(*                                                                         *)
(* Requests share nothing that they write, so one of them is followed.     *)
(* The gateway as shipped calls the manager only while it starts; the      *)
(* module lets the manager be called at any time after, as its mutex       *)
(* provides for and as the console of cmd/proxy does.                      *)
(***************************************************************************)
EXTENDS FleetConfig

CONSTANTS
    Parsable,      \* the addresses and webhooks that make a URL
    Torn,          \* a string read while it was written: neither old nor new
    MaxMeanwhile   \* bound: calls of the manager during one request

ASSUME ReverseAssumption ==
    /\ MaxMeanwhile \in Nat
    /\ Parsable \subseteq IPs \cup Hooks
    /\ IPs \cap Hooks = {} /\ Torn \notin IPs \cup Hooks \cup Names \cup Tenants
    /\ Names \cap Tenants = {}

VARIABLES
    alive,      \* FALSE: the runtime has thrown
    at,         \* how far the request is
    tenantID,   \* the tenant of its token
    agentID,    \* the agent its path names
    object,     \* what tenant points to: the manager's, or one it has dropped
    window,     \* what the field about to be read has held since the last step
    endpoint,   \* targetURL
    name,       \* captainName
    meanwhile,  \* history: calls of the manager since the request came
    routes      \* history: what the manager held for the request since it came

reqVars == <<at, tenantID, agentID, object, window, endpoint, name>>
reverseVars == <<vars, configVars, reqVars, alive, meanwhile, routes>>

Idle == "idle"
Live == [live |-> TRUE]    \* tenant is the manager's own

\* The handler's endpoint for an entry: the webhook, or else the address.
EndpointOf(hook, ip) == IF hook # NoHook THEN hook ELSE ip

\* X-Captain: the tenant's ID if there is no name.
Mask(captainName, t) == IF captainName = None THEN t ELSE captainName

AgentsOf(t) == IF object = Live THEN agents[t] ELSE object.agents
CaptainOf(t) == IF object = Live THEN captain[t] ELSE object.captain

\* What the handler reads next.
Field == IF at = "agent" THEN AgentsOf(tenantID)[agentID] ELSE CaptainOf(tenantID)

ReverseTypeOK ==
    /\ TypeOK
    /\ config \in Configs \cup {Unreadable}
    /\ block \in Nat /\ call \in Nat
    /\ tokens \in [Tokens -> Tenants \cup {None}]
    /\ alive \in BOOLEAN
    /\ at \in {Idle, "agent", "captain", "forward"}
    /\ tenantID \in Tenants \cup {None} /\ agentID \in AgentIds \cup {None}
    /\ object = Live \/ object.agents \in [AgentIds -> Agent \cup {None}]
    /\ endpoint \in IPs \cup Hooks \cup {Torn, None}
    /\ name \in Names \cup Tenants \cup {Torn, None}
    /\ meanwhile \in 0..MaxMeanwhile

NoRequest ==
    /\ at = Idle /\ tenantID = None /\ agentID = None /\ object = Live
    /\ window = {} /\ endpoint = None /\ name = None

ReverseInit ==
    /\ ConfigInit
    /\ alive = TRUE
    /\ NoRequest
    /\ meanwhile = 0
    /\ routes = {}

-----------------------------------------------------------------------------
(* The request.                                                            *)

\* An entry and a name that the manager holds for the request.
Held(t, i) == [entry |-> agents[t][i], name |-> captain[t]]

\* ServeHTTP up to GetTenant.  A missing or unknown token, another path and a
\* tenant that does not exist are answered at once and change nothing.
Receive(token, i) ==
    /\ at = Idle
    /\ tokens[token] # None /\ Exists(tokens[token])
    /\ at' = "agent"
    /\ tenantID' = tokens[token]
    /\ agentID' = i
    /\ object' = Live
    /\ window' = {agents[tokens[token]][i]}
    /\ routes' = {Held(tokens[token], i)}
    /\ meanwhile' = 0
    /\ UNCHANGED <<endpoint, name, alive>>

\* The answer is out: 403, 502, or what the agent said.
Done ==
    /\ at' = Idle /\ tenantID' = None /\ agentID' = None /\ object' = Live
    /\ window' = {} /\ endpoint' = None /\ name' = None
    /\ meanwhile' = 0
    /\ routes' = {}

\* Mutant: the entry is the one the agent index leads to.
ReadAgentByIndex ==
    /\ at = "agent"
    /\ tenantOf[agentID] # None
    /\ LET e == agents[tenantOf[agentID]][agentID] IN
          /\ e # None
          /\ EndpointOf(e.hook, e.ip) # NoIP
          /\ endpoint' = EndpointOf(e.hook, e.ip)
    /\ at' = "captain"
    /\ window' = {CaptainOf(tenantID)}
    /\ UNCHANGED <<tenantID, agentID, object, name, alive, meanwhile, routes>>

\* agent, exists := tenant.Agents[agentID], the choice of the endpoint, and
\* url.Parse, of which nothing is known for a torn string.
\* The entry is copied without the mutex: if it was written in the meantime
\* each of its strings may be of another writing, or torn.
ReadAgent ==
    /\ at = "agent"
    /\ \E e, f \in window \ {None}, torn \in BOOLEAN :
          LET target == EndpointOf(e.hook, f.ip) IN
          /\ torn => e # f
          /\ target # NoIP
          /\ torn \/ target \in Parsable
          /\ endpoint' = IF torn THEN Torn ELSE target
          /\ at' = "captain"
          /\ window' = {CaptainOf(tenantID)}
    /\ UNCHANGED <<tenantID, agentID, object, name, alive, meanwhile, routes>>

\* No such agent, or one without an endpoint, or with one that does not parse.
RefuseAgent ==
    /\ at = "agent"
    /\ \/ None \in window
       \/ \E e, f \in window \ {None} : EndpointOf(e.hook, f.ip) = NoIP
       \/ \E e, f \in window \ {None} : e # f \/ EndpointOf(e.hook, f.ip) \notin Parsable
    /\ Done /\ UNCHANGED alive

\* Mutant: the name is the one of the tenant the agent is indexed under.
ReadCaptainOfAgent ==
    /\ at = "captain"
    /\ tenantOf[agentID] # None
    /\ name' = Mask(captain[tenantOf[agentID]], tenantOf[agentID])
    /\ at' = "forward"
    /\ UNCHANGED <<tenantID, agentID, object, window, endpoint, alive, meanwhile, routes>>

\* captainName := tenant.CaptainName, read in the same way.
ReadCaptain ==
    /\ at = "captain"
    /\ \/ \E n \in window : name' = Mask(n, tenantID)
       \/ \E n, m \in window : n # m /\ name' = Torn
    /\ at' = "forward"
    /\ UNCHANGED <<tenantID, agentID, object, window, endpoint, alive, meanwhile, routes>>

\* forward returns: with the agent's answer, or 502.
Respond ==
    /\ at = "forward"
    /\ Done /\ UNCHANGED alive

-----------------------------------------------------------------------------
(* The manager is called while the request is under way.                   *)

\* A read of the tenant's map that meets a write of it ends the process.
MapWritten(t) ==
    /\ alive' \in IF at = "agent" /\ object = Live /\ tenantID = t THEN BOOLEAN ELSE {TRUE}
    /\ UNCHANGED object

\* CreateTenant leaves the request with the tenant it has replaced, which
\* nobody writes any more.
Replaced(t) ==
    /\ object' = IF at # Idle /\ object = Live /\ tenantID = t
                 THEN [agents |-> agents[t], captain |-> captain[t]] ELSE object
    /\ UNCHANGED alive

Call ==
    \/ \E t \in Tenants :
          \/ CreateTenant(t) /\ Replaced(t)
          \/ \E n \in Names : SetCaptainName(t, n) /\ UNCHANGED <<object, alive>>
          \/ \E m \in FleetModes : SetMode(t, m) /\ UNCHANGED <<object, alive>>
    \/ \E x \in Adds : AddAgent(x.tenant, x.agent) /\ MapWritten(x.tenant)
    \/ \E x \in Removes : RemoveAgent(x.tenant, x.id) /\ MapWritten(x.tenant)

Manage ==
    /\ Loaded
    /\ at # Idle => meanwhile < MaxMeanwhile
    /\ Call
    /\ UNCHANGED <<configVars, at, tenantID, agentID, endpoint, name>>
    /\ IF at = Idle THEN UNCHANGED <<window, meanwhile, routes>>
       ELSE /\ meanwhile' = meanwhile + 1
            /\ window' = IF at = "forward" THEN window ELSE window \cup {Field'}
            /\ routes' = routes \cup {Held(tenantID, agentID)'}

Load ==
    /\ ConfigStep
    /\ UNCHANGED <<reqVars, alive, meanwhile, routes>>

\* The servers start when the configuration is loaded.
Serve ==
    /\ Loaded
    /\ \/ \E token \in Tokens, i \in AgentIds : Receive(token, i)
       \/ ReadAgent \/ RefuseAgent \/ ReadCaptain \/ Respond
    /\ UNCHANGED <<vars, configVars>>

ReverseNext == alive /\ (Load \/ Serve \/ Manage)

ReverseSpec == ReverseInit /\ [][ReverseNext]_reverseVars

-----------------------------------------------------------------------------
(* Properties.                                                             *)

\* A request leaves for an endpoint that its own tenant had for that agent at
\* some time while the request was under way, and under a name its tenant had
\* in that time, although the agent may by then be another tenant's or gone,
\* and the tenant another than the one it was given.  (A webhook and an
\* address of two entries may be mixed, and a string may be torn, if the entry
\* or the name was written in that time.)
ForwardedInTenant ==
    at = "forward" =>
        LET entries == {x.entry : x \in routes} \ {None}
            names == {x.name : x \in routes}
        IN  /\ \/ \E e \in entries : endpoint \in {e.hook, e.ip}
               \/ endpoint = Torn /\ \E e, f \in entries : e # f
            /\ \/ \E n \in names : name = Mask(n, tenantID)
               \/ name = Torn /\ \E n, m \in names : n # m

\* If in that time nobody wrote the agent's entry or the tenant's name, the
\* request goes where the entry says and carries that name: in particular no
\* call about another agent or another tenant changes its way.
UndisturbedIsExact ==
    at = "forward" => \A x \in routes : routes = {x} =>
        /\ x.entry # None /\ endpoint = EndpointOf(x.entry.hook, x.entry.ip)
        /\ name = Mask(x.name, tenantID)

=============================================================================
