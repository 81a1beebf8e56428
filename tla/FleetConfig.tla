----------------------------- MODULE FleetConfig -----------------------------
(***************************************************************************)
(* internal/fleet/loader.go and loadFleetConfig, loadTokens of             *)
(* cmd/gateway/main.go: how a configuration file becomes a fleet and the   *)
(* tokens of the reverse proxy.  The file is a list of tenant blocks and a *)
(* list of tokens; it is applied by calling the manager, one call after    *)
(* the other, and nothing in the file is checked: a tenant, an agent, an   *)
(* address or a token may occur twice.  A file that cannot be read or      *)
(* parsed leaves the fleet empty, and the environment gives the tokens.    *)
(***************************************************************************)
EXTENDS FleetManager, Sequences

CONSTANTS
    Tokens,        \* bearer tokens
    ModeWords,     \* what may stand under "mode"
    Configs,       \* the files that may be found
    Unreadable,    \* LoadConfig fails
    Environment    \* the SHIELD_TOKEN_ variables, in order

Block == [id : Tenants, captain : Names \cup {None}, mode : ModeWords, agents : Seq(Agent)]
TokenEntry == [token : Tokens, tenant : Tenants]

VARIABLES
    config,    \* the file found at the start
    block,     \* the block whose turn it is, one too far for the tokens
    call,      \* the next call for that block, or the next token
    tokens     \* ReverseHandler.tokens; None: not registered

configVars == <<config, block, call, tokens>>

\* AddAgent is called with a tier in every case.
WithTier(a) == IF a.tier = NoTier THEN [a EXCEPT !.tier = Crew] ELSE a

\* What the file calls for is what the fleet manager's constants allow for.
ASSUME ConfigAssumption ==
    /\ Environment \in Seq(TokenEntry)
    /\ Unreadable \notin Configs
    /\ \A c \in Configs :
          /\ c.tenants \in Seq(Block) /\ c.tokens \in Seq(TokenEntry)
          /\ \A k, l \in DOMAIN c.tenants :
                k # l /\ c.tenants[k].id = c.tenants[l].id => c.tenants[k].id \in Recreates
          /\ \A k \in DOMAIN c.tenants : \A j \in DOMAIN c.tenants[k].agents :
                [tenant |-> c.tenants[k].id, agent |-> WithTier(c.tenants[k].agents[j])] \in Adds

\* loadFleetConfig, or loadTokens when it fails.
Blocks == IF config = Unreadable THEN << >> ELSE config.tenants
TokenEntries == IF config = Unreadable THEN Environment ELSE config.tokens

ConfigInit ==
    /\ Init
    /\ config \in Configs \cup {Unreadable}
    /\ block = 1 /\ call = 1
    /\ tokens = [k \in Tokens |-> None]

Loaded == block > Len(Blocks) /\ call > Len(TokenEntries)

-----------------------------------------------------------------------------
(* ApplyConfig: three calls for the block itself, one for each agent.      *)

Current == Blocks[block]
ForBlock == 3

\* Every word but "fleet" means isolated.
ModeOf(word) == IF word = "fleet" THEN "fleet" ELSE "isolated"

\* Mutant: a tenant that is there already is kept.
CreateIfNew == call = 1 /\ IF Exists(Current.id) THEN UNCHANGED vars ELSE CreateTenant(Current.id)

Create == call = 1 /\ CreateTenant(Current.id)

\* A name that is not given is not set.
NameCaptain ==
    /\ call = 2
    /\ IF Current.captain = None THEN UNCHANGED vars
       ELSE SetCaptainName(Current.id, Current.captain)

ChooseMode == call = 3 /\ SetMode(Current.id, ModeOf(Current.mode))

EnterAgent ==
    /\ call > ForBlock
    /\ AddAgent(Current.id, WithTier(Current.agents[call - ForBlock]))

GoOn ==
    IF call < ForBlock + Len(Current.agents)
    THEN call' = call + 1 /\ block' = block
    ELSE call' = 1 /\ block' = block + 1

ApplyBlock ==
    /\ block <= Len(Blocks)
    /\ Create \/ NameCaptain \/ ChooseMode \/ EnterAgent
    /\ GoOn
    /\ UNCHANGED <<config, tokens>>

\* RegisterToken, for one token after the other.
RegisterToken ==
    /\ block > Len(Blocks) /\ call <= Len(TokenEntries)
    /\ tokens' = [tokens EXCEPT ![TokenEntries[call].token] = TokenEntries[call].tenant]
    /\ call' = call + 1
    /\ UNCHANGED <<vars, config, block>>

ConfigStep == ApplyBlock \/ RegisterToken

-----------------------------------------------------------------------------
(* What a file means, read as a whole.                                     *)

\* The places of the agents in the file: a block, and an entry in it.
Places == UNION {{k} \X DOMAIN Blocks[k].agents : k \in DOMAIN Blocks}
EntryAt(p) == Blocks[p[1]].agents[p[2]]
Before(p, q) == p[1] < q[1] \/ (p[1] = q[1] /\ p[2] < q[2])

\* The entry as the manager keeps it, its tier filled in.
Means(agent, p) ==
    /\ agent # None
    /\ [agent EXCEPT !.tier = NoTier] = [EntryAt(p) EXCEPT !.tier = NoTier]
    /\ agent.tier = IF EntryAt(p).tier = NoTier THEN Crew ELSE EntryAt(p).tier

\* The last of some places, or of some positions in a list.
IsLastPlace(p, places) == p \in places /\ \A q \in places : ~ Before(p, q)
IsLast(k, positions) == k \in positions /\ \A l \in positions : l <= k

TenantAsListed(t) ==
    LET mine == {k \in DOMAIN Blocks : Blocks[k].id = t} IN
    /\ mine = {} => ~ Exists(t)
    /\ \A k \in mine : IsLast(k, mine) =>
        /\ Exists(t)
        /\ mode[t] = "fleet" <=> Blocks[k].mode = "fleet"
        /\ captain[t] = Blocks[k].captain
        /\ \A i \in AgentIds :
              LET here == {p \in Places : p[1] = k /\ EntryAt(p).id = i} IN
              /\ here = {} => agents[t][i] = None
              /\ \A p \in here : IsLastPlace(p, here) => Means(agents[t][i], p)

IndexesAsListed ==
    /\ \A i \in AgentIds :
          LET here == {p \in Places : EntryAt(p).id = i} IN
          /\ here = {} => tenantOf[i] = None
          /\ \A p \in here : IsLastPlace(p, here) => tenantOf[i] = Blocks[p[1]].id
    /\ \A ip \in IPs :
          LET here == {p \in Places : EntryAt(p).ip = ip} IN
          /\ here = {} => byIP[ip] = None
          /\ \A p \in here : IsLastPlace(p, here) => Means(byIP[ip], p)

TokensAsListed ==
    \A k \in Tokens :
        LET mine == {n \in DOMAIN TokenEntries : TokenEntries[n].token = k} IN
        /\ mine = {} => tokens[k] = None
        /\ \A n \in mine : IsLast(n, mine) => tokens[k] = TokenEntries[n].tenant

\* When the last call is made the fleet is what the file says: a tenant is its
\* last block, with the last entry of every agent in it and nothing left of an
\* earlier block; the indexes follow the last entry of an agent or an address
\* in the whole file; and the last registration of a token counts.
ConfigTaken ==
    [][ ~ Loaded /\ Loaded' =>
          /\ \A t \in Tenants : TenantAsListed(t)'
          /\ IndexesAsListed'
          /\ TokensAsListed' ]_<<vars, configVars>>

=============================================================================
