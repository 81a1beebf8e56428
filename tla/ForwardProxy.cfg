\* One request, two agents, modes and rules changing under it.
SPECIFICATION Spec
CONSTANTS
    host = host
    crew = crew
    captain = captain
    crewIP = crewIP
    captainIP = captainIP
    commodoreIP = commodoreIP
    strangeIP = strangeIP
    a1 = a1
    a2 = a2
    Subjects = {host}
    Tiers <- MCTiers
    Commodore = Commodore
    NoTier = NoTier
    Default = "allow"
    Requests = {r1}
    Sources = {crewIP, captainIP, strangeIP}
    Registry <- MCRegistry
    Unregistered = Unregistered
    Agents = {a1, a2}
    NoMode = NoMode
    RuleFiles <- MCRuleFiles
    Invalid = Invalid
    Startup = 0
    Embedded = {1}
    Loaders = {l1}
    MaxChanges = 3
INVARIANTS
    VerdictJustified
    AuditEntryJustified
PROPERTY RulesNeverRollBack
\* A request is served once and the changes are bounded, so a run ends.
CHECK_DEADLOCK FALSE
