\* A fleet is loaded, then called at any time, with a request under way.
SPECIFICATION ReverseSpec
CONSTANTS
    t1 = t1
    t2 = t2
    a1 = a1
    a2 = a2
    a3 = a3
    ip1 = ip1
    ip2 = ip2
    hook1 = hook1
    captain1 = captain1
    k1 = k1
    k2 = k2
    Tenants = {t1, t2}
    AgentIds = {a1, a2, a3}
    IPs = {ip1, ip2}
    NoIP = NoIP
    Hooks = {hook1}
    NoHook = NoHook
    Tiers = {Crew}
    NoTier = NoTier
    Crew = Crew
    None = None
    Names = {captain1}
    Adds <- MCAdds
    Removes <- MCRemoves
    Recreates = {t2}
    Tokens = {k1, k2}
    ModeWords = {"fleet", "isolated", "open"}
    Configs <- MCConfigs
    Unreadable = Unreadable
    Environment <- MCEnvironment
    Parsable = {ip1, hook1}
    Torn = Torn
    MaxMeanwhile = 3
INVARIANTS
    ReverseTypeOK
    MapsAgree
    CommunicationIsMutual
    ForwardedInTenant
    UndisturbedIsExact
PROPERTIES
    OnlySetModeOpens
    ConfigTaken
\* The process may end.
CHECK_DEADLOCK FALSE
