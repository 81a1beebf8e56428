\* An agent is added again with another address.
SPECIFICATION Spec
CONSTANTS
    t1 = t1
    t2 = t2
    a1 = a1
    a2 = a2
    ip1 = ip1
    ip2 = ip2
    captain1 = captain1
    Tenants = {t1, t2}
    AgentIds = {a1, a2}
    IPs = {ip1, ip2}
    NoIP = NoIP
    Hooks = {}
    NoHook = NoHook
    Tiers = {Crew}
    NoTier = NoTier
    Crew = Crew
    None = None
    Names = {captain1}
    Adds <- ReaddressedAdds
    Removes <- ReaddressedRemoves
    Recreates = {}
INVARIANT ValidIPsAreRegistered
