\* A grant is made through the API and its holder comes to the bastion.
SPECIFICATION GatewaySpec
CONSTANTS
    alice = alice
    host = host
    c1 = c1
    s1 = s1
    None = None
    Any = Any
    Anyone = Anyone
    Unnamed = Unnamed
    Principals = {alice, Anyone}
    Targets = {host}
    Durations <- MCDurations
    MaxTime = 1
    MaxCounter = 1
    Conns = {c1}
    User <- MCUser
    Sessions = {s1}
    ConnOf <- MCConnOf
    Dest <- MCDest
    LogLimit = 2
PROPERTY GrantOpensBastion
