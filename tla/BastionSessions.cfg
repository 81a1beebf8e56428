\* Two sessions of one user, on connections of their own, with grants that are
\* issued, run out and are revoked around them; the log holds three events.
SPECIFICATION FairSpec
CONSTANTS
    alice = alice
    host = host
    c1 = c1
    c2 = c2
    s1 = s1
    s2 = s2
    None = None
    Any = Any
    Principals = {alice}
    Targets = {host}
    Durations <- MCDurations
    MaxTime = 1
    MaxCounter = 1
    Conns = {c1, c2}
    User <- MCUser
    Sessions = {s1, s2}
    ConnOf <- MCConnOf
    Dest <- MCDest
    LogLimit = 3
INVARIANTS
    TypeOK
    TrailTellsSessions
    LogIsTail
    StartsAreLive
    DurationsAreLengths
    EveryEventHadItsGrant
PROPERTY EndedSessionIsLogged
