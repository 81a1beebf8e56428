\* Agents, rules and checks; the log drops its first entry.
SPECIFICATION Spec
CONSTANTS
    a1 = a1
    a2 = a2
    run = run
    rm = rm
    NoRule = NoRule
    AgentStatus = AgentStatus
    Agents = {a1, a2}
    Commands = {run, rm}
    RuleBodies <- MCRuleBodies
    LogCap = 2
    DefaultLimit = 1
    MaxLimit = 2
    PageSizes = {2, 3}
    Filters <- MCFilters
    MaxRequests = 3
    MaxRules = 1
SYMMETRY MCSymmetry
INVARIANTS
    CountersMatchLog
    StoppedMeansStopped
    NothingReadTwice
    PagesAddUp
