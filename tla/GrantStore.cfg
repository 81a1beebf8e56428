\* The store of the bastion: a file, one death, one file operation that fails: a
\* read, a write or a rename.
SPECIFICATION Spec
CONSTANTS
    Principals = {p1}
    Targets = {t1}
    Any = Any
    Durations <- MCDurations
    MaxTime = 3
    MaxCounter = 2
    HasFile = TRUE
    Unusable = Unusable
    NoId = NoId
    MaxCrashes = 1
    MaxIoErrors = 1
INVARIANTS
    TypeOK
    AckedGrantHonoured
    RevokedStaysRevoked
PROPERTIES
    RestartChangesNothing
    IdsNeverReused
    ImplementsAccessGrants
    ImplementsInMemory
\* The clock and the counter have bounds; a run ends when both are used up.
CHECK_DEADLOCK FALSE
