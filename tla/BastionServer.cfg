\* A bastion that may die once, while starting and while serving; certificates of
\* its own and of another signer, and grants of two users that are issued, revoked
\* and run out; one of two connections has an authorized key.
SPECIFICATION FairSpec
CONSTANTS
    alice = alice
    bob = bob
    c1 = c1
    c2 = c2
    Any = Any
    Principals = {alice, bob}
    Targets = {}
    Durations <- MCDurations
    MaxTime = 1
    MaxCounter = 1
    Conns = {c1, c2}
    User <- MCUser
    KeyHolders = {c2}
    ForeignCerts <- MCForeignCerts
    MaxCerts = 2
    MaxCrashes = 1
INVARIANTS
    TypeOK
    OneIdentity
    CertifiedHadGrant
PROPERTY ServeReturns
