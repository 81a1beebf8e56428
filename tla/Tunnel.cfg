\* Up to two chunks each way, one of them under way.
SPECIFICATION Spec
CONSTANTS
    Window = 1
    MaxSent = 2
    DoneCap = 2
INVARIANTS
    TypeOK
    InOrder
    CompleteAtEof
PROPERTIES
    NothingIsLeftBehind
    SilentEndEndsTunnel
\* A tunnel ends.
CHECK_DEADLOCK FALSE
