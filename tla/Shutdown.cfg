SPECIFICATION Spec
CONSTANTS
    Calls = {c1, c2}
    Async = {c2}
    Limits = {0, 2}
    MaxRetries = 2
    MaxOutages = 1
INVARIANTS
    TypeOK
    NoTriggerLost
    NothingCutOff
    NothingLeftOpen
PROPERTIES
    Delivered
    CloseEnds
    ShutdownEnds
