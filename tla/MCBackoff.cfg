CONSTANTS
    s1 = s1
    s2 = s2
    NULL = NULL
    Servers = {s1, s2}
    FailureLimit = 2
    TimeoutLimit = 0
    RetryTimeout = 1
    DeadTimeout = 1
    AutoEject = TRUE
    Consistent = TRUE
    UseUdp = FALSE
SPECIFICATION FairSpec
INVARIANTS
    RebuildScheduled
    EjectedGetsNoKeys
PROPERTIES
    BacksOff
    RecoveredIsUsed
