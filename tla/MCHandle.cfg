CONSTANTS
    Digest <- MCDigest
    Signature <- MCSignature
    PointsPerServer = 3
    PointsPerServerKetama = 8
    ContinuumAddition = 1
    DefaultPort = 6
    MaxKey = 6
    MaxNamespace = 4
    Word = 16
    Files <- MCFiles
    Keys <- MCKeys
    Programs <- MCPrograms
SPECIFICATION Spec
INVARIANTS  FlagsAgree  ServerInRange CloneCopies
PROPERTIES RefusedChangesNothing KeysMoveToNewServers
CHECK_DEADLOCK FALSE
