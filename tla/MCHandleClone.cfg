CONSTANTS
    Digest <- MCDigest
    Signature <- MCSignature
    PointsPerServer = 3
    PointsPerServerKetama = 8
    ContinuumAddition = 1
    DefaultPort = 6
    MaxKey = 6
    MaxNamespace = 4
    Word = 16
    Files <- MCFiles
    Keys <- MCKeys
    Programs <- MCClones
SPECIFICATION Spec
INVARIANT CloneSendsAlike
CHECK_DEADLOCK FALSE
