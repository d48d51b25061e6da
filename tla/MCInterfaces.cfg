SPECIFICATION MCSpec
CONSTANTS
    c1 = c1
    c2 = c2
    k1 = k1
    k2 = k2
    Clients <- MCClients
    Keys <- MCKeys
    Values = {"v"}
    Flags = {1}
    Deltas = {3}
    Raw = {2}
    Word = 4
    MaxCommands = 5
SYMMETRY Symmetry
INVARIANTS StoresOK 
PROPERTY NoLostUpdate
CHECK_DEADLOCK FALSE
