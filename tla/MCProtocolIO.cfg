SPECIFICATION Spec
CONSTANTS
    c1 = c1
    c2 = c2
    Clients <- MCClients
    Kinds = {"set", "get", "getbig", "quit"}
    MaxCommands <- MCCommands
    ChunkSize = 2
    SockSize = 2
    PoolSize = 1
    MaxConns = 2
    Settings <- MCSettings
INVARIANTS StreamKept InOrder NoSharedChunk
CHECK_DEADLOCK FALSE
