SPECIFICATION SSpec
CONSTANT Clients <- ReplicaDeleteClients
INVARIANTS ReplyMatches
