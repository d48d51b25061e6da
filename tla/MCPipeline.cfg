SPECIFICATION SFairSpec
CONSTANT Clients <- MCClients
INVARIANTS ReplyMatches  NoFlowDeadlock SuccessMeansAll EveryReplicaTried 
PROPERTIES CallEnds
