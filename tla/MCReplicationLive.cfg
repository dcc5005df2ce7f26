SPECIFICATION FairSpec
CONSTANTS
    Node = {l, f1}
    Key = {k1}
    l = l
    f1 = f1
    f2 = f2
    k1 = k1
    None = None
    Replicas <- AllReplicas
    ReplicationFactor = 2
    WriteLevels = {"ONE", "QUORUM"}
    ReadLevels = {"ALL"}
    Ops = {"SET", "DELETE"}
    LeaderSets <- Handover
    Views <- FullView
    MayRestart = {l, f1}
    MaxWrites = 2
    MaxReads = 1
    MaxRestarts = 0
    MaxInFlight = 1
PROPERTY EveryRequestEnds
CHECK_DEADLOCK FALSE
