SPECIFICATION Spec
CONSTANTS
    Node = {l, f1, f2}
    Key = {k1}
    l = l
    f1 = f1
    f2 = f2
    k1 = k1
    None = None
    Replicas <- AllReplicas
    ReplicationFactor = 3
    WriteLevels = {"QUORUM"}
    ReadLevels = {"QUORUM"}
    Ops = {"SET", "DELETE"}
    LeaderSets <- StableLeader
    Views <- LonelyViews
    MayRestart <- Followers
    MaxWrites = 2
    MaxReads = 1
    MaxRestarts = 1
    MaxInFlight = 2
SYMMETRY FollowerSymmetry
INVARIANT TypeOK
INVARIANT AckedIsStored
INVARIANT FreshRead
INVARIANT VisibleWasCommitted
CHECK_DEADLOCK FALSE
