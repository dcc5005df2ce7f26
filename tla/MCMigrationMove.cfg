SPECIFICATION FairSpec
CONSTANTS
    a = a
    b = b
    c = c
    k1 = k1
    k2 = k2
    Node = {a, b, c}
    Key = {k1}
    Walk <- LeaderLast
    StartRings <- CIsNew
    Leader = a
    Factors = {1, 2}
    BatchSize = 1
    MayCancel = TRUE
    MaxWrites = 2
    MaxTasks = 2
    MaxSecond = 0
    MaxRingChanges = 1
INVARIANT TypeOK
 
PROPERTY TaskEnds
CHECK_DEADLOCK FALSE
