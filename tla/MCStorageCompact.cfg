SPECIFICATION FairSpec
CONSTANTS
    t1 = t1
    t2 = t2
    k1 = k1
    k2 = k2
    None = None
    Key = {k1, k2}
    Thread = {t1, t2}
    KeysOf <- OwnKeys
    Ops = {"SET", "DELETE"}
    Syncs = {TRUE}
    TTLs = {FALSE}
    Crashes = {"kill"}
    Tear = FALSE
    MayStop = FALSE
    CompactThreshold = 1
    MaxOps = 2
    MaxRestarts = 2
    MaxSaves = 3
INVARIANT OnlyWindowLost
PROPERTY OpEnds
CHECK_DEADLOCK FALSE
