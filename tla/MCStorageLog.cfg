SPECIFICATION Spec
CONSTANTS
    t1 = t1
    t2 = t2
    k1 = k1
    k2 = k2
    None = None
    Key = {k1, k2}
    Thread = {t1, t2}
    KeysOf <- OwnKeys
    Ops = {"SET", "DELETE"}
    Syncs = {TRUE, FALSE}
    TTLs = {TRUE}
    Crashes = {"power"}
    Tear = FALSE
    MayStop = TRUE
    CompactThreshold = 9
    MaxOps = 2
    MaxRestarts = 2
    MaxSaves = 2
SYMMETRY Swap
INVARIANT TypeOK
INVARIANT AckedSurvives
PROPERTY KeepsAcked
CHECK_DEADLOCK FALSE
