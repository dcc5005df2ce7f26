SPECIFICATION FairSpec
CONSTANTS
    a = a
    b = b
    c = c
    None = None
    Node = {a, b, c}
    Seed <- SeedA
    FailureTimeout = 1
    DeadTimeout = 2
    Partitions <- NoPartition
    Timely = TRUE
    MayRestart = FALSE
    MaxCrashes = 1
    MaxCuts = 0
PROPERTY FailureDetected
PROPERTY JoinedLearns
