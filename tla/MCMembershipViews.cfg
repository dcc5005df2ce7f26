SPECIFICATION Spec
CONSTANTS
    a = a
    b = b
    c = c
    None = None
    Node = {a, b, c}
    Seed <- SeedA
    FailureTimeout = 1
    DeadTimeout = 2
    Partitions <- RelayCut
    Timely = TRUE
    MayRestart = TRUE
    MaxCrashes = 1
    MaxCuts = 1
INVARIANT TypeOK
PROPERTY DeadMeansSilent
