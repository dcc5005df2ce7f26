SPECIFICATION FairSpec
CONSTANTS
    Node = {a, b}
    Key = {1, 2, 3}
    Initial = {{1, 2, 3}, {1, 3}}
    BucketSizes = {1, 2}
    Wired = TRUE
    MaxWrites = 2
    MaxFailures = 1
INVARIANT TypeOK
INVARIANT MerkleFinds
PROPERTY Repaired
