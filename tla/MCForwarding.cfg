SPECIFICATION FairSpec
CONSTANTS
    a = a
    b = b
    c = c
    None = None
    Node = {a, b}
    Req = {"w1", "w2"}
    FirstLeaders <- Beginnings
    MaxChanges = 2
    MaxCrashes = 1
INVARIANT TypeOK
INVARIANT AtMostOnce
INVARIANT AnswersAreTrue
PROPERTY KeepsPromise
PROPERTY EveryWriteAnswered
CHECK_DEADLOCK FALSE
