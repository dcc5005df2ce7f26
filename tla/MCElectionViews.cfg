SPECIFICATION FairSpec
CONSTANTS
    Node = {n1, n2}
    n1 = n1
    n2 = n2
    None = None
    Views <- AnyViews
    MaxTerm = 2
    MaxRestarts = 1
    MaxInFlight = 1
INVARIANT TypeOK
INVARIANT OneWinnerPerTerm
INVARIANT LeaderWonItsTerm
PROPERTY VoteIsFinal
PROPERTY ElectionEnds
CHECK_DEADLOCK FALSE
