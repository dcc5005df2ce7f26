SPECIFICATION FairFaultSpec
CONSTANTS
    Node = {a, b}
    Durations = {0, 1}
    FaultKinds = {"partition", "drop", "delay", "crash"}
    MaxFaults = 2
    MaxSwitches = 3
    MaxTime = 2
INVARIANT FaultTypeOK
INVARIANT PartitionHolds
PROPERTY FlowsAgain
CHECK_DEADLOCK FALSE
