SPECIFICATION FairSpec
CONSTANTS
    N = 2
    FaultKinds = {"edit", "delete", "relist", "informer", "crash"}
    MaxFaults = 3
    MaxLag = 2
    MaxHandlers = 2
INVARIANTS OneHandler UndoneAtRest
PROPERTY Reverted
CHECK_DEADLOCK FALSE
