SPECIFICATION FairSpec
CONSTANTS
    Kinds <- AllKinds
    Items = {"a", "b"}
    Values <- MCValues
    First <- MCFirst
    ChangeKinds = {"field", "label", "extra", "delete", "upgrade"}
    FaultKinds = {"call", "crash"}
    MaxChanges = 3
    MaxFaults = 1
    MaxLag = 2
    MaxRV = 12
INVARIANT HeldAtRest
PROPERTIES WritesAreAtomic Converges
CHECK_DEADLOCK FALSE
