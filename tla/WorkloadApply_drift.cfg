SPECIFICATION Spec
CONSTANTS
    Workloads <- MCDrift
    Templates = {"t1", "t2"}
    Selectors = {"s1", "s2"}
    Labels = {"l1", "l2"}
    Configs = {"c1"}
    NoConfig = "none"
    FaultKinds = {}
    MaxChanges = 2
    MaxFaults = 0
    MaxLag = 2
    MaxRV = 12
PROPERTY SkipMeansInSync
CHECK_DEADLOCK FALSE
