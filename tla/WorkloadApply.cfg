SPECIFICATION FairSpec
CONSTANTS
    Workloads <- MCBoth
    Templates = {"t1", "t2"}
    Selectors = {"s1", "s2"}
    Labels = {"l1", "l2"}
    Configs = {"c1"}
    NoConfig = "none"
    FaultKinds = {"call", "crash"}
    MaxChanges = 3
    MaxFaults = 1
    MaxLag = 2
    MaxRV = 12
INVARIANT SettledAtRest
PROPERTIES SkippedDeploymentInSync UpdatedDeploymentChanges DeletesOnlyForValid CallIsOneStep Converges
CHECK_DEADLOCK FALSE
