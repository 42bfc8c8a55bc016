SPECIFICATION Spec
CONSTANTS
    Server = {"s1", "s2"}
    Datacenter = {"d1", "d2"}
    SourceConfigs <- MCOneSection
    Infras <- MCOtherInfras
INVARIANT NoPanic
CHECK_DEADLOCK FALSE
