SPECIFICATION Spec
CONSTANTS
    Server = {"s1", "s2"}
    Datacenter = {"d1", "d2"}
    SourceConfigs <- MCSources
    Infras <- MCInfras
INVARIANTS SectionsExact ExcludesVIPs
CHECK_DEADLOCK FALSE
