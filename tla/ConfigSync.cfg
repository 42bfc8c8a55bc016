SPECIFICATION FairSpec
CONSTANTS
    Infras <- MCInfras
    Sources <- MCSources
    Starts <- MCStarts
    CAs = {"caA", "bad"}
    FaultKinds = {"change", "gate", "edit", "delete", "read", "write", "crash"}
    MaxFaults = 1
INVARIANTS TrustSound ConfAtRest BundleAtRest
PROPERTIES ConfSynced BundleSynced
CHECK_DEADLOCK FALSE
