SPECIFICATION FairSpec
CONSTANTS
  Groups <- MCGroups
  WantedGroups <- MCWanted
  NoMapper = NoMapper
  Processes = {"operator", "configSync"}
  Infras <- MCInfras
  APIServers <- MCAPIServers
  GateStatuses = {"mixed", "bare"}
  Images <- MCImages
  Proxies <- MCProxies
  ChangeKinds = {"tls", "gates", "images", "proxy"}
  FaultKinds = {"fetch", "discovery", "crash"}
  MaxChanges = 2
  MaxFaults = 1
  Nothing = Nothing
INVARIANTS GatesWerePublished MapperComplete BudgetFits AppliedAtRest
PROPERTIES Follows BadImagesReported
