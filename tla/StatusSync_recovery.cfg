SPECIFICATION FairSpec
CONSTANTS
  Version = {"none", "previous", "release"}
  NoVersion = "none"
  ReleaseVersion = "release"
  RV = {1, 2, 3, 4, 5, 6, 7, 8, 9}
  NoRV = 0
  NumResources = 2
  MaxLag = 1
  MaxFaults = 1
  FaultKinds = {"call", "crash", "delete", "input", "platform", "write"}
  ObjectsAtStart <- MCUpgrade
  OperandsAtStart = "previous"
  InfraAtStart = {"ccm", "nilPlatform"}
  FinalPlatforms = {"ccm"}
  Requests = {"clusteroperator", "cloudConfig"}
INVARIANTS
  AvailableMeansApplied
  ReportedAtRest
PROPERTIES
  Converges
  FailureSurfaces
  StatusIsAtomic
  OwnerStaysCleared
