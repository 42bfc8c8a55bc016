SPECIFICATION FairSpec
CONSTANTS
  Version = {"none", "previous", "release"}
  NoVersion = "none"
  ReleaseVersion = "release"
  RV = {1, 2, 3, 4, 5, 6, 7, 8, 9}
  NoRV = 0
  NumResources = 2
  MaxLag = 1
  MaxFaults = 0
  FaultKinds = {"create"}
  ObjectsAtStart <- MCInstall
  OperandsAtStart = "previous"
  InfraAtStart = {"absent", "ccm", "nilPlatform", "noAssets", "External"}
  FinalPlatforms = {}
  Requests = {"clusteroperator", "cloudConfig", "bundle"}
INVARIANTS
  HandoffBeforeDeploy
PROPERTIES
  Converges
  PlatformSettles
