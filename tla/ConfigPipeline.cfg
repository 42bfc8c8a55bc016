SPECIFICATION FairSpec
CONSTANTS
  SectionNames <- MCSectionNames
  PlatformsOf <- MCPlatforms
  SourcesOf <- MCSourcesOf
  FeatureSets <- MCFeatureSets
  SecretsOf <- MCSecretsOf
  Bundles <- MCBundles
  FirstBundle <- MCFirstBundle
  MaxChanges = 2
  MaxFaults = 1
INVARIANTS TransformContract MethodComplete PodAtRest
PROPERTIES SyncIsStable PodsFollow RefusalReported
