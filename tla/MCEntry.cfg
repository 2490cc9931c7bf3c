SPECIFICATION FairSpec
CONSTANTS
  Registers = {"mode", "filter", "sensor"}
  Groups <- MCGroups
  WriteOnly = {"reset"}
  ProbeVia <- MCProbeVia
  Accessories = {"filters", "sensors"}
  Keys <- MCKeys
  Detectable = {"filters", "sensors"}
  Kept = {"filters"}
  Legacy = {"filters"}
  Unset = Unset
  ProbeAttempts = 2
  Hosts = {"here", "there"}
  Has <- MCHas
  Platforms = {"sensor", "button"}
  PlatformOf <- MCPlatformOf
  DefaultOff = {"sensor"}
  Closed = Closed
  UserChanges = {"options", "reconfigure", "rediscover", "entities", "unload"}
  TroubleLimit = 2
  ChangeLimit = 2
INVARIANTS TypeOK LoadedRunsWhatIsStored DiscoveryIsTrue DetectedFilterStays EntitiesFollowTheSetup
PROPERTIES SetupSettles
