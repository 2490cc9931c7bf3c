SPECIFICATION Spec
CONSTANTS
  Registers = {"mode", "filter", "sensor"}
  Groups <- MCGroups
  WriteOnly = {"reset"}
  ProbeVia <- MCProbeVia
  Accessories = {"filters", "sensors"}
  Keys <- MCKeys
  Detectable = {"filters", "sensors"}
  Kept = {"filters"}
  Legacy = {"filters"}
  Unset = Unset
  ProbeAttempts = 2
  Hosts = {"here", "there"}
  Has <- MCHas
  Platforms = {"sensor", "button"}
  PlatformOf <- MCPlatformOf
  DefaultOff = {"sensor"}
  Closed = Closed
  UserChanges = {"reconfigure"}
  TroubleLimit = 0
  ChangeLimit = 1
INVARIANT DiscoveryIsOfTheConnection
