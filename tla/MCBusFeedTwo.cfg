SPECIFICATION Spec
CONSTANTS
  Inputs = {humidity, room_temp}
  NoInput = NoInput
  Values = {low}
  NoValue = NoValue
  NoState = NoState
  Invalid = Invalid
  Unsuitable = Unsuitable
  RewriteInterval = 1
  RetryInterval = 1
  ValueValid = 1
  NoDataAfter = 0
  RequestTimeout = 0
  MaxInFlight = 1
  AgeLimit = 1
  SourceStates = {low, Unsuitable}
  Removable = {}
  Faults = {"lost"}
  Reloads = TRUE
SYMMETRY InputSymmetry
INVARIANTS StoppedIsQuiet
PROPERTIES LogSpec DeliverySpec
