SPECIFICATION FairSpec
CONSTANTS
  Inputs = {humidity}
  NoInput = NoInput
  Values = {low, high}
  NoValue = NoValue
  NoState = NoState
  Invalid = Invalid
  Unsuitable = Unsuitable
  RewriteInterval = 3
  RetryInterval = 1
  ValueValid = 5
  NoDataAfter = 3
  RequestTimeout = 1
  MaxInFlight = 2
  AgeLimit = 9
  SourceStates = {low, high, Invalid}
  Removable = {}
  Faults = {"lost"}
  Reloads = FALSE
INVARIANTS SteadySourceStaysValid OutageIsReported
PROPERTIES UnitFollowsSource
