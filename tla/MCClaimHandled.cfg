SPECIFICATION Spec
CONSTANTS
  Inputs = {humidity}
  NoInput = NoInput
  Values = {low, high}
  NoValue = NoValue
  NoState = NoState
  Invalid = Invalid
  Unsuitable = Unsuitable
  RewriteInterval = 3
  RetryInterval = 1
  ValueValid = 5
  NoDataAfter = 3
  RequestTimeout = 0
  MaxInFlight = 2
  AgeLimit = 5
  SourceStates = {low, high}
  Removable = {}
  Faults = {}
  Reloads = FALSE
INVARIANTS HandledChangeReachesUnit
