SPECIFICATION Spec
CONSTANTS
  Inputs = {humidity}
  NoInput = NoInput
  Values = {low, high}
  NoValue = NoValue
  NoState = NoState
  Invalid = Invalid
  Unsuitable = Unsuitable
  RewriteInterval = 2
  RetryInterval = 1
  ValueValid = 3
  NoDataAfter = 2
  RequestTimeout = 0
  MaxInFlight = 2
  AgeLimit = 3
  SourceStates = {low, high, NoState}
  Removable = {humidity}
  Faults = {"lost", "unanswered", "identity"}
  Reloads = FALSE
INVARIANTS TypeOK SentValueIsHonest SteadySourceIsRetried ForcedWriteSettles NoDataMeansUnusable LongGapIsReported
