SPECIFICATION Spec
CONSTANTS
  Inputs = {humidity, room_temp}
  RetryInterval = 1
  ValueValid = 3
  AgeLimit = 4
INVARIANTS TypeOK IssueIsJustified LogbookTellsTheOutage
