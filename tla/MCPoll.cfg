SPECIFICATION FairSpec
CONSTANTS
  Registers <- MCKeys
  Blocks <- MCBlocks
  Identity = {"language"}
  Watched = {"clock_deviation"}
  Clock = "clock_deviation"
  Settings = {"off_lock", "language"}
  BusInput = BusInput
  Idle = Idle
  Nothing = Nothing
  ScanInterval = 2
  Drift = 3
  ClockDriftLimit = 1
  TroubleLimit = 3
INVARIANTS TypeOK IssuesTellTheData
PROPERTIES DataIsOfOnePoll IssueNeedsAReading StrangerIsNotWritten ViewSettles
