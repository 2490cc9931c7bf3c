SPECIFICATION Spec
CONSTANTS
  Registers <- MCKeys
  Blocks <- MCBlocks
  Identity = {"language"}
  Watched = {"clock_deviation"}
  Clock = "clock_deviation"
  Settings = {"off_lock", "language"}
  BusInput = BusInput
  Idle = Idle
  Nothing = Nothing
  ScanInterval = 3
  Drift = 6
  ClockDriftLimit = 2
  TroubleLimit = 1
INVARIANT RightClockHasNoIssue
