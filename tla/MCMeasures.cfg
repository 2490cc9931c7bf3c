SPECIFICATION Spec
CONSTANTS
  Polled <- MCPolled
  Missing = Missing
  NoReading = NoReading
  Gates = {"summer_bypass_open"}
  HasExtract = TRUE
  Low <- MCLow
  High <- MCHigh
  AirHeatCapacity = 34
  MinSpread = 5
  MaxPower = 10000
  MaxGap = 2
  Shown = 120
  TimeLimit = 3
  ReadingLimit = 4
  RestoredLimit = 0
  MaxBlockSize = 4
  Registers <- MCRegisters
  WordBits = 3
  Scales = {1, 4, 5}
  ValueLimit = 300
INVARIANTS TotalIsTheArea CodecAgrees BlocksAgree
