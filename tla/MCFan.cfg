SPECIFICATION FairSpec
CONSTANTS
  Modes = {"off", "manual", "eco_supply_air"}
  Durations = {0, 1, 2}
  UnitMinutes = 5
  Idle = Idle
  Faults = {"lost", "unanswered", "identity"}
  Topics = {{"boost"}, {"speed"}}
  QueueLimit = 3
INVARIANTS TypeOK TimedBoostKeepsItsTimer KnownEndDropsTheTimer SpeedComesWithAMode RemovedFanIsDone
PROPERTIES TimedBoostEnds
