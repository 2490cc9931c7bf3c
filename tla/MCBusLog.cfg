SPECIFICATION FairSpec
CONSTANTS
  Inputs = {humidity, room_temp}
  Values = {low, high}
  NoValue = NoValue
  RewriteInterval = 3
INVARIANTS TypeOK LatestIsShownOrWaits AtMostOneEntryPerInterval
PROPERTY LatestIsShownEventually
