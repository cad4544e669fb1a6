SPECIFICATION ApplianceSpec
CONSTANTS
  MaxEdits = 2
  MaxLosses = 1
  Lag = 1
  Minutes = 2
  MinutesPerDay = 2
  DaysPerWeek = 2
  MaxReplans = 2
  MaxMishaps = 2
  Tries = {1, 2}
  MaxFaults = 3
  Interval = 2
  Freshness = 3
  WatchdogSec = 6
  Lap = 2
  Addresses = {"a", "b"}
  Threshold = 2
  MaxMoves = 2
CHECK_DEADLOCK FALSE
INVARIANT ApplianceInv
PROPERTIES ApplianceSettles WatchdogRight FollowsServer
