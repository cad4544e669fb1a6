\* Each of these is violated (see the findings in README.md).  TLC stops at the
\* first one it meets: check them one at a time.
SPECIFICATION ApplianceSpec
CONSTANTS
  MaxEdits = 2
  MaxLosses = 2
  Lag = 1
  Minutes = 2
  MinutesPerDay = 2
  DaysPerWeek = 2
  MaxReplans = 2
  MaxMishaps = 2
  Tries = {1, 2}
  MaxFaults = 3
  Interval = 2
  Freshness = 3
  WatchdogSec = 6
  Lap = 2
  Addresses = {"a", "b"}
  Threshold = 2
  MaxMoves = 2
CHECK_DEADLOCK FALSE
INVARIANT AlwaysReady
INVARIANT EveryMinuteOnce
INVARIANT SuccessIsConnection
INVARIANT StampedConfigured
PROPERTY MotionArrives
PROPERTY LatestPlanWins
PROPERTY SkippedWhileBusy
PROPERTY ResetOffersWizard
PROPERTY HotspotReturns
PROPERTY ConnectedOnceSetUp
PROPERTY ExitsByItself
