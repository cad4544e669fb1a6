\* With these constants TLC also finds violated (the findings in README.md), each
\* checked by itself in place of what is listed below:
\* AlwaysAsAsked, QueueBounded (state predicates),
\* DisabledGetsNothing, AllOrNothing, RestoredAsSaid, TrustMatches (temporal formulas).
SPECIFICATION UpkeepSpec
CONSTANTS
  Dests = {d1}
  Classes = {"motion"}
  Workers = {w1, w2}
  Requests = {r1, r2}
  Retries = 1
  DegradedAfter = 2
  MaxEvents = 2
  MaxRequests = 3
  MaxClips = 2
  MaxPending = 1
  MaxFailed = 1
  MaxRetries = 2
  PerCycle = 1
  MaxReconfigs = 1
  MaxTroubles = 1
  History = 1
  MaxSaves = 2
  MaxImports = 1
CHECK_DEADLOCK FALSE
INVARIANT UpkeepInv
PROPERTIES ImportAtomic UpkeepSettles
