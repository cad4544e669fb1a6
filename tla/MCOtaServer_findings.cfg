\* Each of these is violated (see the findings in README.md).  TLC stops at the
\* first one it meets: check them one at a time.
SPECIFICATION Spec
CONSTANTS
  Versions = {1, 2}
  NoImage = NoImage
  None = None
  Bundles <- SomeBundles
  Reqs = {r1, r2}
  Workers = {w1, w2}
  Left <- OlderBundle
  Kept = {None, 1}
  MaxRequests = 3
  MaxFaults = 0
CHECK_DEADLOCK FALSE
INVARIANTS OneUpdater PushShows
PROPERTY InstallSettles
