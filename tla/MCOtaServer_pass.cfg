SPECIFICATION Spec
CONSTANTS
  Versions = {1, 2}
  NoImage = NoImage
  None = None
  Bundles <- SomeBundles
  Reqs = {r1}
  Workers = {w1, w2}
  Left <- OlderBundle
  Kept = {None}
  MaxRequests = 2
  MaxFaults = 1
INVARIANT UpdaterInv
PROPERTIES ServerNeverOlder PushSettles
CHECK_DEADLOCK FALSE
