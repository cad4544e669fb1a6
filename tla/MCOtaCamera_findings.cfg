\* Each of these is violated (see the findings in README.md).  TLC stops at the
\* first one it meets: check them one at a time.
SPECIFICATION Spec
CONSTANTS
  Versions = {1, 2}
  Partial = Partial
  Transports = {"agent", "page"}
  MaxUploads = 2
  MaxCuts = 0
  BootLimit = 2
CHECK_DEADLOCK FALSE
PROPERTY NeverOlder
PROPERTY AcceptsAgain
INVARIANT NeverBricked
