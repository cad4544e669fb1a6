\* Each of these is violated (see the findings in README.md).  TLC stops at the
\* first one it meets: check them one at a time.
SPECIFICATION Spec
CONSTANTS
  Dirs = {internal, usb}
  Internal = internal
  Changers = {t1, t2}
  MaxClips = 2
  QueueMax = 1
  MaxEvents = 2
  None = None
CHECK_DEADLOCK FALSE
INVARIANT NoFootageLost
INVARIANT DeletedStaysDeleted
INVARIANT DirsSettle
PROPERTY EveryClipStamped
