SPECIFICATION Spec
CONSTANTS
  Dirs = {internal, usb}
  Internal = internal
  Changers = {t1}
  MaxClips = 2
  QueueMax = 1
  MaxEvents = 2
  None = None
INVARIANT ClipInv
PROPERTY ListedIsStamped
CHECK_DEADLOCK FALSE
