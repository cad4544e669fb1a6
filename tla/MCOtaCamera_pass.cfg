SPECIFICATION Spec
CONSTANTS
  Versions = {1, 2}
  Partial = Partial
  Transports = {"agent", "page"}
  MaxUploads = 2
  MaxCuts = 1
  BootLimit = 2
CONSTRAINT Apart
INVARIANTS TypeOK StartsWhole
PROPERTIES FirmwareSpec BusyEnds
CHECK_DEADLOCK FALSE
