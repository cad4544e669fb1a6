SPECIFICATION LiveSpec
CONSTANTS
    Control = control
    Beat = beat
    Loops = {l1, l2}
    NoLoop = NoLoop
    Pubs = {p1, p2}
    NoPub = NoPub
    Kinds = {"picam", "libcamera", "v4l2"}
    Homes = {1, 2}
    MaxAsks = 2
    MaxMoves = 1
    MaxFaults = 1
CHECK_DEADLOCK FALSE
CONSTRAINT Orderly
INVARIANTS
    StreamInv
    StopIsQuiet
PROPERTIES
    StreamsWhenDesired
    NoStalePublisher
