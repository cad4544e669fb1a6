\* Each of these is violated (see the findings in README.md).  TLC stops at the
\* first one it meets: check them one at a time.
SPECIFICATION LiveSpec
CONSTANTS
    Control = control
    Beat = beat
    Loops = {l1, l2}
    NoLoop = NoLoop
    Pubs = {p1, p2}
    NoPub = NoPub
    Kinds = {"picam"}
    Homes = {1, 2}
    MaxAsks = 2
    MaxMoves = 0
    MaxFaults = 0
CHECK_DEADLOCK FALSE
PROPERTY StaysStopped
PROPERTY SettlesAsAdvertised
