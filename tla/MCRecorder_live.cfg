SPECIFICATION LiveSpec
CONSTANTS
    Tick = tick
    Watchdog = wd
    NoProc = NoProc
    Nudgers = {}
    Admins = {admin}
    Procs = {p1, p2, p3}
    StorageFaults = FALSE
    LaunchFaults = FALSE
    KillTimeouts = FALSE
    ForgetOrphans = TRUE
    MaxChanges = 1
    MaxAdminOps = 1
    MaxCrashes = 1
    CrashForever = FALSE
PROPERTIES
    EventuallyRecords
    EventuallyStops
