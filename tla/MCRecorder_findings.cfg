\* Each of these is violated (see the findings in README.md).  TLC stops at the
\* first one it meets: check them one at a time.  For EventuallyStops a recorder
\* keeps dying and nothing is launched beside it: SPECIFICATION LiveSpec,
\* Nudgers = {}, Admins = {}, ForgetOrphans = TRUE and CrashForever = TRUE.
SPECIFICATION Spec
CONSTANTS
    Tick = tick
    Watchdog = wd
    NoProc = NoProc
    Nudgers = {nudge}
    Admins = {admin}
    Procs = {p1, p2, p3}
    StorageFaults = FALSE
    LaunchFaults = FALSE
    KillTimeouts = FALSE
    ForgetOrphans = FALSE
    MaxChanges = 1
    MaxAdminOps = 1
    MaxCrashes = 1
    CrashForever = FALSE
INVARIANT NeverOrphaned
PROPERTY WatchdogRespectsStop
PROPERTY EventuallyStops
