SPECIFICATION Spec
CONSTANTS
    Tick = tick
    Watchdog = wd
    NoProc = NoProc
    Nudgers = {}
    Admins = {admin}
    Procs = {p1, p2}
    StorageFaults = TRUE
    LaunchFaults = TRUE
    KillTimeouts = TRUE
    ForgetOrphans = FALSE
    MaxChanges = 1
    MaxAdminOps = 1
    MaxCrashes = 1
    CrashForever = FALSE
SYMMETRY ProcSymmetry
INVARIANTS
    TypeOK
    OwnsEveryRecorder
    AliveIsIntended
    TerminateExclusive
    LaunchPrivate
