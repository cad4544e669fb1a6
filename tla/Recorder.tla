------------------------------ MODULE Recorder ------------------------------
(***************************************************************************)
(* Ownership of a camera's recorder process by StreamingService            *)
(* (services/streaming_service.py) and by the threads that drive it: the   *)
(* RecordingScheduler tick thread, request threads that nudge the          *)
(* scheduler, request threads of an administrator (delete or unpair a      *)
(* camera, move the recordings directory, change the clip length) and the  *)
(* service's own watchdog.                                                 *)
(*                                                                         *)
(* The service's dictionaries are keyed by camera and no step relates two  *)
(* keys, so the module follows one key.  A region under StreamingService's *)
(* _lock is one action; everything between two regions is a point where    *)
(* other threads run.  A thread's nested calls are a stack of labels.      *)
(***************************************************************************)
EXTENDS Integers, Sequences, FiniteSets

CONSTANTS
    Tick,           \* the scheduler's daemon thread
    Nudgers,        \* request threads calling RecordingScheduler.nudge
    Admins,         \* request threads of an administrator
    Watchdog,       \* the stream-watchdog thread
    Procs,          \* ffmpeg processes (identifiers are reused)
    NoProc,         \* no Popen object
    StorageFaults,  \* TRUE: the recordings directory may be unwritable
    LaunchFaults,   \* TRUE: Popen may raise
    KillTimeouts,   \* TRUE: ffmpeg may outlive kill() and wait(timeout=2)
    ForgetOrphans,  \* TRUE: the identifier of a process nobody refers to is
                    \*       reused while it runs (runs about rec alone)
    MaxChanges,     \* bound on changes of what the scheduler wants
    MaxAdminOps,    \* bound on administrator requests
    MaxCrashes,     \* bound on unexpected ffmpeg exits
    CrashForever    \* TRUE: unexpected exits are not counted

Schedulers == {Tick} \cup Nudgers
Threads    == Schedulers \cup Admins \cup {Watchdog}

ASSUME RecorderAssumption ==
    /\ NoProc \notin Procs
    /\ Watchdog \notin Schedulers \cup Admins
    /\ Schedulers \cap Admins = {}
    /\ StorageFaults \in BOOLEAN
    /\ LaunchFaults \in BOOLEAN
    /\ KillTimeouts \in BOOLEAN
    /\ CrashForever \in BOOLEAN
    /\ ForgetOrphans \in BOOLEAN
    /\ MaxChanges \in Nat
    /\ MaxAdminOps \in Nat
    /\ MaxCrashes \in Nat

VARIABLES
    rec,        \* _rec_procs.get(cam)
    live,       \* ffmpeg processes that have not exited
    intent,     \* _recorder_intent.get(cam)
    usb,        \* the active recordings directory is not the internal one
    wanted,     \* what the scheduler would do now: "on", "off" or "wait"
    pc,         \* where each thread is
    stack,      \* return labels of each thread's nested calls
    held,       \* the process object in each thread's local variable
    disturbed,  \* history: calls have overlapped, a failover has run inside a
                \* start, or an ffmpeg has outlived its kill
    changes,    \* changes of wanted
    adminOps,   \* administrator requests made
    crashes     \* unexpected exits counted

env  == <<usb, wanted, changes, adminOps, crashes>>
vars == <<rec, live, intent, usb, wanted, pc, stack, held, disturbed, changes,
          adminOps, crashes>>

\* evaluate is false; it is true and the camera streams; it is true but the
\* camera does not stream yet, so there is nothing to record from
Wishes == {"off", "on", "wait"}

Labels == {"idle", "check_on", "check_off", "check_wait", "start", "prepare", "fault",
           "retry", "launch", "store", "keys", "stop", "pop", "terminate",
           "poll", "discard", "settle"}

Frames == {"start", "retry", "settle"}

TypeOK ==
    /\ rec \in Procs \cup {NoProc}
    /\ live \subseteq Procs
    /\ intent \in {"none", "wanted", "stopped"}
    /\ usb \in BOOLEAN
    /\ wanted \in Wishes
    /\ pc \in [Threads -> Labels]
    /\ stack \in [Threads -> Seq(Frames)]
    /\ held \in [Threads -> Procs \cup {NoProc}]
    /\ disturbed \in BOOLEAN
    /\ changes \in 0..MaxChanges
    /\ adminOps \in 0..MaxAdminOps
    /\ crashes \in 0..MaxCrashes

Init ==
    /\ rec = NoProc
    /\ live = {}
    /\ intent = "none"
    /\ usb \in BOOLEAN
    /\ wanted \in Wishes
    /\ pc = [t \in Threads |-> "idle"]
    /\ stack = [t \in Threads |-> <<>>]
    /\ held = [t \in Threads |-> NoProc]
    /\ disturbed = FALSE
    /\ changes = 0
    /\ adminOps = 0
    /\ crashes = 0

-----------------------------------------------------------------------------
(* Control flow of a thread.                                               *)

\* is_recording: the entry exists and poll() returned None
Recording == rec # NoProc /\ rec \in live

AllIdle == \A t \in Threads : pc[t] = "idle"

\* a call begins; it overlaps another one when some thread is not idle
Begin(t) ==
    /\ pc[t] = "idle"
    /\ disturbed' = (disturbed \/ ~AllIdle)

Goto(t, label) == pc' = [pc EXCEPT ![t] = label] /\ UNCHANGED stack

\* a call of label; frames are the labels to return to, innermost first
Call(t, label, frames) ==
    /\ pc' = [pc EXCEPT ![t] = label]
    /\ stack' = [stack EXCEPT ![t] = frames \o @]

Return(t) ==
    \/ /\ stack[t] = <<>>
       /\ pc' = [pc EXCEPT ![t] = "idle"]
       /\ UNCHANGED stack
    \/ /\ stack[t] # <<>>
       /\ pc' = [pc EXCEPT ![t] = Head(stack[t])]
       /\ stack' = [stack EXCEPT ![t] = Tail(@)]

\* an exception leaves every call up to set_recordings_dir, which logs it and
\* returns to the storage-fault handler, or up to the thread's main loop
Raise(t) ==
    \/ /\ \A i \in DOMAIN stack[t] : stack[t][i] # "retry"
       /\ pc' = [pc EXCEPT ![t] = "idle"]
       /\ stack' = [stack EXCEPT ![t] = <<>>]
    \/ \E i \in DOMAIN stack[t] :
          /\ stack[t][i] = "retry"
          /\ \A j \in 1..(i - 1) : stack[t][j] # "retry"
          /\ pc' = [pc EXCEPT ![t] = "retry"]
          /\ stack' = [stack EXCEPT ![t] = SubSeq(@, i + 1, Len(@))]

Hold(t, p) == held' = [held EXCEPT ![t] = p]

FreeProcs ==
    {p \in Procs : /\ p # rec
                   /\ \A t \in Threads : held[t] # p
                   /\ ForgetOrphans \/ p \notin live}

-----------------------------------------------------------------------------
(* start_recorder                                                          *)

\* mutant of StartCheck: the intent is not recorded
StartCheckNoIntent(t) ==
    /\ pc[t] = "start"
    /\ \/ Recording /\ Return(t)
       \/ ~Recording /\ Goto(t, "prepare")
    /\ UNCHANGED <<rec, live, intent, held, disturbed, env>>

StartCheck(t) ==
    /\ pc[t] = "start"
    /\ \/ Recording /\ Return(t) /\ UNCHANGED intent
       \/ ~Recording /\ intent' = "wanted" /\ Goto(t, "prepare")
    /\ UNCHANGED <<rec, live, held, disturbed, env>>

\* _prepare_recorder_paths, first attempt: the probe file is written or not
PreparePaths(t) ==
    /\ pc[t] = "prepare"
    /\ \/ Goto(t, "launch")
       \/ StorageFaults /\ Goto(t, "fault")
    /\ UNCHANGED <<rec, live, intent, held, disturbed, env>>

\* handle_recording_storage_fault: a directory that is repaired, already
\* replaced or internal is returned as it is; an external one that stays
\* broken is abandoned through set_recordings_dir, whose callback runs
\* update_recordings_dir on this thread before the handler returns; a handler
\* that raises yields no directory
StorageFault(t) ==
    /\ pc[t] = "fault"
    /\ \/ Goto(t, "retry") /\ UNCHANGED <<usb, disturbed>>
       \/ /\ usb
          /\ usb' = FALSE
          /\ disturbed' = TRUE
          /\ Call(t, "keys", <<"settle", "retry">>)
       \/ Return(t) /\ UNCHANGED <<usb, disturbed>>
    /\ UNCHANGED <<rec, live, intent, held, wanted, changes, adminOps, crashes>>

\* _prepare_recorder_paths, second and last attempt
RetryPaths(t) ==
    /\ pc[t] = "retry"
    /\ Goto(t, "launch") \/ Return(t)
    /\ UNCHANGED <<rec, live, intent, held, disturbed, env>>

\* mutant of Launch: the process is published as soon as it is spawned
LaunchPublished(t) ==
    /\ pc[t] = "launch"
    /\ \E p \in FreeProcs :
          /\ live' = live \cup {p}
          /\ rec' = p
          /\ Hold(t, p)
          /\ Goto(t, "store")
    /\ UNCHANGED <<intent, disturbed, env>>

\* _launch_ffmpeg: Popen succeeds or raises
Launch(t) ==
    /\ pc[t] = "launch"
    /\ \/ \E p \in FreeProcs :
             live' = live \cup {p} /\ Hold(t, p) /\ Goto(t, "store")
       \/ LaunchFaults /\ Return(t) /\ UNCHANGED <<live, held>>
    /\ UNCHANGED <<rec, intent, disturbed, env>>

StoreProc(t) ==
    /\ pc[t] = "store"
    /\ rec' = held[t]
    /\ Hold(t, NoProc)
    /\ Return(t)
    /\ UNCHANGED <<live, intent, disturbed, env>>

-----------------------------------------------------------------------------
(* stop_recorder and _stop_process                                         *)

StopIntent(t) ==
    /\ pc[t] = "stop"
    /\ intent' = "stopped"
    /\ Goto(t, "pop")
    /\ UNCHANGED <<rec, live, held, disturbed, env>>

\* mutant of PopProc: get instead of pop
PopProcGet(t) ==
    /\ pc[t] = "pop"
    /\ \/ rec = NoProc /\ Return(t) /\ UNCHANGED held
       \/ rec # NoProc /\ Hold(t, rec) /\ Goto(t, "terminate")
    /\ UNCHANGED <<rec, live, intent, disturbed, env>>

PopProc(t) ==
    /\ pc[t] = "pop"
    /\ rec' = NoProc
    /\ \/ rec = NoProc /\ Return(t) /\ UNCHANGED held
       \/ rec # NoProc /\ Hold(t, rec) /\ Goto(t, "terminate")
    /\ UNCHANGED <<live, intent, disturbed, env>>

\* terminate, wait, kill, wait: the process has exited on return, or the
\* second wait raises TimeoutExpired, which is no OSError
Terminate(t) ==
    /\ pc[t] = "terminate"
    /\ Hold(t, NoProc)
    /\ \/ live' = live \ {held[t]} /\ Return(t) /\ UNCHANGED disturbed
       \/ KillTimeouts /\ Raise(t) /\ disturbed' = TRUE /\ UNCHANGED live
    /\ UNCHANGED <<rec, intent, env>>

\* mutant of RestartActive: the stop returns to the scan, not to the start
RestartActiveRescan(t) ==
    /\ pc[t] = "keys"
    /\ \/ rec = NoProc /\ Return(t)
       \/ rec # NoProc /\ Call(t, "stop", <<"keys">>)
    /\ UNCHANGED <<rec, live, intent, held, disturbed, env>>

\* update_recordings_dir and set_clip_duration: an entry in the dictionary,
\* its process alive or dead, is stopped and started again
RestartActive(t) ==
    /\ pc[t] = "keys"
    /\ \/ rec = NoProc /\ Return(t)
       \/ rec # NoProc /\ Call(t, "stop", <<"start">>)
    /\ UNCHANGED <<rec, live, intent, held, disturbed, env>>

\* _sync_recording_dir_dependents: the directory the manager has by now is
\* applied when it is not the one just applied
Settle(t) ==
    /\ pc[t] = "settle"
    /\ Return(t) \/ Goto(t, "keys")
    /\ UNCHANGED <<rec, live, intent, held, disturbed, env>>

-----------------------------------------------------------------------------
(* The callers.                                                            *)

\* RecordingScheduler.tick and nudge: the camera's row and evaluate, then
\* is_recording; a camera that is wanted but not streaming is only asked to
Evaluate(t) ==
    /\ t \in Schedulers
    /\ Begin(t)
    /\ Goto(t, CASE wanted = "on"   -> "check_on"
                 [] wanted = "off"  -> "check_off"
                 [] wanted = "wait" -> "check_wait")
    /\ UNCHANGED <<rec, live, intent, held, env>>

\* mutant of Reconcile: an earlier deliberate stop is never reversed
ReconcileStopIsFinal(t) ==
    /\ \/ /\ pc[t] = "check_on"
          /\ Goto(t, IF Recording \/ intent = "stopped" THEN "idle" ELSE "start")
       \/ pc[t] = "check_off" /\ Goto(t, IF Recording THEN "stop" ELSE "idle")
       \/ pc[t] = "check_wait" /\ Goto(t, "idle")
    /\ UNCHANGED <<rec, live, intent, held, disturbed, env>>

\* mutant of Reconcile: the branch that stops is missing
ReconcileNeverStops(t) ==
    /\ \/ pc[t] = "check_on" /\ Goto(t, IF Recording THEN "idle" ELSE "start")
       \/ pc[t] \in {"check_off", "check_wait"} /\ Goto(t, "idle")
    /\ UNCHANGED <<rec, live, intent, held, disturbed, env>>

Reconcile(t) ==
    /\ \/ pc[t] = "check_on" /\ Goto(t, IF Recording THEN "idle" ELSE "start")
       \/ pc[t] = "check_off" /\ Goto(t, IF Recording THEN "stop" ELSE "idle")
       \/ pc[t] = "check_wait" /\ Goto(t, "idle")
    /\ UNCHANGED <<rec, live, intent, held, disturbed, env>>

\* camera deleted or unpaired: stop_camera
StopCamera(t) ==
    /\ t \in Admins
    /\ Begin(t)
    /\ adminOps < MaxAdminOps
    /\ adminOps' = adminOps + 1
    /\ Goto(t, "stop")
    /\ UNCHANGED <<rec, live, intent, held, usb, wanted, changes, crashes>>

\* storage device selected or ejected
UpdateRecordingsDir(t) ==
    /\ t \in Admins
    /\ Begin(t)
    /\ adminOps < MaxAdminOps
    /\ adminOps' = adminOps + 1
    /\ usb' \in BOOLEAN
    /\ Call(t, "keys", <<"settle">>)
    /\ UNCHANGED <<rec, live, intent, held, wanted, changes, crashes>>

SetClipDuration(t) ==
    /\ t \in Admins
    /\ Begin(t)
    /\ adminOps < MaxAdminOps
    /\ adminOps' = adminOps + 1
    /\ Goto(t, "keys")
    /\ UNCHANGED <<rec, live, intent, held, usb, wanted, changes, crashes>>

\* _check_processes: copy the dictionary under the lock
WatchdogSnapshot ==
    /\ Begin(Watchdog)
    /\ rec # NoProc
    /\ Hold(Watchdog, rec)
    /\ Goto(Watchdog, "poll")
    /\ UNCHANGED <<rec, live, intent, env>>

\* mutant of WatchdogPoll: the exit status is not looked at
WatchdogPollBlind ==
    /\ pc[Watchdog] = "poll"
    /\ Hold(Watchdog, NoProc)
    /\ Goto(Watchdog, IF intent = "wanted" THEN "discard" ELSE "idle")
    /\ UNCHANGED <<rec, live, intent, disturbed, env>>

\* poll the copied process and read the intent, both without the lock
WatchdogPoll ==
    /\ pc[Watchdog] = "poll"
    /\ Hold(Watchdog, NoProc)
    /\ Goto(Watchdog, IF held[Watchdog] \notin live /\ intent = "wanted"
                      THEN "discard" ELSE "idle")
    /\ UNCHANGED <<rec, live, intent, disturbed, env>>

\* drop the camera's entry, whatever it is by now, and start again
WatchdogDiscard ==
    /\ pc[Watchdog] = "discard"
    /\ rec' = NoProc
    /\ Goto(Watchdog, "start")
    /\ UNCHANGED <<live, intent, held, disturbed, env>>

-----------------------------------------------------------------------------
(* The environment.                                                        *)

\* recording mode, schedule window, motion and the camera's own streaming
\* flag change what the scheduler would do
WantedChanges ==
    /\ changes < MaxChanges
    /\ changes' = changes + 1
    /\ wanted' \in Wishes \ {wanted}
    /\ UNCHANGED <<rec, live, intent, usb, pc, stack, held, disturbed, adminOps,
                   crashes>>

\* ffmpeg exits on its own: no publisher, full disk, killed
Crash ==
    /\ crashes < MaxCrashes
    /\ \E p \in live : live' = live \ {p}
    /\ crashes' = IF CrashForever THEN crashes ELSE crashes + 1
    /\ UNCHANGED <<rec, intent, usb, wanted, pc, stack, held, disturbed, changes,
                   adminOps>>

-----------------------------------------------------------------------------
StartRecorder(t) ==
    \/ StartCheck(t) \/ PreparePaths(t) \/ StorageFault(t)
    \/ RetryPaths(t) \/ Launch(t) \/ StoreProc(t)

StopRecorder(t) == StopIntent(t) \/ PopProc(t) \/ Terminate(t)

\* what a thread does once its call has begun
Continue(t) ==
    \/ StartRecorder(t) \/ StopRecorder(t) \/ RestartActive(t) \/ Settle(t)
    \/ Reconcile(t)

AdminCall(t) == StopCamera(t) \/ UpdateRecordingsDir(t) \/ SetClipDuration(t)

CheckProcesses == WatchdogSnapshot \/ WatchdogPoll \/ WatchdogDiscard

Next ==
    \/ \E t \in Threads : Continue(t)
    \/ \E t \in Schedulers : Evaluate(t)
    \/ \E t \in Admins : AdminCall(t)
    \/ CheckProcesses
    \/ WantedChanges
    \/ Crash

Spec == Init /\ [][Next]_vars

\* The tick and watchdog loops run for as long as the service does, and a
\* thread that has begun a call is scheduled again.  Administrators, nudges
\* and crashes are under no obligation.
Fairness ==
    /\ \A t \in Threads : WF_vars(Continue(t))
    /\ WF_vars(Evaluate(Tick))
    /\ WF_vars(CheckProcesses)

LiveSpec == Spec /\ Fairness

-----------------------------------------------------------------------------
(* Properties.                                                             *)

\* A process object popped for termination belongs to one thread: it is no
\* longer in the dictionary, and no other thread holds it to store or to
\* terminate it (_stop_process pops under the lock, so two stops of one
\* camera never both signal the same process).
TerminateExclusive ==
    \A t \in Threads :
        pc[t] = "terminate" =>
            /\ held[t] # rec
            /\ \A u \in Threads \ {t} :
                  pc[u] \in {"store", "terminate"} => held[u] # held[t]

\* A newly launched process is known to the launching thread alone until it
\* is stored, so no stop can have reached it (start_recorder stores the Popen
\* object in a second locked region).
LaunchPrivate ==
    \A t \in Threads :
        pc[t] = "store" =>
            /\ held[t] # NoProc
            /\ held[t] # rec
            /\ \A u \in Threads \ {t} : held[u] # held[t]

\* Between calls the service owns every recorder ffmpeg that is alive, as long
\* as calls have not overlapped, no failover has run inside a start_recorder
\* and no ffmpeg has outlived its kill: those three are the only ways to lose
\* a running recorder.
OwnsEveryRecorder == AllIdle /\ ~disturbed => live \subseteq {rec}

\* Under the same conditions a recorder that is alive is one the service
\* intends: no call brings one up without recording the wish, and none leaves
\* one behind after recording a stop.
AliveIsIntended == AllIdle /\ ~disturbed /\ Recording => intent = "wanted"

\* start_recorder is idempotent (its docstring), so between calls there is
\* never a recorder ffmpeg that _rec_procs does not hold.
NeverOrphaned == AllIdle => live \subseteq {rec}

\* The watchdog never turns a deliberate stop back into a wish to record: a
\* deliberately stopped process is not restarted (module docstring of
\* streaming_service.py and docstring of _check_processes).
WatchdogRespectsStop ==
    [][StartCheck(Watchdog) => ~(intent = "stopped" /\ intent' = "wanted")]_vars

\* While a streaming camera is to be recorded, the camera is recorded
\* again and again however ffmpeg dies (tick and watchdog both restart it).
EventuallyRecords == <>[](wanted = "on") => []<>Recording

\* When nothing wants a recording any more, the recorder the service knows
\* of is stopped for good (RecordingScheduler: mode "off", recorder stopped).
EventuallyStops == <>[](wanted = "off") => <>[](~Recording)

=============================================================================
