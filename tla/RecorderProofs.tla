--------------------------- MODULE RecorderProofs ---------------------------
(***************************************************************************)
(* Proofs about Recorder for every set of threads and processes and every  *)
(* value of the bounds: the type invariant, the two ownership invariants   *)
(* of the process object in a thread's local variable, and what the        *)
(* service owns between calls.                                             *)
(***************************************************************************)
EXTENDS Recorder, TLAPS

\* what a thread step leaves alone or changes, seen by the type invariant
LEMMA ReturnTypes ==
    ASSUME TypeOK, NEW t \in Threads, Return(t)
    PROVE  pc' \in [Threads -> Labels] /\ stack' \in [Threads -> Seq(Frames)]
<1>1. stack[t] \in Seq(Frames)
  BY DEF TypeOK
<1>2. CASE stack[t] = <<>>
  BY <1>2 DEF Return, TypeOK, Labels
<1>3. CASE stack[t] # <<>>
  <2>1. Head(stack[t]) \in Frames /\ Tail(stack[t]) \in Seq(Frames)
    BY <1>1, <1>3
  <2>2. Head(stack[t]) \in Labels
    BY <2>1 DEF Frames, Labels
  <2> QED
    BY <1>3, <2>1, <2>2 DEF Return, TypeOK
<1> QED
  BY <1>2, <1>3

LEMMA GotoTypes ==
    ASSUME TypeOK, NEW t \in Threads, NEW l \in Labels, Goto(t, l)
    PROVE  pc' \in [Threads -> Labels] /\ stack' \in [Threads -> Seq(Frames)]
BY DEF TypeOK, Goto

LEMMA CallTypes ==
    ASSUME TypeOK, NEW t \in Threads, NEW l \in Labels,
           NEW fs \in Seq(Frames), Call(t, l, fs)
    PROVE  pc' \in [Threads -> Labels] /\ stack' \in [Threads -> Seq(Frames)]
<1>1. stack[t] \in Seq(Frames)
  BY DEF TypeOK
<1>2. fs \o stack[t] \in Seq(Frames)
  BY <1>1
<1> QED
  BY <1>2 DEF TypeOK, Call

LEMMA RaiseTypes ==
    ASSUME TypeOK, NEW t \in Threads, Raise(t)
    PROVE  pc' \in [Threads -> Labels] /\ stack' \in [Threads -> Seq(Frames)]
<1>1. stack[t] \in Seq(Frames)
  BY DEF TypeOK
<1>2. CASE stack' = [stack EXCEPT ![t] = <<>>] /\ pc' = [pc EXCEPT ![t] = "idle"]
  <2>1. <<>> \in Seq(Frames)
    OBVIOUS
  <2> QED
    BY <1>2, <2>1 DEF TypeOK, Labels
<1>3. ASSUME NEW i \in DOMAIN stack[t],
             pc' = [pc EXCEPT ![t] = "retry"],
             stack' = [stack EXCEPT ![t] = SubSeq(@, i + 1, Len(@))]
      PROVE  pc' \in [Threads -> Labels] /\ stack' \in [Threads -> Seq(Frames)]
  <2>1. Len(stack[t]) \in Nat /\ i \in 1..Len(stack[t])
    BY <1>1, <1>3
  <2>2. SubSeq(stack[t], i + 1, Len(stack[t])) \in Seq(Frames)
    BY <1>1, <2>1
  <2> QED
    BY <1>3, <2>2 DEF TypeOK, Labels
<1> QED
  BY <1>2, <1>3 DEF Raise
-----------------------------------------------------------------------------
USE RecorderAssumption

LEMMA ThreadsContain ==
    /\ Tick \in Threads
    /\ Watchdog \in Threads
    /\ Schedulers \subseteq Threads
    /\ Admins \subseteq Threads
BY DEF Threads, Schedulers

LEMMA InitTypes == Init => TypeOK
<1> SUFFICES ASSUME Init PROVE TypeOK
  OBVIOUS
<1>1. <<>> \in Seq(Frames)
  OBVIOUS
<1>2. usb \in BOOLEAN /\ disturbed \in BOOLEAN
  BY DEF Init
<1> QED
  BY <1>1, <1>2 DEF Init, TypeOK, Labels, Wishes

LEMMA BeginTypes ==
    ASSUME TypeOK, NEW t, Begin(t)
    PROVE  disturbed' \in BOOLEAN
BY Zenon DEF Begin, TypeOK

\* start_recorder
LEMMA StartTypes ==
    ASSUME TypeOK, NEW t \in Threads, StartRecorder(t)
    PROVE  TypeOK'
<1>1. CASE StartCheck(t)
  <2>1. pc' \in [Threads -> Labels] /\ stack' \in [Threads -> Seq(Frames)]
    <3>1. "prepare" \in Labels
      BY DEF Labels
    <3> QED
      BY <1>1, <3>1, ReturnTypes, GotoTypes DEF StartCheck
  <2> QED
    BY <1>1, <2>1 DEF StartCheck, TypeOK, env
<1>2. CASE PreparePaths(t)
  <2>1. pc' \in [Threads -> Labels] /\ stack' \in [Threads -> Seq(Frames)]
    <3>1. {"launch", "fault"} \subseteq Labels
      BY DEF Labels
    <3> QED
      BY <1>2, <3>1, GotoTypes DEF PreparePaths
  <2> QED
    BY <1>2, <2>1 DEF PreparePaths, TypeOK, env
<1>3. CASE StorageFault(t)
  <2>1. pc' \in [Threads -> Labels] /\ stack' \in [Threads -> Seq(Frames)]
    <3>1. {"retry", "keys"} \subseteq Labels
      BY DEF Labels
    <3>2. <<"settle", "retry">> \in Seq(Frames)
      BY DEF Frames
    <3> QED
      BY <1>3, <3>1, <3>2, ReturnTypes, GotoTypes, CallTypes DEF StorageFault
  <2> QED
    BY <1>3, <2>1 DEF StorageFault, TypeOK
<1>4. CASE RetryPaths(t)
  <2>1. pc' \in [Threads -> Labels] /\ stack' \in [Threads -> Seq(Frames)]
    <3>1. "launch" \in Labels
      BY DEF Labels
    <3> QED
      BY <1>4, <3>1, ReturnTypes, GotoTypes DEF RetryPaths
  <2> QED
    BY <1>4, <2>1 DEF RetryPaths, TypeOK, env
<1>5. CASE Launch(t)
  <2>1. pc' \in [Threads -> Labels] /\ stack' \in [Threads -> Seq(Frames)]
    <3>1. "store" \in Labels
      BY DEF Labels
    <3> QED
      BY <1>5, <3>1, ReturnTypes, GotoTypes DEF Launch
  <2>2. live' \subseteq Procs /\ held' \in [Threads -> Procs \cup {NoProc}]
    BY <1>5 DEF Launch, TypeOK, Hold, FreeProcs
  <2> QED
    BY <1>5, <2>1, <2>2 DEF Launch, TypeOK, env
<1>6. CASE StoreProc(t)
  <2>1. pc' \in [Threads -> Labels] /\ stack' \in [Threads -> Seq(Frames)]
    BY <1>6, ReturnTypes DEF StoreProc
  <2> QED
    BY <1>6, <2>1 DEF StoreProc, TypeOK, Hold, env
<1> QED
  BY <1>1, <1>2, <1>3, <1>4, <1>5, <1>6 DEF StartRecorder

\* stop_recorder and _stop_process
LEMMA StopTypes ==
    ASSUME TypeOK, NEW t \in Threads, StopRecorder(t)
    PROVE  TypeOK'
<1>1. CASE StopIntent(t)
  BY <1>1 DEF StopIntent, TypeOK, Goto, Labels, env
<1>2. CASE PopProc(t)
  <2>1. pc' \in [Threads -> Labels] /\ stack' \in [Threads -> Seq(Frames)]
    <3>1. "terminate" \in Labels
      BY DEF Labels
    <3> QED
      BY <1>2, <3>1, ReturnTypes, GotoTypes DEF PopProc
  <2> QED
    BY <1>2, <2>1 DEF PopProc, TypeOK, Hold, env
<1>3. CASE Terminate(t)
  <2>1. pc' \in [Threads -> Labels] /\ stack' \in [Threads -> Seq(Frames)]
    BY <1>3, ReturnTypes, RaiseTypes DEF Terminate
  <2> QED
    BY <1>3, <2>1 DEF Terminate, TypeOK, Hold, env
<1> QED
  BY <1>1, <1>2, <1>3 DEF StopRecorder

\* update_recordings_dir, set_clip_duration and _reconcile_camera
LEMMA ContinueTypes ==
    ASSUME TypeOK, NEW t \in Threads, Continue(t)
    PROVE  TypeOK'
<1>1. CASE RestartActive(t)
  <2>1. pc' \in [Threads -> Labels] /\ stack' \in [Threads -> Seq(Frames)]
    <3>1. "stop" \in Labels
      BY DEF Labels
    <3>2. <<"start">> \in Seq(Frames)
      BY DEF Frames
    <3> QED
      BY <1>1, <3>1, <3>2, ReturnTypes, CallTypes DEF RestartActive
  <2> QED
    BY <1>1, <2>1 DEF RestartActive, TypeOK, env
<1>2. CASE Settle(t)
  <2>1. pc' \in [Threads -> Labels] /\ stack' \in [Threads -> Seq(Frames)]
    <3>1. "keys" \in Labels
      BY DEF Labels
    <3> QED
      BY <1>2, <3>1, ReturnTypes, GotoTypes DEF Settle
  <2> QED
    BY <1>2, <2>1 DEF Settle, TypeOK, env
<1>3. CASE Reconcile(t)
  BY <1>3 DEF Reconcile, Goto, TypeOK, Labels, env
<1> QED
  BY <1>1, <1>2, <1>3, StartTypes, StopTypes DEF Continue

\* the callers, the watchdog and the environment
LEMMA CallerTypes ==
    ASSUME TypeOK,
           \/ \E t \in Schedulers : Evaluate(t)
           \/ \E t \in Admins : AdminCall(t)
           \/ CheckProcesses \/ WantedChanges \/ Crash
    PROVE  TypeOK'
<1>1. ASSUME NEW t \in Schedulers, Evaluate(t)
      PROVE  TypeOK'
  <2>1. disturbed' \in BOOLEAN
    BY <1>1, BeginTypes DEF Evaluate
  <2>2. \E l \in Labels : Goto(t, l)
    <3>1. wanted \in Wishes /\ {"check_on", "check_off", "check_wait"} \subseteq Labels
      BY DEF TypeOK, Labels
    <3> QED
      BY <1>1, <3>1, Zenon DEF Evaluate, Wishes
  <2> QED
    BY <1>1, <2>1, <2>2, GotoTypes, ThreadsContain DEF Evaluate, TypeOK, env
<1>2. ASSUME NEW t \in Admins, StopCamera(t)
      PROVE  TypeOK'
  <2>1. disturbed' \in BOOLEAN
    BY <1>2, BeginTypes DEF StopCamera
  <2> QED
    BY <1>2, <2>1, ThreadsContain DEF StopCamera, Goto, TypeOK, Labels
<1>3. ASSUME NEW t \in Admins, UpdateRecordingsDir(t)
      PROVE  TypeOK'
  <2>1. "keys" \in Labels /\ <<"settle">> \in Seq(Frames)
    BY DEF Labels, Frames
  <2>2. pc' \in [Threads -> Labels] /\ stack' \in [Threads -> Seq(Frames)]
    BY <1>3, <2>1, CallTypes, ThreadsContain DEF UpdateRecordingsDir
  <2>3. disturbed' \in BOOLEAN
    BY <1>3, BeginTypes DEF UpdateRecordingsDir
  <2> QED
    BY <1>3, <2>2, <2>3 DEF UpdateRecordingsDir, TypeOK
<1>4. ASSUME NEW t \in Admins, SetClipDuration(t)
      PROVE  TypeOK'
  <2>1. disturbed' \in BOOLEAN
    BY <1>4, BeginTypes DEF SetClipDuration
  <2> QED
    BY <1>4, <2>1, ThreadsContain DEF SetClipDuration, Goto, TypeOK, Labels
<1>5. CASE CheckProcesses
  <2>1. CASE WatchdogSnapshot
    <3>1. disturbed' \in BOOLEAN
      BY <2>1, BeginTypes DEF WatchdogSnapshot
    <3> QED
      BY <2>1, <3>1, ThreadsContain
         DEF WatchdogSnapshot, Goto, Hold, TypeOK, Labels, env
  <2>2. CASE WatchdogPoll \/ WatchdogDiscard
    BY <2>2, ThreadsContain
       DEF WatchdogPoll, WatchdogDiscard, Goto, Hold, TypeOK, Labels, env
  <2> QED
    BY <1>5, <2>1, <2>2 DEF CheckProcesses
<1>6. CASE WantedChanges
  BY <1>6 DEF WantedChanges, TypeOK
<1>7. CASE Crash
  BY <1>7 DEF Crash, TypeOK
<1> QED
  BY <1>1, <1>2, <1>3, <1>4, <1>5, <1>6, <1>7 DEF AdminCall

LEMMA TypesPreserved == TypeOK /\ [Next]_vars => TypeOK'
<1> SUFFICES ASSUME TypeOK, [Next]_vars
             PROVE  TypeOK'
  OBVIOUS
<1>1. CASE UNCHANGED vars
  BY <1>1 DEF vars, TypeOK
<1>2. CASE Next
  BY <1>2, ContinueTypes, CallerTypes DEF Next
<1> QED
  BY <1>1, <1>2

\* Every reachable state is of the type TypeOK gives, whatever the threads,
\* the processes, the faults and the bounds.
THEOREM RecorderTypes == Spec => []TypeOK
BY InitTypes, TypesPreserved, PTL DEF Spec

-----------------------------------------------------------------------------
(* Who may touch a process object.  The two invariants need each other (a  *)
(* store publishes what another thread might be terminating) and one more  *)
(* fact, that a terminating thread holds a process at all.                 *)

HoldsToTerminate == \A t \in Threads : pc[t] = "terminate" => held[t] # NoProc

Ownership == HoldsToTerminate /\ TerminateExclusive /\ LaunchPrivate

Owning == {"store", "terminate"}

\* a step of t that touches neither rec nor held and does not make t an owner
LEMMA Bystander ==
    ASSUME Ownership, TypeOK, NEW t \in Threads, UNCHANGED <<rec, held>>,
           pc' \in [Threads -> Labels],
           \A u \in Threads \ {t} : pc'[u] = pc[u],
           pc'[t] \notin Owning
    PROVE  Ownership'
<1>1. \A u \in Threads : pc'[u] \in Owning => pc'[u] = pc[u]
  OBVIOUS
<1>2. HoldsToTerminate'
  BY <1>1 DEF Ownership, HoldsToTerminate, Owning
<1>3. TerminateExclusive'
  BY <1>1 DEF Ownership, TerminateExclusive, Owning
<1>4. LaunchPrivate'
  BY <1>1 DEF Ownership, LaunchPrivate, Owning
<1> QED
  BY <1>2, <1>3, <1>4 DEF Ownership

\* where a thread can be after each kind of control step
LEMMA FramesNotOwning ==
    ASSUME TypeOK, NEW t \in Threads, Return(t) \/ Raise(t)
    PROVE  /\ \A u \in Threads \ {t} : pc'[u] = pc[u]
           /\ pc'[t] \notin Owning
<1>1. stack[t] \in Seq(Frames) /\ pc \in [Threads -> Labels]
  BY DEF TypeOK
<1>2. CASE Return(t)
  <2>1. stack[t] # <<>> => Head(stack[t]) \in Frames
    BY <1>1
  <2> QED
    BY <1>1, <1>2, <2>1 DEF Return, Frames, Owning
<1>3. CASE Raise(t)
  BY <1>1, <1>3 DEF Raise, Owning
<1> QED
  BY <1>2, <1>3

LEMMA InitOwnership == Init => Ownership
BY DEF Init, Ownership, HoldsToTerminate, TerminateExclusive, LaunchPrivate

\* spawning: the process is fresh
LEMMA LaunchOwnership ==
    ASSUME Ownership, TypeOK, TypeOK', NEW t \in Threads, Launch(t)
    PROVE  Ownership'
<1>1. CASE LaunchFaults /\ Return(t) /\ UNCHANGED <<live, held>>
  BY <1>1, FramesNotOwning, Bystander DEF Launch, TypeOK
<1>2. ASSUME NEW p \in FreeProcs, Hold(t, p), Goto(t, "store")
      PROVE  Ownership'
  <2>1. /\ p \in Procs /\ p # rec /\ p # NoProc
        /\ \A u \in Threads : held[u] # p
    BY DEF FreeProcs
  <2>2. /\ held'[t] = p /\ pc'[t] = "store" /\ rec' = rec
        /\ \A u \in Threads \ {t} : held'[u] = held[u] /\ pc'[u] = pc[u]
    BY <1>2 DEF Launch, Hold, Goto, TypeOK
  <2>3. HoldsToTerminate'
    BY <2>2 DEF Ownership, HoldsToTerminate
  <2>4. TerminateExclusive'
    BY <2>1, <2>2 DEF Ownership, TerminateExclusive
  <2>5. LaunchPrivate'
    BY <2>1, <2>2 DEF Ownership, LaunchPrivate
  <2> QED
    BY <2>3, <2>4, <2>5 DEF Ownership
<1> QED
  BY <1>1, <1>2 DEF Launch

\* publishing: nobody else holds the process that becomes the entry
LEMMA StoreOwnership ==
    ASSUME Ownership, TypeOK, TypeOK', NEW t \in Threads, StoreProc(t)
    PROVE  Ownership'
<1>1. /\ rec' = held[t] /\ held'[t] = NoProc
      /\ \A u \in Threads \ {t} : held'[u] = held[u] /\ pc'[u] = pc[u]
      /\ pc'[t] \notin Owning
  BY FramesNotOwning DEF StoreProc, Hold, TypeOK
<1>2. /\ held[t] # NoProc
      /\ \A u \in Threads \ {t} : held[u] # held[t]
  BY DEF StoreProc, Ownership, LaunchPrivate
<1>3. HoldsToTerminate'
  BY <1>1 DEF Ownership, HoldsToTerminate, Owning
<1>4. TerminateExclusive'
  BY <1>1, <1>2 DEF Ownership, TerminateExclusive, Owning
<1>5. LaunchPrivate'
  BY <1>1, <1>2 DEF Ownership, LaunchPrivate, Owning
<1> QED
  BY <1>3, <1>4, <1>5 DEF Ownership

\* popping: the entry leaves the dictionary as the thread takes it
LEMMA PopOwnership ==
    ASSUME Ownership, TypeOK, TypeOK', NEW t \in Threads, PopProc(t)
    PROVE  Ownership'
<1>1. CASE rec = NoProc /\ Return(t) /\ UNCHANGED held
  BY <1>1, FramesNotOwning, Bystander DEF PopProc, TypeOK
<1>2. CASE rec # NoProc /\ Hold(t, rec) /\ Goto(t, "terminate")
  <2>1. /\ rec' = NoProc /\ held'[t] = rec /\ pc'[t] = "terminate"
        /\ \A u \in Threads \ {t} : held'[u] = held[u] /\ pc'[u] = pc[u]
    BY <1>2 DEF PopProc, Hold, Goto, TypeOK
  <2>2. HoldsToTerminate'
    BY <1>2, <2>1 DEF Ownership, HoldsToTerminate
  <2>3. TerminateExclusive'
    BY <1>2, <2>1 DEF Ownership, HoldsToTerminate, TerminateExclusive, LaunchPrivate
  <2>4. LaunchPrivate'
    BY <1>2, <2>1 DEF Ownership, LaunchPrivate
  <2> QED
    BY <2>2, <2>3, <2>4 DEF Ownership
<1> QED
  BY <1>1, <1>2 DEF PopProc

\* letting go: a thread that holds nothing owns nothing
LEMMA ReleaseOwnership ==
    ASSUME Ownership, TypeOK, NEW t \in Threads,
           rec' = rec, held' = [held EXCEPT ![t] = NoProc],
           \A u \in Threads \ {t} : pc'[u] = pc[u],
           pc'[t] \notin Owning
    PROVE  Ownership'
<1>1. /\ held'[t] = NoProc
      /\ \A u \in Threads \ {t} : held'[u] = held[u]
  BY DEF TypeOK
<1>2. HoldsToTerminate'
  BY <1>1 DEF Ownership, HoldsToTerminate, Owning
<1>3. TerminateExclusive'
  BY <1>1 DEF Ownership, TerminateExclusive, Owning
<1>4. LaunchPrivate'
  BY <1>1 DEF Ownership, LaunchPrivate, Owning
<1> QED
  BY <1>2, <1>3, <1>4 DEF Ownership

\* the watchdog copies the entry, and later forgets the camera's entry
LEMMA WatchdogOwnership ==
    ASSUME Ownership, TypeOK, TypeOK', CheckProcesses
    PROVE  Ownership'
<1>0. Watchdog \in Threads
  BY ThreadsContain
<1>1. CASE WatchdogSnapshot
  <2>1. /\ rec' = rec /\ held'[Watchdog] = rec /\ pc'[Watchdog] = "poll"
        /\ \A u \in Threads \ {Watchdog} :
              held'[u] = held[u] /\ pc'[u] = pc[u]
    BY <1>0, <1>1 DEF WatchdogSnapshot, Hold, Goto, TypeOK
  <2>2. HoldsToTerminate'
    BY <2>1 DEF Ownership, HoldsToTerminate
  <2>3. TerminateExclusive'
    BY <2>1 DEF Ownership, TerminateExclusive
  <2>4. LaunchPrivate'
    BY <2>1 DEF Ownership, LaunchPrivate
  <2> QED
    BY <2>2, <2>3, <2>4 DEF Ownership
<1>2. CASE WatchdogPoll
  <2>1. /\ \A u \in Threads \ {Watchdog} : pc'[u] = pc[u]
        /\ pc'[Watchdog] \in {"discard", "idle"}
    BY <1>0, <1>2 DEF WatchdogPoll, Goto, TypeOK
  <2> QED
    BY <1>0, <1>2, <2>1, ReleaseOwnership DEF WatchdogPoll, Hold, Owning
<1>3. CASE WatchdogDiscard
  <2>1. /\ rec' = NoProc /\ held' = held /\ pc'[Watchdog] = "start"
        /\ \A u \in Threads \ {Watchdog} : pc'[u] = pc[u]
    BY <1>0, <1>3 DEF WatchdogDiscard, Goto, TypeOK
  <2>2. HoldsToTerminate'
    BY <2>1 DEF Ownership, HoldsToTerminate
  <2>3. TerminateExclusive'
    BY <2>1 DEF Ownership, HoldsToTerminate, TerminateExclusive
  <2>4. LaunchPrivate'
    BY <2>1 DEF Ownership, LaunchPrivate
  <2> QED
    BY <2>2, <2>3, <2>4 DEF Ownership
<1> QED
  BY <1>1, <1>2, <1>3 DEF CheckProcesses

\* every other step moves one thread and touches neither rec nor held
LEMMA QuietOwnership ==
    ASSUME Ownership, TypeOK, TypeOK', NEW t \in Threads,
           \/ StartCheck(t) \/ PreparePaths(t) \/ StorageFault(t)
           \/ RetryPaths(t) \/ StopIntent(t) \/ RestartActive(t)
           \/ Settle(t) \/ Reconcile(t) \/ Evaluate(t) \/ AdminCall(t)
    PROVE  Ownership'
<1>1. UNCHANGED <<rec, held>>
  BY DEF StartCheck, PreparePaths, StorageFault, RetryPaths, StopIntent,
         RestartActive, Settle, Reconcile, Evaluate, AdminCall, StopCamera,
         UpdateRecordingsDir, SetClipDuration
<1>2. ASSUME NEW l \in Labels \ Owning, NEW fs, Goto(t, l) \/ Call(t, l, fs)
      PROVE  /\ \A u \in Threads \ {t} : pc'[u] = pc[u]
             /\ pc'[t] \notin Owning
  BY <1>2 DEF Goto, Call, TypeOK
<1>3. \/ Return(t)
      \/ \E l \in Labels \ Owning : \E fs \in Seq(Frames) :
            Goto(t, l) \/ Call(t, l, fs)
  <2>1. /\ <<"settle">> \in Seq(Frames)
        /\ <<"settle", "retry">> \in Seq(Frames)
        /\ <<"start">> \in Seq(Frames)
    BY DEF Frames
  <2>2. {"idle", "check_on", "check_off", "check_wait", "start", "prepare",
         "fault", "retry", "launch", "keys", "stop", "pop"} \subseteq
            Labels \ Owning
    BY DEF Labels, Owning
  <2>3. CASE StartCheck(t) \/ PreparePaths(t) \/ RetryPaths(t) \/ Settle(t)
    BY <2>1, <2>2, <2>3 DEF StartCheck, PreparePaths, RetryPaths, Settle
  <2>4. CASE StorageFault(t)
    BY <2>1, <2>2, <2>4 DEF StorageFault
  <2>5. CASE RestartActive(t)
    BY <2>1, <2>2, <2>5 DEF RestartActive
  <2>6. CASE StopIntent(t) \/ Reconcile(t)
    BY <2>1, <2>2, <2>6 DEF StopIntent, Reconcile
  <2>7. CASE Evaluate(t)
    <3>1. wanted \in {"on", "off", "wait"}
      BY DEF TypeOK, Wishes
    <3> QED
      BY <2>1, <2>2, <2>7, <3>1, Zenon DEF Evaluate
  <2>8. CASE AdminCall(t)
    BY <2>1, <2>2, <2>8
       DEF AdminCall, StopCamera, UpdateRecordingsDir, SetClipDuration
  <2> QED
    BY <2>3, <2>4, <2>5, <2>6, <2>7, <2>8
<1>4. /\ \A u \in Threads \ {t} : pc'[u] = pc[u]
      /\ pc'[t] \notin Owning
  BY <1>2, <1>3, FramesNotOwning
<1> QED
  BY <1>1, <1>4, Bystander DEF TypeOK

LEMMA OwnershipPreserved == TypeOK /\ Ownership /\ [Next]_vars => Ownership'
<1> SUFFICES ASSUME TypeOK, Ownership, [Next]_vars
             PROVE  Ownership'
  OBVIOUS
<1>1. TypeOK'
  BY TypesPreserved
<1>2. ASSUME UNCHANGED <<rec, pc, held>>
      PROVE  Ownership'
  BY <1>2 DEF Ownership, HoldsToTerminate, TerminateExclusive, LaunchPrivate
<1>3. ASSUME NEW t \in Threads, Continue(t)
      PROVE  Ownership'
  <2>1. CASE Terminate(t)
    BY <2>1, FramesNotOwning, ReleaseOwnership DEF Terminate, Hold
  <2> QED
    BY <1>1, <1>3, <2>1, LaunchOwnership, StoreOwnership, PopOwnership,
       QuietOwnership
       DEF Continue, StartRecorder, StopRecorder
<1>4. ASSUME NEW t \in Threads, Evaluate(t) \/ AdminCall(t)
      PROVE  Ownership'
  BY <1>1, <1>4, QuietOwnership
<1>5. CASE CheckProcesses
  BY <1>1, <1>5, WatchdogOwnership
<1>6. CASE WantedChanges \/ Crash \/ UNCHANGED vars
  BY <1>2, <1>6 DEF WantedChanges, Crash, vars
<1> QED
  BY <1>3, <1>4, <1>5, <1>6, ThreadsContain DEF Next

\* A process popped by _stop_process is terminated by the thread that popped
\* it and by no other, for any number of threads stopping, starting and
\* restarting recorders of the same camera.
THEOREM TerminateIsExclusive == Spec => []TerminateExclusive
<1>1. Init => TypeOK /\ Ownership
  BY InitTypes, InitOwnership
<1>2. TypeOK /\ Ownership /\ [Next]_vars => (TypeOK /\ Ownership)'
  BY TypesPreserved, OwnershipPreserved
<1>3. Ownership => TerminateExclusive
  BY DEF Ownership
<1> QED
  BY <1>1, <1>2, <1>3, PTL DEF Spec

\* A process launched by start_recorder is known to no other thread until it
\* is stored in _rec_procs.
THEOREM LaunchIsPrivate == Spec => []LaunchPrivate
<1>1. Init => TypeOK /\ Ownership
  BY InitTypes, InitOwnership
<1>2. TypeOK /\ Ownership /\ [Next]_vars => (TypeOK /\ Ownership)'
  BY TypesPreserved, OwnershipPreserved
<1>3. Ownership => LaunchPrivate
  BY DEF Ownership
<1> QED
  BY <1>1, <1>2, <1>3, PTL DEF Spec

-----------------------------------------------------------------------------
(* What is alive while nothing has disturbed the calls.  At most one thread *)
(* is in a call then, and where it is says which process may be alive and   *)
(* what the recorded intent is.                                             *)

Alone == \A t, u \in Threads : pc[t] # "idle" /\ pc[u] # "idle" => t = u

\* only a failover inside a start pushes "retry"
PlainStacks == stack \in [Threads -> Seq({"start", "settle"})]

\* the dictionary holds what is alive, and it is wanted
Settled == live \subseteq {rec} /\ (rec \in live => intent = "wanted")

Starting == {"prepare", "fault", "retry", "launch"}

Custody(t) ==
    /\ pc[t] \in Starting => live = {} /\ intent = "wanted"
    /\ pc[t] = "store" => live \subseteq {held[t]} /\ intent = "wanted"
    /\ pc[t] = "pop" => live \subseteq {rec}
    /\ pc[t] = "terminate" => live \subseteq {held[t]} /\ rec = NoProc
    /\ pc[t] \notin Starting \cup {"store", "pop", "terminate"} => Settled

WatchdogLooks ==
    /\ pc[Watchdog] = "poll" => held[Watchdog] = rec
    /\ pc[Watchdog] = "discard" => rec \notin live

Undisturbed ==
    /\ Alone
    /\ PlainStacks
    /\ AllIdle => Settled
    /\ \A t \in Threads : pc[t] # "idle" => Custody(t)
    /\ WatchdogLooks

CalmInv == ~disturbed => Undisturbed

\* a step of the one thread in a call, seen by the others
LEMMA StepOfOne ==
    ASSUME TypeOK, TypeOK', Undisturbed, PlainStacks', NEW t \in Threads, pc[t] # "idle",
           \A u \in Threads \ {t} : pc'[u] = pc[u],
           pc'[t] # "idle" => Custody(t)',
           pc'[t] = "idle" => Settled',
           t = Watchdog => WatchdogLooks'
    PROVE  Undisturbed'
<1>1. \A u \in Threads \ {t} : pc[u] = "idle" /\ pc'[u] = "idle"
  BY DEF Undisturbed, Alone
<1>2. Alone'
  BY <1>1 DEF Alone
<1>3. AllIdle' => Settled'
  BY DEF AllIdle
<1>4. \A u \in Threads : pc'[u] # "idle" => Custody(u)'
  BY <1>1
<1>5. WatchdogLooks'
  BY <1>1, ThreadsContain DEF WatchdogLooks
<1> QED
  BY <1>2, <1>3, <1>4, <1>5 DEF Undisturbed

\* a return leads to the label of a frame or ends the call
LEMMA ReturnPlain ==
    ASSUME TypeOK, PlainStacks, NEW t \in Threads, Return(t)
    PROVE  /\ PlainStacks'
           /\ \A u \in Threads \ {t} : pc'[u] = pc[u]
           /\ pc'[t] \in {"idle", "start", "settle"}
<1>1. stack[t] \in Seq({"start", "settle"}) /\ pc \in [Threads -> Labels]
  BY DEF PlainStacks, TypeOK
<1>2. CASE stack[t] = <<>>
  BY <1>1, <1>2 DEF Return, PlainStacks
<1>3. CASE stack[t] # <<>>
  <2>1. Head(stack[t]) \in {"start", "settle"} /\ Tail(stack[t]) \in Seq({"start", "settle"})
    BY <1>1, <1>3
  <2> QED
    BY <1>1, <1>3, <2>1 DEF Return, PlainStacks
<1> QED
  BY <1>2, <1>3

LEMMA ReturnSettled ==
    ASSUME TypeOK, TypeOK', Undisturbed, NEW t \in Threads, pc[t] # "idle", Return(t),
           pc[t] \notin {"poll", "discard"}, Settled'
    PROVE  Undisturbed'
<1>1. /\ PlainStacks'
      /\ \A u \in Threads \ {t} : pc'[u] = pc[u]
      /\ pc'[t] \in {"idle", "start", "settle"}
  BY ReturnPlain DEF Undisturbed
<1>2. Custody(t)'
  BY <1>1 DEF Custody, Starting
<1>3. t = Watchdog => WatchdogLooks'
  BY <1>1 DEF WatchdogLooks
<1> QED
  BY <1>1, <1>2, <1>3, StepOfOne

LEMMA GotoCustody ==
    ASSUME TypeOK, TypeOK', Undisturbed, NEW t \in Threads, pc[t] # "idle",
           NEW l \in Labels \ {"poll", "discard"}, Goto(t, l),
           l # "idle" => Custody(t)', l = "idle" => Settled'
    PROVE  Undisturbed'
<1>1. /\ PlainStacks'
      /\ \A u \in Threads \ {t} : pc'[u] = pc[u]
      /\ pc'[t] = l
  BY DEF Undisturbed, PlainStacks, Goto, TypeOK
<1>2. t = Watchdog => WatchdogLooks'
  BY <1>1 DEF WatchdogLooks
<1> QED
  BY <1>1, <1>2, StepOfOne

\* start_recorder: nothing is alive from the check to the launch
LEMMA StartCalm ==
    ASSUME TypeOK, TypeOK', Undisturbed, NEW t \in Threads, StartRecorder(t), ~disturbed'
    PROVE  Undisturbed'
<1>1. /\ pc[t] # "idle" /\ Custody(t) /\ pc[t] \in Labels
      /\ pc \in [Threads -> Labels] /\ held \in [Threads -> Procs \cup {NoProc}]
      /\ live \subseteq Procs /\ rec \in Procs \cup {NoProc}
  BY DEF StartRecorder, StartCheck, PreparePaths, StorageFault, RetryPaths, Launch,
         StoreProc, Undisturbed, TypeOK
<1>2. {"prepare", "fault", "retry", "launch", "store"} \subseteq Labels \ {"poll", "discard", "idle"}
  BY DEF Labels
<1>3. CASE StartCheck(t)
  <2>1. Settled
    BY <1>1, <1>3 DEF StartCheck, Custody, Starting
  <2>2. CASE Recording /\ Return(t) /\ UNCHANGED intent
    BY <1>1, <1>3, <2>1, <2>2, ReturnSettled DEF StartCheck, Settled
  <2>3. CASE ~Recording /\ intent' = "wanted" /\ Goto(t, "prepare")
    <3>1. live = {}
      BY <1>1, <2>1, <2>3 DEF Settled, Recording
    <3>2. pc'[t] = "prepare" /\ live' = {}
      BY <1>1, <1>3, <2>3, <3>1 DEF StartCheck, Goto
    <3>3. Custody(t)'
      BY <2>3, <3>2 DEF Custody, Starting
    <3> QED
      BY <1>1, <1>2, <2>3, <3>3, GotoCustody
  <2> QED
    BY <1>3, <2>2, <2>3 DEF StartCheck
<1>4. ASSUME pc[t] \in Starting, UNCHANGED <<rec, live, intent, held>>,
             Return(t) \/ \E l \in Starting : Goto(t, l)
      PROVE  Undisturbed'
  <2>1. live = {} /\ intent = "wanted"
    BY <1>1, <1>4 DEF Custody
  <2>2. Settled' /\ live' = {} /\ intent' = "wanted"
    BY <1>4, <2>1 DEF Settled
  <2>3. CASE Return(t)
    BY <1>1, <1>4, <2>2, <2>3, ReturnSettled DEF Starting
  <2>4. ASSUME NEW l \in Starting, Goto(t, l)
        PROVE  Undisturbed'
    <3>1. pc'[t] = l
      BY <1>1, <2>4 DEF Goto
    <3>2. Custody(t)'
      BY <2>2, <2>4, <3>1 DEF Custody, Starting
    <3> QED
      BY <1>1, <1>2, <2>4, <3>2, GotoCustody DEF Starting
  <2> QED
    BY <1>4, <2>3, <2>4
<1>5. CASE Launch(t)
  <2>1. CASE Return(t) /\ UNCHANGED <<live, held>>
    BY <1>4, <1>5, <2>1 DEF Launch, Starting
  <2>2. ASSUME NEW p \in FreeProcs, live' = live \cup {p}, Hold(t, p), Goto(t, "store")
        PROVE  Undisturbed'
    <3>1. live = {} /\ intent' = "wanted"
      BY <1>1, <1>5 DEF Launch, Custody, Starting
    <3>2. pc'[t] = "store" /\ held'[t] = p /\ live' = {p}
      BY <1>1, <2>2, <3>1 DEF Goto, Hold
    <3>3. Custody(t)'
      BY <3>1, <3>2 DEF Custody, Starting
    <3> QED
      BY <1>1, <1>2, <2>2, <3>3, GotoCustody
  <2> QED
    BY <1>5, <2>1, <2>2 DEF Launch
<1>6. CASE StoreProc(t)
  <2>1. Settled'
    BY <1>1, <1>6 DEF StoreProc, Custody, Settled
  <2> QED
    BY <1>1, <1>6, <2>1, ReturnSettled DEF StoreProc
<1>7. CASE PreparePaths(t) \/ StorageFault(t) \/ RetryPaths(t)
  BY <1>4, <1>7 DEF PreparePaths, StorageFault, RetryPaths, Starting
<1> QED
  BY <1>3, <1>5, <1>6, <1>7 DEF StartRecorder

\* stop_recorder: the popped process is the only one alive
LEMMA StopCalm ==
    ASSUME TypeOK, TypeOK', Undisturbed, NEW t \in Threads, StopRecorder(t), ~disturbed'
    PROVE  Undisturbed'
<1>1. /\ pc[t] # "idle" /\ Custody(t)
      /\ pc \in [Threads -> Labels] /\ held \in [Threads -> Procs \cup {NoProc}]
      /\ live \subseteq Procs
  BY DEF StopRecorder, StopIntent, PopProc, Terminate, Undisturbed, TypeOK
<1>2. {"pop", "terminate"} \subseteq Labels \ {"poll", "discard", "idle"}
  BY DEF Labels
<1>3. CASE StopIntent(t)
  <2>1. pc'[t] = "pop" /\ live' \subseteq {rec'}
    BY <1>1, <1>3 DEF StopIntent, Goto, Custody, Settled, Starting
  <2>2. Custody(t)'
    BY <2>1 DEF Custody, Starting
  <2> QED
    BY <1>1, <1>2, <1>3, <2>2, GotoCustody DEF StopIntent
<1>4. CASE PopProc(t)
  <2>1. live \subseteq {rec} /\ rec' = NoProc /\ live' = live
    BY <1>1, <1>4 DEF PopProc, Custody
  <2>2. CASE rec = NoProc /\ Return(t)
    <3>1. Settled'
      BY <1>1, <2>1, <2>2 DEF Settled
    <3> QED
      BY <1>1, <1>4, <2>2, <3>1, ReturnSettled DEF PopProc
  <2>3. CASE rec # NoProc /\ Hold(t, rec) /\ Goto(t, "terminate")
    <3>1. pc'[t] = "terminate" /\ held'[t] = rec
      BY <1>1, <2>3 DEF Goto, Hold
    <3>2. Custody(t)'
      BY <2>1, <3>1 DEF Custody, Starting
    <3> QED
      BY <1>1, <1>2, <2>3, <3>2, GotoCustody
  <2> QED
    BY <1>4, <2>2, <2>3 DEF PopProc
<1>5. CASE Terminate(t)
  <2>1. live' = {} /\ rec' = NoProc /\ Return(t)
    BY <1>1, <1>5 DEF Terminate, Custody
  <2>2. Settled'
    BY <2>1 DEF Settled
  <2> QED
    BY <1>1, <1>5, <2>1, <2>2, ReturnSettled DEF Terminate
<1> QED
  BY <1>3, <1>4, <1>5 DEF StopRecorder

\* update_recordings_dir, set_clip_duration and the scheduler's decision
LEMMA ContinueCalm ==
    ASSUME TypeOK, TypeOK', Undisturbed, NEW t \in Threads, Continue(t), ~disturbed'
    PROVE  Undisturbed'
<1>1. CASE StartRecorder(t) \/ StopRecorder(t)
  BY <1>1, StartCalm, StopCalm
<1>2. CASE RestartActive(t) \/ Settle(t) \/ Reconcile(t)
  <2>1. /\ pc[t] \in {"keys", "settle", "check_on", "check_off", "check_wait"}
        /\ UNCHANGED <<rec, live, intent, held>>
    BY <1>2 DEF RestartActive, Settle, Reconcile
  <2>2. Settled /\ pc[t] # "idle" /\ pc[t] \notin {"poll", "discard"}
    BY <2>1 DEF Undisturbed, Custody, Starting
  <2>3. Settled'
    BY <2>1, <2>2 DEF Settled
  <2>4. CASE Return(t)
    BY <2>2, <2>3, <2>4, ReturnSettled
  <2>5. ASSUME NEW l \in {"keys", "start", "stop", "idle"}, Goto(t, l)
        PROVE  Undisturbed'
    <3>1. pc'[t] = l
      BY <2>5 DEF Goto, TypeOK
    <3>2. Custody(t)'
      BY <2>3, <3>1 DEF Custody, Starting
    <3>3. l \in Labels \ {"poll", "discard"}
      BY DEF Labels
    <3> QED
      BY <2>2, <2>3, <2>5, <3>2, <3>3, GotoCustody
  <2>6. CASE Call(t, "stop", <<"start">>)
    <3>1. stack[t] \in Seq({"start", "settle"}) /\ <<"start">> \in Seq({"start", "settle"})
      BY DEF Undisturbed, PlainStacks
    <3>2. <<"start">> \o stack[t] \in Seq({"start", "settle"})
      BY <3>1
    <3>3. PlainStacks'
      BY <2>6, <3>2 DEF Undisturbed, PlainStacks, Call
    <3>4. pc'[t] = "stop" /\ \A u \in Threads \ {t} : pc'[u] = pc[u]
      BY <2>6 DEF Call, TypeOK
    <3>5. Custody(t)'
      BY <2>3, <3>4 DEF Custody, Starting
    <3>6. t = Watchdog => WatchdogLooks'
      BY <3>4 DEF WatchdogLooks
    <3> QED
      BY <2>2, <3>3, <3>4, <3>5, <3>6, StepOfOne
  <2> QED
    BY <1>2, <2>4, <2>5, <2>6 DEF RestartActive, Settle, Reconcile
<1> QED
  BY <1>1, <1>2 DEF Continue

\* a call that begins while all threads are idle disturbs nothing
LEMMA BeginCalm ==
    ASSUME TypeOK, TypeOK', Undisturbed, NEW t \in Threads, Begin(t), ~disturbed',
           UNCHANGED <<rec, live, intent>>, PlainStacks',
           \A u \in Threads \ {t} : pc'[u] = pc[u],
           pc'[t] \in {"check_on", "check_off", "check_wait", "stop", "keys"}
              \/ (pc'[t] = "poll" /\ held'[t] = rec)
    PROVE  Undisturbed'
<1>1. \A u \in Threads : pc[u] = "idle"
  BY DEF Begin, AllIdle
<1>2. Settled
  BY <1>1 DEF Undisturbed, AllIdle
<1>3. Alone'
  BY <1>1 DEF Alone
<1>4. Settled'
  BY <1>2 DEF Settled
<1>5. Custody(t)'
  BY <1>4 DEF Custody, Starting
<1>6. \A u \in Threads : pc'[u] # "idle" => Custody(u)'
  BY <1>1, <1>5
<1>7. WatchdogLooks'
  BY <1>1, ThreadsContain DEF WatchdogLooks
<1> QED
  BY <1>3, <1>4, <1>6, <1>7 DEF Undisturbed

LEMMA CallerCalm ==
    ASSUME TypeOK, TypeOK', Undisturbed, ~disturbed',
           \/ \E t \in Schedulers : Evaluate(t)
           \/ \E t \in Admins : AdminCall(t)
           \/ WatchdogSnapshot
    PROVE  Undisturbed'
<1>1. ASSUME NEW t \in Threads, Begin(t), NEW l, Goto(t, l), UNCHANGED <<rec, live, intent>>,
             l \in {"check_on", "check_off", "check_wait", "stop", "keys"}
                \/ (l = "poll" /\ held' = [held EXCEPT ![t] = rec])
      PROVE  Undisturbed'
  <2>1. /\ pc'[t] = l /\ PlainStacks'
        /\ \A u \in Threads \ {t} : pc'[u] = pc[u]
    BY <1>1 DEF Goto, TypeOK, Undisturbed, PlainStacks
  <2>2. held' = [held EXCEPT ![t] = rec] => held'[t] = rec
    BY DEF TypeOK
  <2> QED
    BY <1>1, <2>1, <2>2, BeginCalm
<1>2. ASSUME NEW t \in Schedulers, Evaluate(t)
      PROVE  Undisturbed'
  <2>1. \E l \in {"check_on", "check_off", "check_wait"} : Goto(t, l)
    <3>1. wanted \in {"on", "off", "wait"}
      BY DEF TypeOK, Wishes
    <3> QED
      BY <1>2, <3>1, Zenon DEF Evaluate
  <2> QED
    BY <1>1, <1>2, <2>1, ThreadsContain DEF Evaluate
<1>3. ASSUME NEW t \in Admins, StopCamera(t) \/ SetClipDuration(t)
      PROVE  Undisturbed'
  BY <1>1, <1>3, ThreadsContain DEF StopCamera, SetClipDuration
<1>4. ASSUME NEW t \in Admins, UpdateRecordingsDir(t)
      PROVE  Undisturbed'
  <2>1. t \in Threads /\ stack[t] \in Seq({"start", "settle"}) /\ <<"settle">> \in Seq({"start", "settle"})
    BY ThreadsContain DEF Undisturbed, PlainStacks
  <2>2. <<"settle">> \o stack[t] \in Seq({"start", "settle"})
    BY <2>1
  <2>3. PlainStacks'
    BY <1>4, <2>2 DEF UpdateRecordingsDir, Call, Undisturbed, PlainStacks
  <2>4. pc'[t] = "keys" /\ \A u \in Threads \ {t} : pc'[u] = pc[u]
    BY <1>4, <2>1 DEF UpdateRecordingsDir, Call, TypeOK
  <2> QED
    BY <1>4, <2>1, <2>3, <2>4, BeginCalm DEF UpdateRecordingsDir
<1>5. CASE WatchdogSnapshot
  BY <1>1, <1>5, ThreadsContain DEF WatchdogSnapshot, Hold
<1> QED
  BY <1>2, <1>3, <1>4, <1>5 DEF AdminCall

\* the watchdog, alone, discards only the entry it has found dead
LEMMA WatchdogCalm ==
    ASSUME TypeOK, TypeOK', Undisturbed, WatchdogPoll \/ WatchdogDiscard
    PROVE  Undisturbed'
<1>1. /\ Watchdog \in Threads /\ pc[Watchdog] # "idle" /\ Settled /\ PlainStacks'
      /\ pc \in [Threads -> Labels] /\ held \in [Threads -> Procs \cup {NoProc}]
  BY ThreadsContain DEF Undisturbed, WatchdogPoll, WatchdogDiscard, Custody, Starting,
     PlainStacks, Goto, TypeOK
<1>2. CASE WatchdogPoll
  <2>1. held[Watchdog] = rec /\ UNCHANGED <<rec, live, intent>>
    BY <1>2 DEF Undisturbed, WatchdogLooks, WatchdogPoll
  <2>2. /\ \A u \in Threads \ {Watchdog} : pc'[u] = pc[u]
        /\ \/ pc'[Watchdog] = "discard" /\ rec \notin live
           \/ pc'[Watchdog] = "idle"
    BY <1>1, <1>2, <2>1 DEF WatchdogPoll, Goto
  <2>3. Settled'
    BY <1>1, <2>1 DEF Settled
  <2>4. Custody(Watchdog)' /\ WatchdogLooks'
    BY <2>1, <2>2, <2>3 DEF Custody, Starting, WatchdogLooks
  <2> QED
    BY <1>1, <2>2, <2>3, <2>4, StepOfOne
<1>3. CASE WatchdogDiscard
  <2>1. rec \notin live /\ rec' = NoProc /\ live' = live
    BY <1>3 DEF Undisturbed, WatchdogLooks, WatchdogDiscard
  <2>2. Settled'
    BY <1>1, <2>1 DEF Settled, TypeOK
  <2>3. pc'[Watchdog] = "start" /\ \A u \in Threads \ {Watchdog} : pc'[u] = pc[u]
    BY <1>1, <1>3 DEF WatchdogDiscard, Goto
  <2>4. Custody(Watchdog)' /\ WatchdogLooks'
    BY <2>2, <2>3 DEF Custody, Starting, WatchdogLooks
  <2> QED
    BY <1>1, <2>2, <2>3, <2>4, StepOfOne
<1> QED
  BY <1>2, <1>3

LEMMA CalmPreserved == TypeOK /\ CalmInv /\ [Next]_vars => CalmInv'
<1> SUFFICES ASSUME TypeOK, CalmInv, [Next]_vars, ~disturbed'
             PROVE  Undisturbed'
  BY DEF CalmInv
<1>1. TypeOK'
  BY TypesPreserved
<1>2. ~disturbed
  BY DEF vars, Next, Continue, StartRecorder, StopRecorder, StartCheck, PreparePaths,
         StorageFault, RetryPaths, Launch, StoreProc, StopIntent, PopProc, Terminate,
         RestartActive, Settle, Reconcile, Evaluate, Begin, AdminCall, StopCamera,
         UpdateRecordingsDir, SetClipDuration, CheckProcesses, WatchdogSnapshot,
         WatchdogPoll, WatchdogDiscard, WantedChanges, Crash
<1>3. Undisturbed
  BY <1>2 DEF CalmInv
<1>4. ASSUME UNCHANGED <<rec, intent, pc, stack, held>>, live' \subseteq live
      PROVE  Undisturbed'
  <2>1. Settled => Settled'
    BY <1>4 DEF Settled
  <2>2. \A t \in Threads : Custody(t) => Custody(t)'
    BY <1>4, <2>1 DEF Custody
  <2>3. Alone' /\ PlainStacks' /\ WatchdogLooks'
    BY <1>3, <1>4 DEF Undisturbed, Alone, PlainStacks, WatchdogLooks
  <2> QED
    BY <1>3, <1>4, <2>1, <2>2, <2>3 DEF Undisturbed, AllIdle
<1>5. CASE WantedChanges \/ Crash \/ UNCHANGED vars
  BY <1>4, <1>5 DEF WantedChanges, Crash, vars
<1> QED
  BY <1>1, <1>3, <1>5, ContinueCalm, CallerCalm, WatchdogCalm DEF Next, CheckProcesses

LEMMA InitCalm == Init => CalmInv
<1> SUFFICES ASSUME Init PROVE Undisturbed
  BY DEF CalmInv
<1>1. <<>> \in Seq({"start", "settle"})
  OBVIOUS
<1>2. Alone /\ PlainStacks /\ Settled /\ \A t \in Threads : pc[t] = "idle"
  BY <1>1 DEF Init, Alone, PlainStacks, Settled
<1>3. WatchdogLooks
  BY <1>2, ThreadsContain DEF WatchdogLooks
<1> QED
  BY <1>2, <1>3 DEF Undisturbed

\* Between undisturbed calls _rec_procs holds every recorder ffmpeg that is
\* alive, for any number of threads, processes and failures.
THEOREM ServiceOwnsRecorders == Spec => []OwnsEveryRecorder
<1>1. Init => TypeOK /\ CalmInv
  BY InitTypes, InitCalm
<1>2. TypeOK /\ CalmInv /\ [Next]_vars => (TypeOK /\ CalmInv)'
  BY TypesPreserved, CalmPreserved
<1>3. CalmInv => OwnsEveryRecorder
  BY DEF CalmInv, Undisturbed, Settled, OwnsEveryRecorder
<1> QED
  BY <1>1, <1>2, <1>3, PTL DEF Spec

\* Between undisturbed calls a recorder that is alive is intended: no start
\* skips recording the wish and no stop leaves a process behind.
THEOREM RecordersAreIntended == Spec => []AliveIsIntended
<1>1. Init => TypeOK /\ CalmInv
  BY InitTypes, InitCalm
<1>2. TypeOK /\ CalmInv /\ [Next]_vars => (TypeOK /\ CalmInv)'
  BY TypesPreserved, CalmPreserved
<1>3. CalmInv => AliveIsIntended
  BY DEF CalmInv, Undisturbed, Settled, AliveIsIntended, Recording
<1> QED
  BY <1>1, <1>2, <1>3, PTL DEF Spec

=============================================================================
