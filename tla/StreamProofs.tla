---------------------------- MODULE StreamProofs ----------------------------
(***************************************************************************)
(* Proofs about StreamManager, for any loop threads, publishers, backends  *)
(* and bounds: its types, that calls which do not overlap leave one stream *)
(* loop, and that a stop of the Picamera2 backend is complete.             *)
(***************************************************************************)
EXTENDS StreamManager, TLAPS

Labels == CallerLabels \cup LoopLabels \cup SharedLabels

-----------------------------------------------------------------------------
(* Types, a part at a time: what a step leaves alone it need not mention.  *)

FlagTypes ==
    /\ kind \in Kinds
    /\ up \in BOOLEAN /\ desired \in BOOLEAN /\ running \in BOOLEAN
    /\ requested \in BOOLEAN /\ disturbed \in BOOLEAN /\ resolved \in BOOLEAN

PublisherTypes ==
    /\ owned \in Pubs \cup {NoPub}
    /\ libcam \in {"none", "up", "exited"}
    /\ active \in Urls
    /\ at \in [Pubs -> Urls]
    /\ held \in [Threads -> Pubs \cup {NoPub}]
    /\ aim \in [Loops -> Urls]

WorldTypes ==
    /\ watchdogs \in {{}, {"latest"}, {"older"}, {"latest", "older"}}
    /\ homes \in Homes /\ names \in Endpoints /\ endpoint \in Endpoints

BudgetTypes ==
    /\ used \in [DOMAIN Budget -> Nat]
    /\ \A k \in DOMAIN Budget : used[k] <= Budget[k]

ThreadTypes ==
    /\ cur \in Loops \cup {NoLoop}
    /\ pc \in [Threads -> Labels]
    /\ \A c \in Callers : pc[c] \notin LoopLabels
    /\ \A l \in Loops : pc[l] \notin CallerLabels
    /\ again \in [Callers -> BOOLEAN]
    /\ born \in [Callers -> Loops \cup {NoLoop}]

CallTypes ==
    /\ \A c \in Callers : pc[c] = "spawn" => born[c] # NoLoop
    /\ \A l \in Loops : pc[l] = "monitor" => held[l] # NoPub

LEMMA TypeParts ==
    TypeOK <=> /\ FlagTypes /\ PublisherTypes /\ WorldTypes /\ BudgetTypes
               /\ ThreadTypes /\ CallTypes
  BY DEF TypeOK, FlagTypes, PublisherTypes, WorldTypes, BudgetTypes, ThreadTypes,
         CallTypes, Labels

LEMMA InitTypes == Init => TypeOK
  <1> SUFFICES ASSUME Init PROVE TypeOK
    OBVIOUS
  <1>1. FlagTypes
    BY DEF Init, FlagTypes
  <1>2. PublisherTypes
    BY DEF Init, PublisherTypes, Urls, NoUrl
  <1>3. WorldTypes
    BY DEF Init, WorldTypes, Endpoints
  <1>4. BudgetTypes
    BY StreamAssumption DEF Init, BudgetTypes, Budget
  <1>5. ThreadTypes
    BY StreamAssumption DEF Init, ThreadTypes, Labels, Threads, Callers, CallerLabels,
        LoopLabels, SharedLabels
  <1>6. CallTypes
    BY StreamAssumption DEF Init, CallTypes, Threads, Callers
  <1> QED
    BY <1>1, <1>2, <1>3, <1>4, <1>5, <1>6, TypeParts

LEMMA SpendTypes ==
    ASSUME BudgetTypes, NEW k \in DOMAIN Budget, Spend(k)
    PROVE  BudgetTypes'
  BY StreamAssumption DEF BudgetTypes, Spend, Budget

LEMMA ExitTypes ==
    ASSUME TypeOK, Exit, BudgetTypes'
    PROVE  TypeOK'
  <1>1. FlagTypes'
    BY DEF Exit, FlagTypes, TypeOK
  <1>2. PublisherTypes'
    BY DEF Exit, PublisherTypes, Urls, NoUrl
  <1>3. WorldTypes'
    BY DEF Exit, WorldTypes, TypeOK, server
  <1>5. ThreadTypes'
    BY StreamAssumption DEF Exit, ThreadTypes, Labels, Threads, Callers, CallerLabels,
        LoopLabels, SharedLabels
  <1>6. CallTypes'
    BY StreamAssumption DEF Exit, CallTypes, Threads, Callers
  <1>7. TypeOK' <=> (/\ FlagTypes /\ PublisherTypes /\ WorldTypes /\ BudgetTypes
                     /\ ThreadTypes /\ CallTypes)'
    BY TypeParts, PTL
  <1> QED
    BY <1>1, <1>2, <1>3, <1>5, <1>6, <1>7

LEMMA BootTypes ==
    ASSUME TypeOK, Boot
    PROVE  TypeOK'
  BY StreamAssumption DEF Boot, Fresh, FreeLoops, Alive, TypeOK, Threads, Callers,
     CallerLabels, LoopLabels, SharedLabels, server, reconnect, publishers, calls

LEMMA ChildExitsTypes ==
    ASSUME TypeOK, ChildExits
    PROVE  TypeOK'
  BY StreamAssumption, SpendTypes DEF ChildExits, Live, TypeOK, world, server, reconnect,
     publishers, calls, Urls, NoUrl, BudgetTypes, Budget

LEMMA TeardownTypes ==
    ASSUME TypeOK, NEW t \in Threads, Teardown(t)
    PROVE  TypeOK'
  <1> USE StreamAssumption DEF TypeOK, world, server, reconnect, publishers, calls, Urls,
        NoUrl, Threads, Callers, CallerLabels, LoopLabels, SharedLabels, Goto, Hold, End,
        After, SweepPublishers
  <1>1. CASE TakeBackend(t)
    BY <1>1 DEF TakeBackend
  <1>2. CASE HaltBackend(t)
    BY <1>2 DEF HaltBackend
  <1>3. CASE SweepAfter(t)
    BY <1>3 DEF SweepAfter
  <1>4. CASE KillFfmpeg(t)
    BY <1>4 DEF KillFfmpeg
  <1>5. CASE KillClear(t)
    BY <1>5 DEF KillClear
  <1> QED
    BY <1>1, <1>2, <1>3, <1>4, <1>5 DEF Teardown

LEMMA LoopTypes ==
    ASSUME TypeOK, NEW l \in Loops, LoopStep(l)
    PROVE  TypeOK'
  <1> USE StreamAssumption DEF TypeOK, others, world, server, reconnect, publishers,
        calls, Urls, NoUrl, Threads, Callers, CallerLabels, LoopLabels, SharedLabels,
        Goto, Hold
  <1>1. CASE LoopTop(l)
    BY <1>1 DEF LoopTop
  <1>2. CASE SweepBefore(l)
    BY <1>2 DEF SweepBefore, SweepPublishers, End
  <1>3. CASE Aim(l)
    BY <1>3, SpendTypes DEF Aim, BudgetTypes, Budget
  <1>4. CASE Warm(l)
    BY <1>4 DEF Warm
  <1>5. CASE LaunchPicam(l)
    BY <1>5, SpendTypes DEF LaunchPicam, BudgetTypes, Budget, Fresh, FreePubs
  <1>6. CASE LaunchFfmpeg(l)
    BY <1>6 DEF LaunchFfmpeg, Fresh, FreePubs
  <1>7. CASE Publish(l)
    BY <1>7 DEF Publish
  <1>8. CASE Attach(l)
    BY <1>8 DEF Attach
  <1>9. CASE Monitor(l)
    <2>1. /\ requested' \in BOOLEAN
          /\ \E k \in {"take", "await", "kill"} : pc' = [pc EXCEPT ![l] = k]
          /\ UNCHANGED <<others, used, publishers, held, aim>>
      BY <1>9 DEF Monitor
    <2> QED
      BY <2>1
  <1>10. CASE Await(l)
    BY <1>10 DEF Await
  <1>11. CASE Decide(l)
    <2>1. /\ requested' \in BOOLEAN /\ active' \in Urls
          /\ \E k \in {"dead", "top", "wait"} : pc' = [pc EXCEPT ![l] = k]
          /\ UNCHANGED <<others, used, owned, libcam, at, held, aim>>
      BY <1>11 DEF Decide
    <2> QED
      BY <2>1
  <1>12. CASE Backoff(l)
    BY <1>12 DEF Backoff
  <1> QED
    BY <1>1, <1>2, <1>3, <1>4, <1>5, <1>6, <1>7, <1>8, <1>9, <1>10, <1>11, <1>12
       DEF LoopStep

LEMMA CallerTypes ==
    ASSUME TypeOK, NEW c \in Callers, CallerStep(c) \/ SetConfig(c)
    PROVE  TypeOK'
  <1> USE StreamAssumption DEF TypeOK, world, server, reconnect, publishers,
        calls, Threads, Callers, CallerLabels, LoopLabels, SharedLabels, Goto
  <1>1. CASE Look(c)
    <2>1. /\ \E k \in {"begin", "stop", "idle"} : pc' = [pc EXCEPT ![c] = k]
          /\ UNCHANGED <<world, desired, used, running, reconnect, publishers, cur,
                         held, aim, calls>>
      BY <1>1 DEF Look, Streaming
    <2> QED
      BY <2>1
  <1>2. CASE Stop(c)
    <2>1. /\ running' \in BOOLEAN
          /\ pc' = [pc EXCEPT ![c] = "unrequest"]
          /\ UNCHANGED <<world, desired, used, reconnect, publishers, cur, held, aim,
                         calls>>
      BY <1>2 DEF Stop
    <2> QED
      BY <2>1
  <1>3. CASE StopUnrequest(c)
    <2>1. requested' \in BOOLEAN
      BY <1>3 DEF StopUnrequest
    <2> QED
      BY <1>3, <2>1 DEF StopUnrequest
  <1>4. CASE StopJoin(c)
    BY <1>4 DEF StopJoin
  <1>5. CASE Start(c)
    <2>1. CASE pc' = [pc EXCEPT ![c] = "idle"]
      BY <1>5, <2>1 DEF Start
    <2>2. CASE pc' = [pc EXCEPT ![c] = "spawn"]
      <3>1. PICK l \in Loops : cur' = l /\ born' = [born EXCEPT ![c] = l]
        BY <1>5, <2>2 DEF Start, Fresh, FreeLoops
      <3>2. /\ running' \in BOOLEAN /\ requested' \in BOOLEAN
            /\ UNCHANGED <<world, desired, used, watchdogs, publishers, held, aim,
                           again, disturbed>>
        BY <1>5 DEF Start
      <3> QED
        BY <2>2, <3>1, <3>2
    <2> QED
      BY <1>5, <2>1, <2>2 DEF Start
  <1>6. CASE StartSpawn(c)
    BY <1>6 DEF StartSpawn
  <1>7. CASE Notify(c)
    BY <1>7 DEF Notify
  <1>8. CASE RequestReconnect(c)
    <2>1. watchdogs' \in {{"latest"}, {"latest", "older"}}
      BY <1>8 DEF RequestReconnect
    <2> QED
      BY <1>8, <2>1 DEF RequestReconnect
  <1>9. CASE SetConfig(c)
    BY <1>9, SpendTypes DEF SetConfig, Call, BudgetTypes, Budget
  <1> QED
    BY <1>1, <1>2, <1>3, <1>4, <1>5, <1>6, <1>7, <1>8, <1>9 DEF CallerStep

LEMMA WorldStepTypes ==
    ASSUME TypeOK,
           \/ SetStreamState \/ ServerMoves \/ EndpointResolved
           \/ EndpointRefreshed \/ EndpointAdvertised
    PROVE  TypeOK'
  <1> USE StreamAssumption DEF TypeOK, world, server, reconnect, publishers,
        calls, process, Threads, Callers, CallerLabels, LoopLabels, SharedLabels, Goto,
        Call, BudgetTypes, Budget
  <1>1. \A e \in Endpoints : Other(e) \in Endpoints
    BY DEF Other, Endpoints
  <1>2. CASE SetStreamState
    BY <1>2, SpendTypes DEF SetStreamState
  <1>3. CASE ServerMoves
    BY <1>1, <1>3, SpendTypes DEF ServerMoves
  <1>4. CASE EndpointResolved
    BY <1>4 DEF EndpointResolved
  <1>5. CASE EndpointRefreshed
    BY <1>5 DEF EndpointRefreshed, Learn
  <1>6. CASE EndpointAdvertised
    <2>1. Advertised \in Endpoints
      BY <1>1 DEF Advertised
    <2> QED
      BY <1>6, <2>1 DEF EndpointAdvertised, Learn
  <1> QED
    BY <1>2, <1>3, <1>4, <1>5, <1>6

LEMMA TimerTypes ==
    ASSUME TypeOK, TimerFires
    PROVE  TypeOK'
  <1> PICK w \in watchdogs :
        \/ /\ Exit
           /\ Spend("faults") \/ UNCHANGED used
        \/ /\ watchdogs' = watchdogs \ {w}
           /\ UNCHANGED <<world, desired, used, running, requested, publishers,
                          cur, pc, held, aim, calls>>
    BY DEF TimerFires
  <1>1. CASE Exit /\ (Spend("faults") \/ UNCHANGED used)
    BY <1>1, SpendTypes, ExitTypes DEF TypeOK, BudgetTypes, Budget
  <1>2. CASE /\ watchdogs' = watchdogs \ {w}
             /\ UNCHANGED <<world, desired, used, running, requested, publishers,
                            cur, pc, held, aim, calls>>
    <2>1. watchdogs' \in {{}, {"latest"}, {"older"}, {"latest", "older"}}
      BY <1>2 DEF TypeOK
    <2> QED
      BY <1>2, <2>1 DEF TypeOK, world, server, publishers, calls
  <1> QED
    BY <1>1, <1>2

LEMMA StepTypes == TypeOK /\ [Next]_vars => TypeOK'
  <1> SUFFICES ASSUME TypeOK, [Next]_vars PROVE TypeOK'
    OBVIOUS
  <1>1. CASE ProcessEnds
    BY <1>1, SpendTypes, ExitTypes DEF ProcessEnds, TypeOK, BudgetTypes, Budget
  <1>2. CASE UNCHANGED vars
    BY <1>2 DEF TypeOK, vars, process, server, reconnect, publishers, calls
  <1> QED
    BY <1>1, <1>2, BootTypes, ChildExitsTypes, TeardownTypes, LoopTypes, CallerTypes,
       WorldStepTypes, TimerTypes DEF Next

\* The state of the manager, its threads and publishers stays within its types
\* (StreamManager's fields, _stream_loop's and the callers' locals).
THEOREM StreamTypes == Spec => []TypeOK
  BY InitTypes, StepTypes, PTL DEF Spec

-----------------------------------------------------------------------------
(* Calls that do not overlap.  OneLoop is not inductive: that start() may  *)
(* launch a loop rests on what is left of the loop before it, which is the *)
(* business of the stop() before, and of the caller being alone.           *)

\* inside stop(), once _running is FALSE
StopLabels == {"unrequest", "take", "halt", "sweep", "kill", "clear", "join"}

AllDead == \A l \in Loops : pc[l] = "dead"

\* one caller at a time is inside start(), stop() or restart()
Solo == \A c, d \in Callers : pc[c] # "idle" /\ pc[d] # "idle" => c = d

\* a loop that is alive is the one of _thread
Current == \A l \in Loops : pc[l] # "dead" => cur = l

\* a thread object that is not started yet is the one of _thread, and alone
Newborn ==
    \A c \in Callers :
        /\ born[c] # NoLoop => pc[c] = "spawn"
        /\ pc[c] = "spawn" => running /\ born[c] = cur /\ AllDead

\* while stop() is under way nothing starts; once it is not, nothing is left
Stopping == \A c \in Callers : pc[c] \in StopLabels => ~running
Ended    == ~running => AllDead \/ \E c \in Callers : pc[c] \in StopLabels

\* nothing runs before the process does
Down == ~up => CallersIdle /\ AllDead

CallInv == Solo /\ Current /\ Newborn /\ Stopping /\ Ended /\ Down

-----------------------------------------------------------------------------
(* The Picamera2 backend: who holds a live publisher.                      *)

PicamLabels == Labels \ {"kill", "clear", "warm", "await"}

\* the manager, the loop that has just launched it, or a thread about to halt it
Tracked ==
    \A p \in Live :
        \/ p = owned
        \/ \E t \in Threads : pc[t] \in {"publish", "halt"} /\ held[t] = p

\* a loop that has stored its backend does not end without taking it out again
Stored ==
    owned # NoPub => \E l \in Loops : pc[l] \in {"attach", "monitor", "take"}

PicamInv ==
    kind = "picam" =>
        /\ \A t \in Threads : pc[t] \in PicamLabels
        /\ Tracked
        /\ Stored

OrderlyInv == Orderly => CallInv /\ PicamInv

-----------------------------------------------------------------------------
(* CallInv is preserved.  A loop moves within its labels, a caller within  *)
(* stop() or outside of it; the steps that cross are taken one by one.     *)

CallDefs == <<running, cur, born, up>>

LEMMA LoopMoves ==
    ASSUME TypeOK, CallInv, NEW l \in Loops, pc[l] # "dead", UNCHANGED CallDefs,
           NEW k \in Labels, pc' = [pc EXCEPT ![l] = k]
    PROVE  CallInv'
  BY StreamAssumption DEF TypeOK, CallDefs, CallInv, Solo, Current, Newborn, Stopping, Ended,
     Down, AllDead, CallersIdle, Callers, Threads

LEMMA CallerMoves ==
    ASSUME TypeOK, CallInv, NEW c \in Callers, pc[c] \notin {"idle", "spawn"},
           UNCHANGED CallDefs, NEW k \in Labels \ {"spawn"},
           k \in StopLabels <=> pc[c] \in StopLabels,
           pc' = [pc EXCEPT ![c] = k]
    PROVE  CallInv'
  BY StreamAssumption DEF TypeOK, CallDefs, CallInv, Solo, Current, Newborn, Stopping, Ended,
     Down, AllDead, CallersIdle, Callers, Threads, StopLabels

LEMMA CallBegins ==
    ASSUME TypeOK, CallInv, NEW c \in Callers, NEW k \in {"look", "stop", "notify"},
           Call(c, k), ~disturbed', UNCHANGED CallDefs
    PROVE  CallInv'
  <1>1. CallersIdle /\ up
    BY Zenon DEF Call, CallersIdle
  <1>2. pc' = [pc EXCEPT ![c] = k]
    BY DEF Call, Goto
  <1> QED
    BY <1>1, <1>2, StreamAssumption DEF TypeOK, CallDefs, CallInv, Solo, Current, Newborn,
       Stopping, Ended, Down, AllDead, CallersIdle, Callers, Threads, StopLabels

LEMMA StopCalls ==
    ASSUME TypeOK, CallInv, NEW c \in Callers, Stop(c)
    PROVE  CallInv'
  <1>1. /\ pc[c] = "stop" /\ pc' = [pc EXCEPT ![c] = "unrequest"]
        /\ ~running' /\ UNCHANGED <<cur, born, up>>
    BY DEF Stop, Goto, world, calls
  <1> QED
    BY <1>1, StreamAssumption DEF TypeOK, CallInv, Solo, Current, Newborn,
       Stopping, Ended, Down, AllDead, CallersIdle, Callers, Threads, StopLabels

LEMMA JoinCalls ==
    ASSUME TypeOK, CallInv, NEW c \in Callers, StopJoin(c), ~disturbed'
    PROVE  CallInv'
  <1>1. ~Alive(cur)
    BY Zenon DEF StopJoin
  <1>2. AllDead
    BY <1>1, StreamAssumption DEF AllDead, Alive, CallInv, Current
  <1>3. PICK k \in {"begin", "idle"} : pc' = [pc EXCEPT ![c] = k]
    BY DEF StopJoin, Goto
  <1>4. pc[c] = "join" /\ UNCHANGED CallDefs
    BY DEF StopJoin, CallDefs, world
  <1> QED
    BY <1>2, <1>3, <1>4, StreamAssumption DEF TypeOK, CallDefs, CallInv, Solo, Current,
       Newborn, Stopping, Ended, Down, AllDead, CallersIdle, Callers, Threads, StopLabels

LEMMA StartCalls ==
    ASSUME TypeOK, CallInv, NEW c \in Callers, Start(c)
    PROVE  CallInv'
  <1>1. pc[c] = "begin" /\ UNCHANGED up
    BY DEF Start, world
  <1>2. CASE running /\ Alive(cur)
    <2>1. pc' = [pc EXCEPT ![c] = "idle"] /\ UNCHANGED CallDefs
      BY <1>2 DEF Start, Goto, CallDefs, world
    <2> QED
      BY <1>1, <2>1, CallerMoves DEF Labels, CallerLabels, StopLabels
  <1>3. CASE ~(running /\ Alive(cur))
    <2>1. PICK l \in Loops : cur' = l /\ born' = [born EXCEPT ![c] = l]
      BY <1>3 DEF Start, Fresh, FreeLoops
    <2>2. pc' = [pc EXCEPT ![c] = "spawn"] /\ running'
      BY <1>3 DEF Start, Goto
    <2>3. \A d \in Callers : d # c => pc[d] = "idle"
      BY <1>1 DEF CallInv, Solo
    <2>4. AllDead
      <3>1. CASE ~running
        BY <1>1, <2>3, <3>1 DEF CallInv, Ended, StopLabels
      <3>2. CASE ~Alive(cur)
        BY <3>2, StreamAssumption DEF AllDead, Alive, CallInv, Current
      <3> QED
        BY <1>3, <3>1, <3>2
    <2> QED
      BY <1>1, <2>1, <2>2, <2>3, <2>4, StreamAssumption DEF TypeOK, CallInv, Solo,
         Current, Newborn, Stopping, Ended, Down, AllDead, CallersIdle, Callers,
         Threads, StopLabels
  <1> QED
    BY <1>2, <1>3

LEMMA SpawnCalls ==
    ASSUME TypeOK, CallInv, NEW c \in Callers, StartSpawn(c)
    PROVE  CallInv'
  <1>1. /\ pc[c] = "spawn" /\ running /\ AllDead /\ cur \in Loops
        /\ pc' = [pc EXCEPT ![c] = "idle", ![cur] = "top"]
        /\ born' = [born EXCEPT ![c] = NoLoop]
        /\ UNCHANGED <<cur, running, up>>
    BY DEF StartSpawn, CallInv, Newborn, TypeOK, world
  <1> QED
    BY <1>1, StreamAssumption DEF TypeOK, CallInv, Solo, Current, Newborn,
       Stopping, Ended, Down, AllDead, CallersIdle, Callers, Threads, StopLabels

LEMMA BootCalls ==
    ASSUME TypeOK, CallInv, Boot
    PROVE  CallInv'
  <1>1. CallersIdle /\ AllDead /\ up' /\ UNCHANGED born
    BY DEF Boot, CallInv, Down, calls
  <1>2. CASE ~desired
    BY <1>1, <1>2, StreamAssumption DEF Boot, TypeOK, CallInv, Solo, Current, Newborn,
       Stopping, Ended, Down, AllDead, CallersIdle, Callers, Threads, StopLabels
  <1>3. CASE desired
    <2>1. PICK l \in Loops : cur' = l /\ pc' = [pc EXCEPT ![l] = "top"]
      BY <1>3 DEF Boot, Fresh, FreeLoops
    <2>2. running'
      BY <1>3 DEF Boot
    <2> QED
      BY <1>1, <2>1, <2>2, StreamAssumption DEF TypeOK, CallInv, Solo, Current, Newborn,
         Stopping, Ended, Down, AllDead, CallersIdle, Callers, Threads, StopLabels
  <1> QED
    BY <1>2, <1>3

LEMMA ExitCalls == Exit => CallInv'
  BY StreamAssumption DEF Exit, CallInv, Solo, Current, Newborn,
     Stopping, Ended, Down, AllDead, CallersIdle, Callers, Threads, StopLabels

\* the persisted state and the stream are both on or off, so a branch is taken
LEMMA BranchTaken ==
    ASSUME TypeOK, NEW c \in Callers, Look(c) \/ Notify(c)
    PROVE  \E k \in {"begin", "stop", "idle", "request", "request_start"} :
               pc' = [pc EXCEPT ![c] = k]
  <1>1. desired \in BOOLEAN /\ Streaming \in BOOLEAN
    BY DEF TypeOK, Streaming
  <1>2. CASE Look(c)
    BY <1>1, <1>2 DEF Look, Goto
  <1>3. CASE Notify(c)
    BY <1>1, <1>3 DEF Notify, Goto
  <1> QED
    BY <1>2, <1>3

LEMMA CallInvPreserved ==
    ASSUME TypeOK, CallInv, Next, ~disturbed'
    PROVE  CallInv'
  <1> USE DEF CallDefs, world, calls
  <1>1. CASE \E t \in Threads : Teardown(t)
    <2> PICK t \in Threads : Teardown(t)
      BY <1>1
    <2>1. /\ pc[t] \in SharedLabels
          /\ \E k \in {"halt", "sweep", "join", "decide", "clear", "await", "kill"} :
                /\ pc' = [pc EXCEPT ![t] = k]
                /\ t \in Callers => k \in StopLabels
          /\ UNCHANGED CallDefs
      BY DEF Teardown, TakeBackend, HaltBackend, SweepAfter, KillFfmpeg, KillClear, Goto,
         After, SharedLabels, StopLabels
    <2>2. CASE t \in Loops
      BY <2>1, <2>2, LoopMoves DEF SharedLabels, Labels, LoopLabels, CallerLabels
    <2>3. CASE t \in Callers
      BY <2>1, <2>3, CallerMoves DEF SharedLabels, Labels, LoopLabels, CallerLabels,
         StopLabels
    <2> QED
      BY <2>2, <2>3 DEF Threads
  <1>2. CASE \E l \in Loops : LoopStep(l)
    <2> PICK l \in Loops : LoopStep(l)
      BY <1>2
    <2>1. /\ pc[l] # "dead"
          /\ \E k \in LoopLabels \cup SharedLabels : pc' = [pc EXCEPT ![l] = k]
          /\ UNCHANGED CallDefs
      BY DEF LoopStep, LoopTop, SweepBefore, Aim, Warm, LaunchPicam, LaunchFfmpeg, Publish,
         Attach, Monitor, Await, Decide, Backoff, Goto, LoopLabels, SharedLabels, others
    <2> QED
      BY <2>1, LoopMoves DEF Labels
  <1>3. CASE \E c \in Callers : CallerStep(c) \/ SetConfig(c)
    <2> PICK c \in Callers : CallerStep(c) \/ SetConfig(c)
      BY <1>3
    <2>1. CASE StopUnrequest(c)
      BY <2>1, CallerMoves DEF StopUnrequest, Goto, Labels, CallerLabels, SharedLabels,
         StopLabels
    <2>3. CASE Look(c) \/ Notify(c) \/ RequestReconnect(c)
      <3>1. pc[c] \in {"look", "notify", "request", "request_start"} /\ UNCHANGED CallDefs
        BY <2>3 DEF Look, Notify, RequestReconnect
      <3>2. \E k \in {"begin", "stop", "idle", "request", "request_start"} :
               pc' = [pc EXCEPT ![c] = k]
        BY <2>3, BranchTaken DEF RequestReconnect, Goto
      <3> QED
        BY <3>1, <3>2, CallerMoves DEF Labels, CallerLabels, SharedLabels, StopLabels
    <2>2. CASE SetConfig(c)
      BY <2>2, CallBegins DEF SetConfig
    <2> QED
      BY <2>1, <2>2, <2>3, StopCalls, JoinCalls, StartCalls, SpawnCalls DEF CallerStep
  <1>4. CASE SetStreamState \/ EndpointRefreshed \/ EndpointAdvertised
    <2>1. Control \in Callers /\ Beat \in Callers
      BY DEF Callers
    <2> QED
      BY <1>4, <2>1, CallBegins DEF SetStreamState, EndpointRefreshed, EndpointAdvertised,
         Learn
  <1>5. CASE ChildExits \/ ServerMoves \/ EndpointResolved
    <2>1. UNCHANGED <<pc, running, cur, born, up>>
      BY <1>5 DEF ChildExits, ServerMoves, EndpointResolved, process
    <2> QED
      BY <2>1 DEF CallInv, Solo, Current, Newborn, Stopping, Ended, Down, AllDead,
         CallersIdle
  <1>6. CASE TimerFires \/ ProcessEnds
    <2>1. Exit \/ UNCHANGED <<pc, running, cur, born, up>>
      BY <1>6 DEF TimerFires, ProcessEnds
    <2>2. CASE UNCHANGED <<pc, running, cur, born, up>>
      BY <2>2 DEF CallInv, Solo, Current, Newborn, Stopping, Ended, Down, AllDead,
         CallersIdle
    <2> QED
      BY <2>1, <2>2, ExitCalls
  <1> QED
    BY <1>1, <1>2, <1>3, <1>4, <1>5, <1>6, BootCalls DEF Next

-----------------------------------------------------------------------------
(* PicamInv is preserved.                                                  *)

\* a thread that neither holds a publisher nor answers for the manager's moves
LEMMA PicamMoves ==
    ASSUME TypeOK, PicamInv, NEW t \in Threads,
           pc[t] \notin {"publish", "halt", "attach", "monitor", "take"},
           NEW k \in PicamLabels, pc' = [pc EXCEPT ![t] = k],
           UNCHANGED <<kind, owned, at, held>>
    PROVE  PicamInv'
  BY DEF TypeOK, PicamInv, Tracked, Stored, Live, Labels

LEMMA TeardownPicam ==
    ASSUME TypeOK, PicamInv, NEW t \in Threads, Teardown(t)
    PROVE  PicamInv'
  <1> SUFFICES ASSUME kind = "picam", kind' = "picam" PROVE PicamInv'
    BY DEF Teardown, TakeBackend, HaltBackend, SweepAfter, KillFfmpeg, KillClear, world,
       PicamInv
  <1>1. CASE TakeBackend(t)
    <2>1. /\ pc' = [pc EXCEPT ![t] = "halt"] /\ held' = [held EXCEPT ![t] = owned]
          /\ owned' = NoPub /\ at' = at /\ pc[t] = "take"
      BY <1>1 DEF TakeBackend, Goto, Hold
    <2>2. Tracked'
      BY <2>1 DEF PicamInv, TypeOK, Tracked, Live
    <2> QED
      BY <2>1, <2>2 DEF PicamInv, TypeOK, Stored, PicamLabels, Labels, SharedLabels
  <1>2. CASE HaltBackend(t)
    <2>1. /\ pc' = [pc EXCEPT ![t] = "sweep"] /\ held' = [held EXCEPT ![t] = NoPub]
          /\ owned' = owned /\ pc[t] = "halt"
          /\ at' = [p \in Pubs |-> IF p = held[t] THEN NoUrl ELSE at[p]]
      BY <1>2 DEF HaltBackend, Goto, Hold, End
    <2>2. Tracked'
      BY <2>1 DEF PicamInv, TypeOK, Tracked, Live
    <2> QED
      BY <2>1, <2>2 DEF PicamInv, TypeOK, Stored, PicamLabels, Labels, SharedLabels
  <1>3. CASE SweepAfter(t)
    <2>1. PICK k \in {"join", "decide"} : pc' = [pc EXCEPT ![t] = k]
      BY <1>3 DEF SweepAfter, After, Goto
    <2>2. /\ UNCHANGED <<owned, held>> /\ pc[t] = "sweep"
          /\ at' = [p \in Pubs |-> IF p # owned THEN NoUrl ELSE at[p]]
      BY <1>3 DEF SweepAfter, SweepPublishers, End
    <2> QED
      BY <2>1, <2>2 DEF PicamInv, TypeOK, Stored, Tracked, Live, PicamLabels, Labels,
         CallerLabels, LoopLabels
  <1>4. CASE KillFfmpeg(t) \/ KillClear(t)
    BY <1>4 DEF KillFfmpeg, KillClear, PicamInv, PicamLabels
  <1> QED
    BY <1>1, <1>2, <1>3, <1>4 DEF Teardown

LEMMA LoopPicam ==
    ASSUME TypeOK, CallInv, PicamInv, NEW l \in Loops, LoopStep(l)
    PROVE  PicamInv'
  <1> USE DEF Threads
  <1> SUFFICES ASSUME kind = "picam", kind' = "picam" PROVE PicamInv'
    BY DEF LoopStep, LoopTop, SweepBefore, Aim, Warm, LaunchPicam, LaunchFfmpeg, Publish,
       Attach, Monitor, Await, Decide, Backoff, others, world, PicamInv
  <1>1. CASE LoopTop(l) \/ Aim(l) \/ Decide(l) \/ Backoff(l)
    <2>1. /\ pc[l] \in {"top", "aim", "decide", "wait"}
          /\ \E k \in {"clean", "dead", "launch", "top", "wait"} :
                pc' = [pc EXCEPT ![l] = k]
          /\ UNCHANGED <<owned, at, held>>
      BY <1>1 DEF LoopTop, Aim, Decide, Backoff, Goto, publishers
    <2> QED
      BY <2>1, PicamMoves DEF PicamLabels, Labels, LoopLabels
  <1>2. CASE SweepBefore(l)
    <2>1. /\ pc' = [pc EXCEPT ![l] = "aim"] /\ UNCHANGED <<owned, held>>
          /\ pc[l] = "clean"
          /\ at' = [p \in Pubs |-> IF p # owned THEN NoUrl ELSE at[p]]
      BY <1>2 DEF SweepBefore, SweepPublishers, End, Goto
    <2> QED
      BY <2>1 DEF PicamInv, TypeOK, Stored, Tracked, Live, PicamLabels, Labels, LoopLabels
  <1>3. CASE LaunchPicam(l)
    <2>1. CASE pc' = [pc EXCEPT ![l] = "take"] /\ UNCHANGED <<at, held>>
      BY <1>3, <2>1, PicamMoves DEF LaunchPicam, PicamLabels, Labels, SharedLabels
    <2>2. CASE /\ pc' = [pc EXCEPT ![l] = "publish"]
               /\ \E p \in Pubs : /\ at' = [at EXCEPT ![p] = endpoint]
                                  /\ held' = [held EXCEPT ![l] = p]
      <3> PICK p \in Pubs : /\ at' = [at EXCEPT ![p] = endpoint]
                            /\ held' = [held EXCEPT ![l] = p]
        BY <2>2
      <3>1. UNCHANGED owned /\ pc[l] = "launch"
        BY <1>3 DEF LaunchPicam
      <3>2. Tracked'
        BY <2>2, <3>1 DEF PicamInv, TypeOK, Tracked, Live
      <3> QED
        BY <2>2, <3>1, <3>2 DEF PicamInv, TypeOK, Stored, PicamLabels, Labels, LoopLabels
    <2> QED
      BY <1>3, <2>1, <2>2 DEF LaunchPicam, Goto, Hold, Fresh, FreePubs
  <1>4. CASE Publish(l)
    <2>1. owned = NoPub
      BY <1>4 DEF Publish, PicamInv, Stored, CallInv, Current
    <2>2. /\ pc[l] = "publish" /\ pc' = [pc EXCEPT ![l] = "attach"]
          /\ owned' = held[l] /\ held' = [held EXCEPT ![l] = NoPub] /\ at' = at
      BY <1>4 DEF Publish, Goto, Hold
    <2>3. Tracked'
      BY <2>1, <2>2, StreamAssumption DEF PicamInv, TypeOK, Tracked, Live
    <2> QED
      BY <2>2, <2>3 DEF PicamInv, TypeOK, Stored, PicamLabels, Labels, LoopLabels
  <1>5. CASE Attach(l)
    <2>1. /\ pc[l] = "attach" /\ held' = [held EXCEPT ![l] = owned]
          /\ \E k \in {"monitor", "take"} : pc' = [pc EXCEPT ![l] = k]
          /\ UNCHANGED <<owned, at>>
      BY <1>5 DEF Attach, Goto, Hold, publishers
    <2> QED
      BY <2>1 DEF PicamInv, TypeOK, Stored, Tracked, Live, PicamLabels, Labels, LoopLabels,
         SharedLabels
  <1>6. CASE Monitor(l)
    <2>1. /\ pc[l] = "monitor" /\ pc' = [pc EXCEPT ![l] = "take"]
          /\ UNCHANGED <<owned, at, held>>
      BY <1>6 DEF Monitor, Goto, publishers
    <2> QED
      BY <2>1 DEF PicamInv, TypeOK, Stored, Tracked, Live, PicamLabels, Labels, SharedLabels
  <1>7. CASE Warm(l) \/ LaunchFfmpeg(l) \/ Await(l)
    BY <1>7 DEF Warm, LaunchFfmpeg, Await, PicamInv, PicamLabels
  <1> QED
    BY <1>1, <1>2, <1>3, <1>4, <1>5, <1>6, <1>7 DEF LoopStep

LEMMA OtherPicam ==
    ASSUME TypeOK, CallInv, PicamInv, Next,
           ~(\E t \in Threads : Teardown(t)), ~(\E l \in Loops : LoopStep(l))
    PROVE  PicamInv'
  <1> USE DEF world, calls, publishers
  <1>1. CASE Boot
    <2>1. AllDead /\ CallersIdle /\ UNCHANGED <<kind, owned, at, held>>
      BY <1>1 DEF Boot, CallInv, Down
    <2>2. UNCHANGED pc \/ \E l \in Loops : pc' = [pc EXCEPT ![l] = "top"]
      BY <1>1 DEF Boot, Fresh, FreeLoops
    <2>3. CASE UNCHANGED pc
      BY <2>1, <2>3 DEF PicamInv, Tracked, Stored, Live
    <2>4. CASE \E l \in Loops : pc' = [pc EXCEPT ![l] = "top"]
      BY <2>1, <2>4, PicamMoves DEF AllDead, Threads, PicamLabels, Labels, LoopLabels
    <2> QED
      BY <2>2, <2>3, <2>4
  <1>2. CASE ChildExits
    <2>1. /\ UNCHANGED <<kind, owned, held, pc>>
          /\ \/ UNCHANGED at
             \/ \E p \in Pubs : at' = [at EXCEPT ![p] = NoUrl]
      BY <1>2 DEF ChildExits, Live
    <2> QED
      BY <2>1 DEF TypeOK, PicamInv, Tracked, Stored, Live
  <1>3. CASE \E c \in Callers : CallerStep(c) \/ SetConfig(c)
    <2> PICK c \in Callers : CallerStep(c) \/ SetConfig(c)
      BY <1>3
    <2>1. UNCHANGED <<kind, owned, at, held>>
      BY DEF CallerStep, SetConfig, Look, Stop, StopUnrequest, StopJoin, Start, StartSpawn,
         Notify, RequestReconnect
    <2>2. CASE StartSpawn(c)
      <3>1. /\ pc[c] = "spawn" /\ cur \in Loops /\ pc[cur] = "dead"
            /\ pc' = [pc EXCEPT ![c] = "idle", ![cur] = "top"]
        BY <2>2 DEF StartSpawn, CallInv, Newborn, TypeOK, AllDead
      <3> QED
        BY <2>1, <3>1, StreamAssumption DEF TypeOK, PicamInv, Tracked, Stored, Live, Labels,
           PicamLabels, CallerLabels, LoopLabels, Callers, Threads
    <2>3. CASE ~StartSpawn(c)
      <3>1. pc[c] \in CallerLabels
        BY <2>3 DEF CallerStep, SetConfig, Call, Look, Stop, StopUnrequest, StopJoin, Start,
           Notify, RequestReconnect, CallerLabels
      <3>2. \E k \in CallerLabels \cup {"take"} : pc' = [pc EXCEPT ![c] = k]
        BY <2>3, BranchTaken DEF CallerStep, SetConfig, Call, Stop, StopUnrequest, StopJoin,
           Start, RequestReconnect, CallerLabels, Goto
      <3> QED
        BY <2>1, <3>1, <3>2, PicamMoves DEF Threads, Labels, PicamLabels, CallerLabels,
           SharedLabels
    <2> QED
      BY <2>2, <2>3
  <1>4. CASE SetStreamState \/ EndpointRefreshed \/ EndpointAdvertised
    <2>1. /\ \E c \in Callers, k \in {"look", "notify"} :
                pc[c] = "idle" /\ pc' = [pc EXCEPT ![c] = k]
          /\ UNCHANGED <<kind, owned, at, held>>
      BY <1>4 DEF SetStreamState, EndpointRefreshed, EndpointAdvertised, Learn, Call, Goto,
         Callers
    <2> QED
      BY <2>1, PicamMoves DEF Threads, Labels, PicamLabels, CallerLabels
  <1>5. CASE ServerMoves \/ EndpointResolved
    BY <1>5 DEF ServerMoves, EndpointResolved, process, PicamInv, Tracked, Stored, Live
  <1>6. CASE TimerFires \/ ProcessEnds
    <2>1. Exit \/ UNCHANGED <<kind, pc, owned, at, held>>
      BY <1>6 DEF TimerFires, ProcessEnds
    <2>2. CASE UNCHANGED <<kind, pc, owned, at, held>>
      BY <2>2 DEF PicamInv, Tracked, Stored, Live
    <2>3. CASE Exit
      BY <2>3 DEF Exit, PicamInv, Tracked, Stored, Live, Labels, PicamLabels, CallerLabels,
         LoopLabels
    <2> QED
      BY <2>1, <2>2, <2>3
  <1> QED
    BY <1>1, <1>2, <1>3, <1>4, <1>5, <1>6 DEF Next

-----------------------------------------------------------------------------
LEMMA OrderlyStep == TypeOK /\ OrderlyInv /\ [Next]_vars => OrderlyInv'
  <1> SUFFICES ASSUME TypeOK, OrderlyInv, [Next]_vars, ~disturbed'
               PROVE  (CallInv /\ PicamInv)'
    BY DEF OrderlyInv, Orderly
  <1>1. CASE disturbed
    <2>1. Exit
      BY <1>1, Zenon DEF Next, vars, process, calls, others, Boot, ProcessEnds, ChildExits,
         Teardown, TakeBackend, HaltBackend, SweepAfter, KillFfmpeg, KillClear, LoopStep,
         LoopTop, SweepBefore, Aim, Warm, LaunchPicam, LaunchFfmpeg, Publish, Attach,
         Monitor, Await, Decide, Backoff, CallerStep, Look, Stop, StopUnrequest, StopJoin,
         Start, StartSpawn, Notify, RequestReconnect, SetConfig, SetStreamState, Call,
         TimerFires, ServerMoves, EndpointResolved, EndpointRefreshed, EndpointAdvertised,
         Learn
    <2>2. PicamInv'
      BY <2>1 DEF Exit, PicamInv, Tracked, Stored, Live, Labels, PicamLabels, CallerLabels,
         LoopLabels
    <2> QED
      BY <2>1, <2>2, ExitCalls
  <1>2. CASE ~disturbed /\ Next
    <2>1. CallInv /\ PicamInv
      BY <1>2 DEF OrderlyInv, Orderly
    <2> QED
      BY <1>2, <2>1, CallInvPreserved, TeardownPicam, LoopPicam, OtherPicam
  <1>3. CASE ~disturbed /\ UNCHANGED vars
    BY <1>3 DEF vars, process, calls, publishers, reconnect, OrderlyInv, Orderly, CallInv,
       Solo, Current, Newborn, Stopping, Ended, Down, AllDead, CallersIdle, PicamInv,
       Tracked, Stored, Live
  <1> QED
    BY <1>1, <1>2, <1>3

LEMMA InitOrderly == Init => OrderlyInv
  BY StreamAssumption DEF Init, OrderlyInv, CallInv, Solo, Current, Newborn, Stopping, Ended,
     Down, AllDead, CallersIdle, Callers, Threads, StopLabels, PicamInv, Tracked, Stored,
     Live, Labels, PicamLabels, CallerLabels, LoopLabels

LEMMA SpecOrderly == Spec => [](TypeOK /\ OrderlyInv)
  BY InitTypes, StepTypes, InitOrderly, OrderlyStep, PTL DEF Spec

\* Calls of start, stop and restart that do not overlap leave one stream loop,
\* whatever publishers, timers and the resolver do in between (stream.py, start).
THEOREM OneStreamLoop == Spec => []StreamInv
  <1>1. TypeOK /\ OrderlyInv => StreamInv
    BY DEF StreamInv, OneLoop, OrderlyInv, Orderly, CallInv, Current, Alive
  <1> QED
    BY <1>1, SpecOrderly, PTL

\* Once a stop of the Picamera2 backend has returned, having joined the loop and
\* met no other call, nothing publishes (stop, _teardown_picam_backend).
THEOREM StopLeavesNothing == Spec => []StopIsQuiet
  <1>1. TypeOK /\ OrderlyInv => StopIsQuiet
    <2> SUFFICES ASSUME TypeOK, OrderlyInv, kind = "picam", CallersIdle, ~disturbed,
                        ~running
                 PROVE  Live = {} /\ \A l \in Loops : ~Alive(l)
      BY DEF StopIsQuiet, Orderly
    <2>1. AllDead
      BY DEF OrderlyInv, Orderly, CallInv, Ended, CallersIdle, StopLabels
    <2>2. owned = NoPub
      BY <2>1 DEF OrderlyInv, Orderly, PicamInv, Stored, AllDead
    <2>3. \A t \in Threads : pc[t] \notin {"publish", "halt"}
      BY <2>1 DEF AllDead, CallersIdle, Threads
    <2>4. Live = {}
      BY <2>2, <2>3, StreamAssumption DEF OrderlyInv, Orderly, PicamInv, Tracked, Live
    <2> QED
      BY <2>1, <2>4 DEF AllDead, Alive
  <1> QED
    BY <1>1, SpecOrderly, PTL
=============================================================================
