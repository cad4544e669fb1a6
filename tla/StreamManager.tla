--------------------------- MODULE StreamManager ---------------------------
(***************************************************************************)
(* The camera's publisher: StreamManager (camera_streamer/stream.py), its  *)
(* loop threads, and the threads that start, stop, restart and redirect    *)
(* it: the control server (ControlHandler.set_stream_state and set_config) *)
(* and the heartbeat sender (pending configuration, server endpoint).      *)
(*                                                                         *)
(* A publisher is an ffmpeg process pushing to one of the server's         *)
(* endpoints.  The three ways of running one differ in when it becomes     *)
(* known to the manager: a Picamera2 backend is stored after it has        *)
(* started, a process of the command-line backends as it is launched,      *)
(* behind libcamera-vid or alone.  A region under _lock is one action, and *)
(* so are a termination with its waits and a sweep over /proc.  Time is    *)
(* left out: a wait may end at any moment, so _retry_event, which only     *)
(* ends one early, and the length of the backoff are left out with it.     *)
(***************************************************************************)
EXTENDS Integers, FiniteSets

CONSTANTS
    Control,    \* the control server's thread
    Beat,       \* the heartbeat thread
    Loops,      \* identifiers of stream-loop threads
    NoLoop,     \* no thread
    Pubs,       \* identifiers of publisher processes
    NoPub,      \* no process
    Kinds,      \* backends considered, of {"picam", "libcamera", "v4l2"}
    Homes,      \* numbers of LAN addresses of the server considered
    MaxAsks,    \* bound on requests to the control handler
    MaxMoves,   \* bound on changes of the server's address
    MaxFaults   \* bound on failed launches, exits and ends of the process

Callers   == {Control, Beat}
Threads   == Callers \cup Loops
Endpoints == {"first", "second"}
NoUrl     == "none"
Urls      == Endpoints \cup {NoUrl}

ASSUME StreamAssumption ==
    /\ Control # Beat
    /\ Callers \cap Loops = {}
    /\ NoLoop \notin Loops
    /\ NoPub \notin Pubs
    /\ Kinds \subseteq {"picam", "libcamera", "v4l2"}
    /\ Homes \subseteq {1, 2}
    /\ MaxAsks \in Nat
    /\ MaxMoves \in Nat
    /\ MaxFaults \in Nat

VARIABLES
    kind,        \* the backend of this camera
    up,          \* the camera process runs
    desired,     \* the persisted desired stream state is "running"
    running,     \* _running
    requested,   \* _endpoint_reconnect_requested
    watchdogs,   \* reconnect watchdogs armed: of the latest request, of older ones
    cur,         \* _thread
    owned,       \* the publisher of _picam_backend, or _process
    libcam,      \* _libcamera_proc: "none", "up" or "exited"
    active,      \* _active_stream_url
    at,          \* where each publisher publishes, NoUrl once it has exited
    homes,       \* how many LAN addresses the server has
    names,       \* the address the server's host name resolves to
    endpoint,    \* resolved_ip: where the camera takes the server to be
    resolved,    \* the resolver thread has found an address and ended
    pc,          \* where each thread is
    held,        \* the publisher in each thread's local variable
    aim,         \* the url in the command line a loop has built and not run
    again,       \* the caller is in restart(): start() follows stop()
    born,        \* the thread object a caller's start() has created
    disturbed,   \* history: two calls have overlapped or a join gave up
    used         \* how much of each bound has been spent

reconnect  == <<requested, watchdogs>>
publishers == <<owned, libcam, active, at>>
calls      == <<again, born, disturbed>>
process    == <<up, resolved, running, reconnect, publishers, cur, pc, held, aim,
                calls>>
server     == <<homes, names>>
world      == <<kind, server, endpoint, resolved, up>>
vars       == <<kind, desired, server, endpoint, used, process>>

Budget == [asks |-> MaxAsks, moves |-> MaxMoves, faults |-> MaxFaults]

CallerLabels == {"idle", "look", "stop", "unrequest", "join", "begin", "spawn",
                 "notify", "request", "request_start"}
LoopLabels   == {"dead", "top", "clean", "aim", "warm", "launch", "publish",
                 "attach", "monitor", "await", "decide", "wait"}
SharedLabels == {"take", "halt", "sweep", "kill", "clear"}

TypeOK ==
    /\ kind \in Kinds
    /\ up \in BOOLEAN /\ desired \in BOOLEAN /\ running \in BOOLEAN
    /\ requested \in BOOLEAN /\ disturbed \in BOOLEAN
    /\ watchdogs \in {{}, {"latest"}, {"older"}, {"latest", "older"}}
    /\ cur \in Loops \cup {NoLoop}
    /\ owned \in Pubs \cup {NoPub}
    /\ libcam \in {"none", "up", "exited"}
    /\ active \in Urls
    /\ at \in [Pubs -> Urls]
    /\ homes \in Homes /\ names \in Endpoints /\ endpoint \in Endpoints
    /\ resolved \in BOOLEAN
    /\ pc \in [Threads -> CallerLabels \cup LoopLabels \cup SharedLabels]
    /\ \A c \in Callers : pc[c] \notin LoopLabels
    /\ \A l \in Loops : pc[l] \notin CallerLabels
    /\ held \in [Threads -> Pubs \cup {NoPub}]
    /\ aim \in [Loops -> Urls]
    /\ again \in [Callers -> BOOLEAN]
    /\ born \in [Callers -> Loops \cup {NoLoop}]
    /\ \A c \in Callers : pc[c] = "spawn" => born[c] # NoLoop
    /\ \A l \in Loops : pc[l] = "monitor" => held[l] # NoPub
    /\ used \in [DOMAIN Budget -> Nat]
    /\ \A k \in DOMAIN Budget : used[k] <= Budget[k]

\* a camera that has just been paired: no persisted state reads as "stopped"
Init ==
    /\ kind \in Kinds
    /\ desired = FALSE
    /\ homes \in Homes
    /\ names = "first" /\ endpoint = "first" /\ resolved = FALSE
    /\ used = [k \in DOMAIN Budget |-> 0]
    /\ up = FALSE /\ running = FALSE
    /\ requested = FALSE /\ watchdogs = {}
    /\ owned = NoPub /\ libcam = "none" /\ active = NoUrl
    /\ at = [p \in Pubs |-> NoUrl]
    /\ cur = NoLoop
    /\ pc = [t \in Threads |-> IF t \in Callers THEN "idle" ELSE "dead"]
    /\ held = [t \in Threads |-> NoPub]
    /\ aim = [l \in Loops |-> NoUrl]
    /\ again = [c \in Callers |-> FALSE]
    /\ born = [c \in Callers |-> NoLoop]
    /\ disturbed = FALSE

Spend(k) == used[k] < Budget[k] /\ used' = [used EXCEPT ![k] = @ + 1]

-----------------------------------------------------------------------------
(* The process.                                                            *)

\* identifiers are interchangeable: which free one is taken is fixed
Fresh(S) == IF S = {} THEN {} ELSE {CHOOSE x \in S : TRUE}

Live     == {p \in Pubs : at[p] # NoUrl}
Alive(l) == l # NoLoop /\ pc[l] # "dead"

FreeLoops == {l \in Loops : ~Alive(l) /\ \A c \in Callers : born[c] # l}

\* is_streaming: the manager's publisher exists and has not exited
Streaming == owned # NoPub /\ at[owned] # NoUrl

\* _do_running: the pipeline starts by itself if the persisted state says so
Boot ==
    /\ ~up
    /\ up' = TRUE
    /\ running' = desired
    /\ \/ ~desired /\ UNCHANGED <<cur, pc>>
       \/ /\ desired
          /\ \E l \in Fresh(FreeLoops) : cur' = l /\ pc' = [pc EXCEPT ![l] = "top"]
    /\ UNCHANGED <<kind, desired, server, endpoint, used, resolved, reconnect,
                   publishers, held, aim, calls>>

\* the process ends, and with it, by systemd, everything it has launched
Exit ==
    /\ up' = FALSE /\ running' = FALSE
    /\ resolved' = FALSE
    /\ requested' = FALSE /\ watchdogs' = {}
    /\ owned' = NoPub /\ libcam' = "none" /\ active' = NoUrl
    /\ at' = [p \in Pubs |-> NoUrl]
    /\ cur' = NoLoop
    /\ pc' = [t \in Threads |-> IF t \in Callers THEN "idle" ELSE "dead"]
    /\ held' = [t \in Threads |-> NoPub]
    /\ aim' = [l \in Loops |-> NoUrl]
    /\ again' = [c \in Callers |-> FALSE]
    /\ born' = [c \in Callers |-> NoLoop]
    /\ disturbed' = FALSE
    /\ UNCHANGED <<kind, desired, server, endpoint>>

\* power is lost, or another part of the camera restarts the service
ProcessEnds == up /\ Spend("faults") /\ Exit

\* a publisher or libcamera-vid exits on its own
ChildExits ==
    /\ Spend("faults")
    /\ \/ \E p \in Live : at' = [at EXCEPT ![p] = NoUrl] /\ UNCHANGED libcam
       \/ libcam = "up" /\ libcam' = "exited" /\ UNCHANGED at
    /\ UNCHANGED <<world, desired, running, reconnect, owned, active, cur, pc,
                   held, aim, calls>>

-----------------------------------------------------------------------------
(* Steps of any thread.                                                    *)

Goto(t, label) == pc' = [pc EXCEPT ![t] = label]
Hold(t, p)     == held' = [held EXCEPT ![t] = p]
End(ps)        == at' = [p \in Pubs |-> IF p \in ps THEN NoUrl ELSE at[p]]

\* the shared helpers return to stop() or to the loop
After(t, inStop, inLoop) == Goto(t, IF t \in Callers THEN inStop ELSE inLoop)

\* _teardown_picam_backend: the backend is taken out under the lock; a
\* command-line backend has none, and loses only the recorded url
TakeBackend(t) ==
    /\ pc[t] = "take"
    /\ active' = NoUrl
    /\ \/ kind = "picam" /\ Hold(t, owned) /\ owned' = NoPub
       \/ kind # "picam" /\ UNCHANGED <<held, owned>>
    /\ Goto(t, "halt")
    /\ UNCHANGED <<world, desired, used, running, reconnect, libcam, at, cur,
                   aim, calls>>

HaltBackend(t) ==
    /\ pc[t] = "halt"
    /\ End({held[t]})
    /\ Hold(t, NoPub)
    /\ Goto(t, "sweep")
    /\ UNCHANGED <<world, desired, used, running, reconnect, owned, libcam,
                   active, cur, aim, calls>>

\* _terminate_stale_stream_publishers: every publisher the manager does not
\* know as its own, whoever launched it
SweepPublishers == End(Pubs \ {owned})

SweepAfter(t) ==
    /\ pc[t] = "sweep"
    /\ SweepPublishers
    /\ After(t, IF kind = "picam" THEN "join" ELSE "kill", "decide")
    /\ UNCHANGED <<world, desired, used, running, reconnect, owned, libcam,
                   active, cur, held, aim, calls>>

\* _kill_ffmpeg reads the two processes and ends them ...
KillFfmpeg(t) ==
    /\ pc[t] = "kill"
    /\ End({owned})
    /\ libcam' = IF libcam = "up" THEN "exited" ELSE libcam
    /\ Goto(t, "clear")
    /\ UNCHANGED <<world, desired, used, running, reconnect, owned, active, cur,
                   held, aim, calls>>

\* ... and then forgets whatever the manager holds by now
KillClear(t) ==
    /\ pc[t] = "clear"
    /\ owned' = NoPub
    /\ libcam' = "none"
    /\ After(t, "join", "await")
    /\ UNCHANGED <<world, desired, used, running, reconnect, active, at, cur,
                   held, aim, calls>>

Teardown(t) ==
    TakeBackend(t) \/ HaltBackend(t) \/ SweepAfter(t) \/ KillFfmpeg(t) \/ KillClear(t)

-----------------------------------------------------------------------------
(* _stream_loop                                                            *)

\* what no step of a loop touches
others == <<world, desired, running, watchdogs, cur, calls>>

FreePubs ==
    {p \in Pubs : at[p] = NoUrl /\ p # owned /\ \A t \in Threads : held[t] # p}

LoopTop(l) ==
    /\ pc[l] = "top"
    /\ Goto(l, IF running THEN "clean" ELSE "dead")
    /\ UNCHANGED <<others, used, requested, publishers, held, aim>>

SweepBefore(l) ==
    /\ pc[l] = "clean"
    /\ SweepPublishers
    /\ Goto(l, "aim")
    /\ UNCHANGED <<others, used, requested, owned, libcam, active, held, aim>>

\* _set_active_stream_url, then: libcamera-vid, with ffmpeg's command line
\* already built; nothing yet; or no device or no ffmpeg to be found
Aim(l) ==
    /\ pc[l] = "aim"
    /\ \/ /\ kind = "libcamera"
          /\ active' = endpoint
          /\ aim' = [aim EXCEPT ![l] = endpoint]
          /\ libcam' = "up"
          /\ Goto(l, "warm")
          /\ UNCHANGED used
       \/ /\ kind # "libcamera"
          /\ active' = endpoint
          /\ Goto(l, "launch")
          /\ UNCHANGED <<libcam, aim, used>>
       \/ /\ kind # "picam"
          /\ active' = NoUrl
          /\ Spend("faults")
          /\ Goto(l, "attach")
          /\ UNCHANGED <<libcam, aim>>
    /\ UNCHANGED <<others, requested, owned, at, held>>

\* five seconds later libcamera-vid is up, or has exited, or is no longer
\* there, which raises and ends this round
Warm(l) ==
    /\ pc[l] = "warm"
    /\ \/ libcam = "up" /\ Goto(l, "launch") /\ UNCHANGED <<active, aim>>
       \/ /\ libcam = "exited"
          /\ Goto(l, "attach")
          /\ active' = NoUrl
          /\ aim' = [aim EXCEPT ![l] = NoUrl]
       \/ /\ libcam = "none"
          /\ Goto(l, "decide")
          /\ aim' = [aim EXCEPT ![l] = NoUrl]
          /\ UNCHANGED active
    /\ UNCHANGED <<others, used, requested, owned, libcam, at, held>>

\* a Picamera2 backend launches its publisher and holds it, or does not start:
\* on a fault, and perhaps because another one has the camera
LaunchPicam(l) ==
    /\ pc[l] = "launch" /\ kind = "picam"
    /\ \/ /\ \E p \in Fresh(FreePubs) : at' = [at EXCEPT ![p] = endpoint] /\ Hold(l, p)
          /\ Goto(l, "publish")
          /\ UNCHANGED <<active, used>>
       \/ /\ \/ Live # {} /\ UNCHANGED used
             \/ Spend("faults")
          /\ active' = NoUrl
          /\ Goto(l, "take")
          /\ UNCHANGED <<at, held>>
    /\ UNCHANGED <<others, requested, owned, libcam, aim>>

\* a command-line publisher is launched and stored in one locked region
LaunchFfmpeg(l) ==
    /\ pc[l] = "launch" /\ kind # "picam"
    /\ \E p \in Fresh(FreePubs) :
          /\ owned' = p
          /\ at' = [at EXCEPT ![p] = IF kind = "v4l2" THEN endpoint ELSE aim[l]]
    /\ aim' = [aim EXCEPT ![l] = NoUrl]
    /\ libcam' = IF kind = "v4l2" THEN "none" ELSE libcam
    /\ Goto(l, "attach")
    /\ UNCHANGED <<others, used, requested, active, held>>

\* a Picamera2 backend that has started is stored
Publish(l) ==
    /\ pc[l] = "publish"
    /\ owned' = held[l]
    /\ Hold(l, NoPub)
    /\ Goto(l, "attach")
    /\ UNCHANGED <<others, used, requested, libcam, active, at, aim>>

\* the monitor reads what the manager holds by now
Attach(l) ==
    /\ pc[l] = "attach"
    /\ Hold(l, owned)
    /\ Goto(l, IF owned # NoPub THEN "monitor"
               ELSE IF kind = "picam" THEN "take" ELSE "decide")
    /\ UNCHANGED <<others, used, requested, publishers, aim>>

\* mutant: the monitor waits for stop only, and misses a publisher that died
MonitorIgnoresExit(l) ==
    /\ pc[l] = "monitor"
    /\ \/ /\ ~running
          /\ Goto(l, IF kind = "picam" THEN "take" ELSE "await")
          /\ UNCHANGED requested
       \/ /\ running /\ held[l] \in Live
          /\ requested \/ active \notin {NoUrl, endpoint}
          /\ requested' = TRUE
          /\ Goto(l, IF kind = "picam" THEN "take" ELSE "kill")
    /\ UNCHANGED <<others, used, publishers, held, aim>>

\* mutant: only a requested reconnect ends the monitor, not a changed url
MonitorIgnoresMove(l) ==
    /\ pc[l] = "monitor"
    /\ \/ /\ ~running \/ held[l] \notin Live
          /\ Goto(l, IF kind = "picam" THEN "take" ELSE "await")
          /\ UNCHANGED requested
       \/ /\ running /\ held[l] \in Live
          /\ requested
          /\ Goto(l, IF kind = "picam" THEN "take" ELSE "kill")
          /\ UNCHANGED requested
    /\ UNCHANGED <<others, used, publishers, held, aim>>

\* mutant: a stopped loop ends without the teardown
MonitorSkipsTeardown(l) ==
    /\ pc[l] = "monitor"
    /\ \/ /\ ~running \/ held[l] \notin Live
          /\ Goto(l, IF ~running THEN "decide"
                     ELSE IF kind = "picam" THEN "take" ELSE "await")
          /\ UNCHANGED requested
       \/ /\ running /\ held[l] \in Live
          /\ requested \/ active \notin {NoUrl, endpoint}
          /\ requested' = TRUE
          /\ Goto(l, IF kind = "picam" THEN "take" ELSE "kill")
    /\ UNCHANGED <<others, used, publishers, held, aim>>

\* _monitor_picam_backend and _monitor_ffmpeg: until the publisher is gone, the
\* manager is stopped, or a reconnect is due
Monitor(l) ==
    /\ pc[l] = "monitor"
    /\ \/ /\ ~running \/ held[l] \notin Live
          /\ Goto(l, IF kind = "picam" THEN "take" ELSE "await")
          /\ UNCHANGED requested
       \/ /\ running /\ held[l] \in Live
          /\ requested \/ active \notin {NoUrl, endpoint}
          /\ requested' = TRUE
          /\ Goto(l, IF kind = "picam" THEN "take" ELSE "kill")
    /\ UNCHANGED <<others, used, publishers, held, aim>>

\* proc.wait(), without a limit
Await(l) ==
    /\ pc[l] = "await"
    /\ held[l] \notin Live
    /\ owned' = IF owned = held[l] THEN NoPub ELSE owned
    /\ Hold(l, NoPub)
    /\ Goto(l, "decide")
    /\ UNCHANGED <<others, used, requested, libcam, active, at, aim>>

\* end, reconnect at once, or back off
Decide(l) ==
    /\ pc[l] = "decide"
    /\ \/ ~running /\ Goto(l, "dead") /\ UNCHANGED <<requested, active>>
       \/ /\ running
          /\ Goto(l, IF requested THEN "top" ELSE "wait")
          /\ requested' = FALSE
          /\ active' = NoUrl
    /\ UNCHANGED <<others, used, owned, libcam, at, held, aim>>

Backoff(l) ==
    /\ pc[l] = "wait"
    /\ Goto(l, IF running THEN "top" ELSE "dead")
    /\ UNCHANGED <<others, used, requested, publishers, held, aim>>

LoopStep(l) ==
    \/ LoopTop(l) \/ SweepBefore(l) \/ Aim(l) \/ Warm(l) \/ LaunchPicam(l)
    \/ LaunchFfmpeg(l) \/ Publish(l) \/ Attach(l) \/ Monitor(l) \/ Await(l)
    \/ Decide(l) \/ Backoff(l)

-----------------------------------------------------------------------------
(* start, stop and their callers                                           *)

\* a call begins; it overlaps another one when the other caller is not idle
Call(c, label) ==
    /\ up
    /\ pc[c] = "idle"
    /\ disturbed' = (disturbed \/ \E d \in Callers : pc[d] # "idle")
    /\ Goto(c, label)

\* set_stream_state writes the state first ...
SetStreamState ==
    /\ Call(Control, "look")
    /\ Spend("asks")
    /\ desired' \in BOOLEAN
    /\ UNCHANGED <<world, running, reconnect, publishers, cur, held, aim, again,
                   born>>

\* ... and starts what is not streaming or stops what is
Look(c) ==
    /\ pc[c] = "look"
    /\ Goto(c, CASE desired /\ ~Streaming -> "begin"
                 [] ~desired /\ Streaming -> "stop"
                 [] desired = Streaming   -> "idle")
    /\ UNCHANGED <<world, desired, used, running, reconnect, publishers, cur,
                   held, aim, calls>>

\* set_config with a change to the stream: restart(), whatever is desired
SetConfig(c) ==
    /\ Call(c, "stop")
    /\ Spend("asks")
    /\ again' = [again EXCEPT ![c] = TRUE]
    /\ UNCHANGED <<world, desired, running, reconnect, publishers, cur, held,
                   aim, born>>

Stop(c) ==
    /\ pc[c] = "stop"
    /\ running' = FALSE
    /\ Goto(c, "unrequest")
    /\ UNCHANGED <<world, desired, used, reconnect, publishers, cur, held, aim,
                   calls>>

StopUnrequest(c) ==
    /\ pc[c] = "unrequest"
    /\ requested' = FALSE
    /\ Goto(c, "take")
    /\ UNCHANGED <<world, desired, used, running, watchdogs, publishers, cur,
                   held, aim, calls>>

\* the loop has ended, or has not within ten seconds; restart() goes on
StopJoin(c) ==
    /\ pc[c] = "join"
    /\ disturbed' = (disturbed \/ Alive(cur))
    /\ again' = [again EXCEPT ![c] = FALSE]
    /\ Goto(c, IF again[c] THEN "begin" ELSE "idle")
    /\ UNCHANGED <<world, desired, used, running, reconnect, publishers, cur,
                   held, aim, born>>

\* mutant: start() without the check for a loop that is alive
StartAlways(c) ==
    /\ pc[c] = "begin"
    /\ running' = TRUE
    /\ requested' = FALSE
    /\ \E l \in Fresh(FreeLoops) :
          /\ cur' = l
          /\ born' = [born EXCEPT ![c] = l]
    /\ Goto(c, "spawn")
    /\ UNCHANGED <<world, desired, used, watchdogs, publishers, held, aim,
                   again, disturbed>>

\* start(): a loop that is alive is only woken
Start(c) ==
    /\ pc[c] = "begin"
    /\ \/ /\ running /\ Alive(cur)
          /\ Goto(c, "idle")
          /\ UNCHANGED <<running, requested, cur, born>>
       \/ /\ ~(running /\ Alive(cur))
          /\ running' = TRUE
          /\ requested' = FALSE
          /\ \E l \in Fresh(FreeLoops) :
                /\ cur' = l
                /\ born' = [born EXCEPT ![c] = l]
          /\ Goto(c, "spawn")
    /\ UNCHANGED <<world, desired, used, watchdogs, publishers, held, aim,
                   again, disturbed>>

\* the thread object is started once the lock is released
StartSpawn(c) ==
    /\ pc[c] = "spawn"
    /\ pc' = [pc EXCEPT ![c] = "idle", ![born[c]] = "top"]
    /\ born' = [born EXCEPT ![c] = NoLoop]
    /\ UNCHANGED <<world, desired, used, running, reconnect, publishers, cur,
                   held, aim, again, disturbed>>

-----------------------------------------------------------------------------
(* Where the server is                                                     *)

\* a server with two addresses advertises the one on the camera's route, which
\* is taken to be the one its host name does not resolve to
Other(e)   == CHOOSE f \in Endpoints : f # e
Advertised == IF homes = 2 THEN Other(names) ELSE names

\* the server gets another address, and its name with it
ServerMoves ==
    /\ homes = 1
    /\ Spend("moves")
    /\ names' = Other(names)
    /\ UNCHANGED <<kind, desired, homes, endpoint, process>>

\* _ServerResolver._run: finds the server once, and tells nobody
EndpointResolved ==
    /\ up /\ ~resolved
    /\ resolved' = TRUE
    /\ endpoint' = names
    /\ UNCHANGED <<kind, desired, server, used, up, running, reconnect,
                   publishers, cur, pc, held, aim, calls>>

\* the heartbeat thread learns an address that is new to it
Learn(e) ==
    /\ endpoint # e
    /\ Call(Beat, "notify")
    /\ endpoint' = e
    /\ UNCHANGED <<kind, desired, server, used, up, resolved, running,
                   reconnect, publishers, cur, held, aim, again, born>>

\* _refresh_server_resolver resolves the name again, at every tick
EndpointRefreshed == Learn(names)

\* _apply_server_endpoint: a heartbeat's answer says where the server would
\* rather have the stream; a server that has moved is not there to answer
EndpointAdvertised == homes = 2 /\ Learn(Advertised)

\* _restart_stream_for_endpoint_change
Notify(c) ==
    /\ pc[c] = "notify"
    /\ Goto(c, CASE Streaming             -> "request"
                 [] ~Streaming /\ desired -> "request_start"
                 [] ~Streaming /\ ~desired -> "idle")
    /\ UNCHANGED <<world, desired, used, running, reconnect, publishers, cur,
                   held, aim, calls>>

\* request_endpoint_reconnect starts a new generation and arms its watchdog
RequestReconnect(c) ==
    /\ pc[c] \in {"request", "request_start"}
    /\ requested' = TRUE
    /\ watchdogs' = {"latest"} \cup {"older" : w \in watchdogs}
    /\ Goto(c, IF pc[c] = "request" THEN "idle" ELSE "begin")
    /\ UNCHANGED <<world, desired, used, running, publishers, cur, held, aim,
                   calls>>

\* _exit_if_endpoint_reconnect_stuck, twelve seconds after the request: a loop
\* that is alive and has not come round by then is stuck, which is a fault
TimerFires ==
    \E w \in watchdogs :
        \/ /\ requested /\ w = "latest"
           /\ \/ Alive(cur) /\ Spend("faults")
              \/ ~Alive(cur) /\ UNCHANGED used
           /\ Exit
        \/ /\ ~(requested /\ w = "latest")
           /\ watchdogs' = watchdogs \ {w}
           /\ UNCHANGED <<world, desired, used, running, requested, publishers,
                          cur, pc, held, aim, calls>>

CallerStep(c) ==
    \/ Look(c) \/ Stop(c) \/ StopUnrequest(c) \/ StopJoin(c) \/ Start(c)
    \/ StartSpawn(c) \/ Notify(c) \/ RequestReconnect(c)

-----------------------------------------------------------------------------
Next ==
    \/ Boot \/ ProcessEnds \/ ChildExits
    \/ \E t \in Threads : Teardown(t)
    \/ \E l \in Loops : LoopStep(l)
    \/ \E c \in Callers : CallerStep(c) \/ SetConfig(c)
    \/ SetStreamState \/ TimerFires
    \/ ServerMoves \/ EndpointResolved \/ EndpointRefreshed \/ EndpointAdvertised

Spec == Init /\ [][Next]_vars

\* systemd starts the process, its threads are scheduled, its timers fire, and
\* heartbeats go on: the name is resolved and an answer arrives again and again;
\* requests, moves and faults are bounded and owe nothing
Fairness ==
    /\ WF_vars(Boot) /\ WF_vars(TimerFires)
    /\ WF_vars(EndpointRefreshed) /\ WF_vars(EndpointAdvertised)
    /\ \A l \in Loops : WF_vars(LoopStep(l) \/ Teardown(l))
    /\ \A c \in Callers : WF_vars(CallerStep(c) \/ Teardown(c))

LiveSpec == Spec /\ Fairness

-----------------------------------------------------------------------------
(* Properties.  A backend that dies, a resolver that moves the endpoint and *)
(* a watchdog that fires interleave with the calls and the loop throughout. *)

\* no two calls of start and stop have overlapped and no stop has given up its
\* join; what follows assumes it where it says so, and a run that checks only
\* such properties need not look beyond a state that is not orderly
Orderly == ~disturbed

CallersIdle == \A c \in Callers : pc[c] = "idle"

\* One stream loop owns launching and teardown (request_endpoint_reconnect's
\* docstring): there are two only after calls of start or stop have overlapped
\* or stop has given up its join.
OneLoop ==
    Orderly => \A k, l \in Loops : Alive(k) /\ Alive(l) => k = l

\* What a state of the manager never is: badly typed, or in the hands of two loops
\* (start, stop, restart and _stream_loop sharing _running and _thread).
StreamInv == TypeOK /\ OneLoop

\* With the Picamera2 backend stop() is complete: when it has returned, having
\* joined the loop and met no other call, no loop is left and nothing publishes,
\* wherever in its start or backoff the loop was (stop, _teardown_picam_backend).
StopIsQuiet ==
    kind = "picam" /\ CallersIdle /\ Orderly /\ ~running
        => Live = {} /\ \A l \in Loops : ~Alive(l)

\* A camera that is to stream keeps coming back to publishing to where the
\* server is, through failed launches, crashes, restarts of the process,
\* configuration changes and moves of the server (_stream_loop, restart).
StreamsWhenDesired ==
    []Orderly /\ <>[]desired
        => []<>(\E p \in Pubs : at[p] \in {names, Advertised})

\* No publisher keeps a stale address for good: when a server with one address
\* moves, a running manager ends up publishing to where it is and nowhere else
\* (_terminate_stale_stream_publishers, _request_endpoint_reconnect_if_changed).
\* It must not come back to an address it has left in the course of one launch.
NoStalePublisher ==
    []Orderly /\ homes = 1
        => <>[](running => \A p \in Pubs : at[p] \in {NoUrl, names})

\* A camera that is to stream settles on the endpoint the server advertises: it
\* resolves the host name again only after failures or link events (ADR-0016).
SettlesAsAdvertised ==
    []Orderly /\ <>[]desired => <>[](\E p \in Pubs : at[p] = Advertised)

\* A camera whose state is "stopped" does not stream until the server explicitly
\* asks it to (lifecycle.py, _read_desired_stream_state; ADR-0017).
StaysStopped == []Orderly /\ <>[](~desired) => <>[](Live = {})

=============================================================================
