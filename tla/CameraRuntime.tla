---------------------------- MODULE CameraRuntime ----------------------------
(***************************************************************************)
(* The camera's process: the lifecycle on the main thread, the notifier    *)
(* that pings systemd's watchdog while the lifecycle makes progress, the   *)
(* health thread, the signal handler and systemd.  Time passes in ticks    *)
(* of five seconds.  The main thread records a beat under the notifier's   *)
(* lock; a signal handler runs on the main thread, in the middle of what   *)
(* it does.                                                                *)
(***************************************************************************)
EXTENDS Naturals
CONSTANTS
  Interval,     \* ticks between two looks of the notifier (WATCHDOG_USEC / 3)
  Freshness,    \* ticks a beat counts (WATCHDOG_USEC / 2)
  WatchdogSec,  \* ticks systemd waits for a ping (WATCHDOG_USEC)
  Lap           \* ticks a turn of a main loop may take
ASSUME TimingAssumption ==
  /\ {Interval, Freshness, WatchdogSec, Lap} \subseteq Nat
  /\ Lap < Freshness /\ 0 < Interval /\ Interval + Freshness <= WatchdogSec
VARIABLES
  phase,        \* State of the lifecycle; "gone" when the process is
  setUp, paired,\* the stamp and the certificates
  locked,       \* the main thread is inside beat
  stuck,        \* the main thread hangs in a call
  signal,       \* _handle_signal: "none", "enter", "join" or "done"
  armed,        \* the forced exit's timer
  ready, stopping, \* READY=1 and STOPPING=1 have been sent
  notifying,    \* the notifier's thread runs
  beats,        \* _beats: ticks since the latest beat
  rest, unpinged, \* ticks since the notifier's last look and since the last ping
  slow          \* history: since the last ping no beat came for Freshness ticks
runtimeVars == <<phase, setUp, paired, locked, stuck, signal, armed, ready, stopping,
                 notifying, beats, rest, unpinged, slow>>

Looping == {"setup", "pairing", "connecting", "running"}
Capped(n, cap) == IF n < cap THEN n + 1 ELSE n

NewProcess ==
  /\ phase' = "init" /\ locked' = FALSE /\ stuck' = FALSE /\ signal' = "none" /\ armed' = FALSE
  /\ ready' = FALSE /\ stopping' = FALSE /\ notifying' = TRUE
  /\ beats' = [main |-> Freshness, health |-> Freshness] /\ rest' = 0 /\ unpinged' = 0 /\ slow' = FALSE

RuntimeInit ==
  /\ phase = "init" /\ setUp \in BOOLEAN /\ paired \in BOOLEAN /\ locked = FALSE /\ stuck = FALSE
  /\ signal = "none" /\ armed = FALSE /\ ready = FALSE /\ stopping = FALSE /\ notifying = TRUE
  /\ beats = [main |-> Freshness, health |-> Freshness] /\ rest = 0 /\ unpinged = 0 /\ slow = FALSE

Alive == phase # "gone"
Flag == signal # "none"
(* The main thread runs lifecycle code                                     *)
Free == Alive /\ ~stuck /\ signal \in {"none", "done"}

(* run: the handlers in their order, each left when its condition holds    *)
Order == [init |-> "setup", setup |-> "pairing", pairing |-> "connecting", connecting |-> "validating",
          validating |-> "starting", starting |-> "running"]
Done == CASE phase = "setup" -> setUp [] phase = "pairing" -> paired [] phase = "running" -> FALSE
          [] OTHER -> phase # "teardown"
(* mark_ready in _do_setup, _do_pairing and _do_running                    *)
MarksReady(p) == (p = "setup" /\ ~setUp) \/ (p = "pairing" /\ ~paired) \/ p = "running"

Advance ==
  /\ Free /\ ~locked /\ ~Flag /\ Done /\ phase' = Order[phase]
  /\ ready' = (ready \/ MarksReady(phase')) /\ unpinged' = IF ready' # ready THEN 0 ELSE unpinged
  /\ UNCHANGED <<setUp, paired, locked, stuck, signal, armed, stopping, notifying, beats, rest, slow>>

(* The wizard and the pairing page, on other threads                       *)
SetupDone ==
  /\ phase = "setup" /\ ~setUp /\ setUp' = TRUE
  /\ UNCHANGED <<phase, paired, locked, stuck, signal, armed, ready, stopping, notifying, beats, rest, unpinged, slow>>
PairingDone ==
  /\ phase = "pairing" /\ ~paired /\ paired' = TRUE
  /\ UNCHANGED <<phase, setUp, locked, stuck, signal, armed, ready, stopping, notifying, beats, rest, unpinged, slow>>

(* beat, from the lock to its release                                      *)
BeginBeat ==
  /\ Free /\ phase \in Looping /\ ~Flag /\ ~locked /\ beats.main > 0 /\ locked' = TRUE
  /\ UNCHANGED <<phase, setUp, paired, stuck, signal, armed, ready, stopping, notifying, beats, rest, unpinged, slow>>
EndBeat ==
  /\ Free /\ locked /\ locked' = FALSE /\ beats' = [beats EXCEPT !.main = 0]
  /\ UNCHANGED <<phase, setUp, paired, stuck, signal, armed, ready, stopping, notifying, rest, unpinged, slow>>

(* _health_loop: a thread of its own, which goes on when the main one hangs *)
HealthBeat ==
  /\ Alive /\ phase \in {"running", "teardown"} /\ ~locked /\ beats.health > 0
  /\ beats' = [beats EXCEPT !.health = 0]
  /\ UNCHANGED <<phase, setUp, paired, locked, stuck, signal, armed, ready, stopping, notifying, rest, unpinged, slow>>

(* A call on the main thread does not return                               *)
Hang ==
  /\ Free /\ ~locked /\ stuck' = TRUE
  /\ UNCHANGED <<phase, setUp, paired, locked, signal, armed, ready, stopping, notifying, beats, rest, unpinged, slow>>

(* SIGTERM: systemd's, an unpairing's                                      *)
Signalled(unpaired) ==
  /\ Alive /\ ~stuck /\ signal = "none" /\ signal' = "enter" /\ paired' = (paired /\ ~unpaired)
  /\ (unpaired => phase = "running")
  /\ UNCHANGED <<phase, setUp, locked, stuck, armed, ready, stopping, notifying, beats, rest, unpinged, slow>>

(* _handle_signal calls the notifier's stop, which needs the lock          *)
StopNotifier ==
  /\ Alive /\ signal = "enter" /\ ~locked /\ signal' = "join" /\ stopping' = ready /\ notifying' = FALSE
  /\ UNCHANGED <<phase, setUp, paired, locked, stuck, armed, ready, beats, rest, unpinged, slow>>
ArmExit ==
  /\ Alive /\ signal = "join" /\ signal' = "done" /\ armed' = TRUE
  /\ UNCHANGED <<phase, setUp, paired, locked, stuck, ready, stopping, notifying, beats, rest, unpinged, slow>>

(* _revert_to_setup: no address within WIFI_TIMEOUT; the stamp may stay    *)
Revert(removed) ==
  /\ phase = "connecting" /\ Free /\ ~locked /\ ~Flag
  /\ setUp' = ~removed /\ signal' = "enter" /\ phase' = "teardown"
  /\ UNCHANGED <<paired, locked, stuck, armed, ready, stopping, notifying, beats, rest, unpinged, slow>>

Teardown ==
  /\ Free /\ ~locked /\ Flag /\ phase # "teardown" /\ phase' = "teardown"
  /\ UNCHANGED <<setUp, paired, locked, stuck, signal, armed, ready, stopping, notifying, beats, rest, unpinged, slow>>

Leave ==
  /\ phase' = "gone"
  /\ UNCHANGED <<setUp, paired, locked, stuck, signal, armed, ready, stopping, notifying, beats, rest, unpinged, slow>>
ShutdownEnds == Free /\ phase = "teardown" /\ Leave
ForceExit == Alive /\ armed /\ Leave
(* A second signal, the handler of the first one waiting for a lock or not *)
SecondSignal == Alive /\ ~stuck /\ Flag /\ Leave

\* mutant of Gate: the health thread's beats count too
GateWithHealth == {"main", "health"}

(* gate_components, all four of them on the main thread                    *)
Gate == {"main"}

(* _fresh_component                                                        *)
Progress == \E c \in Gate : beats[c] < Freshness

(* _tick of the notifier                                                   *)
Look ==
  /\ Alive /\ notifying /\ ~locked /\ rest = Interval /\ rest' = 0
  /\ IF ready /\ Progress THEN unpinged' = 0 /\ slow' = FALSE ELSE UNCHANGED <<unpinged, slow>>
  /\ UNCHANGED <<phase, setUp, paired, locked, stuck, signal, armed, ready, stopping, notifying, beats>>

(* systemd: no ping for WatchdogSec; no READY=1 in time; no end in time    *)
Watched == Alive /\ ready /\ ~stopping
WatchdogKill == Watched /\ unpinged = WatchdogSec /\ Leave
StartTimeout == Alive /\ ~ready /\ (stuck \/ (Flag /\ locked)) /\ Leave
StopTimeout == Alive /\ stopping /\ Leave
(* Restart=always                                                          *)
Respawn == phase = "gone" /\ NewProcess /\ UNCHANGED <<setUp, paired>>

(* Nothing that is due is late: a turn of a main loop, the notifier's look,*)
(* a lock held by a running thread, systemd's watchdog                     *)
TimePasses ==
  /\ Alive /\ ~(Free /\ locked) /\ ~(Free /\ ~Flag /\ phase \in Looping /\ beats.main >= Lap)
  /\ ~(notifying /\ ~locked /\ rest = Interval) /\ ~(Watched /\ unpinged = WatchdogSec)
  /\ beats' = [c \in {"main", "health"} |-> Capped(beats[c], Freshness)]
  /\ rest' = Capped(rest, Interval) /\ unpinged' = Capped(unpinged, WatchdogSec)
  /\ slow' = (slow \/ (ready /\ beats'.main = Freshness))
  /\ UNCHANGED <<phase, setUp, paired, locked, stuck, signal, armed, ready, stopping, notifying>>

Systemd == WatchdogKill \/ StartTimeout \/ StopTimeout \/ Respawn
RuntimeNext ==
  \/ Advance \/ SetupDone \/ PairingDone \/ BeginBeat \/ EndBeat \/ HealthBeat \/ Hang
  \/ StopNotifier \/ ArmExit \/ Teardown \/ ShutdownEnds \/ ForceExit \/ SecondSignal \/ Look \/ TimePasses \/ Systemd
  \/ \E b \in BOOLEAN : Signalled(b) \/ Revert(b)

(* Time passes, the notifier's thread and systemd act                      *)
RuntimeFairness == WF_runtimeVars(TimePasses) /\ WF_runtimeVars(Look) /\ WF_runtimeVars(Systemd)
RuntimeSpec == RuntimeInit /\ [][RuntimeNext]_runtimeVars /\ RuntimeFairness

RuntimeTypeOK ==
  /\ phase \in Looping \cup {"init", "validating", "starting", "teardown", "gone"}
  /\ {setUp, paired, locked, stuck, armed, ready, stopping, notifying, slow} \subseteq BOOLEAN
  /\ signal \in {"none", "enter", "join", "done"}
  /\ beats \in [{"main", "health"} -> 0..Freshness]
  /\ rest \in 0..Interval /\ unpinged \in 0..WatchdogSec

(* A main thread that hangs, or that its own signal handler has locked out *)
(* of the notifier, does not hold the process for ever, whatever the other *)
(* threads keep doing: beat, _fresh_component, _handle_signal.             *)
WedgedIsKilled == stuck \/ (signal = "enter" /\ locked) ~> ~Alive

(* systemd kills no camera whose main thread has beaten in time since the  *)
(* last ping: the notifier looks often enough for the beats to be pinged   *)
(* before they are old (_run_loop, _tick, _fresh_component).               *)
KillIsEarned == [][WatchdogKill => slow]_runtimeVars

(* "we force the process to exit" within eight seconds of SIGTERM          *)
(* (violated: the handler that arms the timer waits for the lock the main  *)
(* thread holds beneath it)                                                *)
ExitsByItself == [][WatchdogKill => signal = "none"]_runtimeVars
=============================================================================
