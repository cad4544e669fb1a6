-------------------------- MODULE MaintenanceRestart --------------------------
(***************************************************************************)
(* Scheduled and manual restarts of one appliance.  Server and camera have *)
(* the same loop: it wakes several times a minute, and when the wall clock *)
(* shows a scheduled minute it notes that minute, with its date, in a      *)
(* state file and lets a thread request the reboot a moment later.  The    *)
(* schedule recurs; the file has room for one minute, and is written       *)
(* without fsync.                                                          *)
(***************************************************************************)
EXTENDS Naturals
CONSTANTS
  Minutes,      \* bound: the last minute of the wall clock
  MinutesPerDay, DaysPerWeek,
  MaxReplans,   \* bound: edits of the schedule
  MaxMishaps    \* bound: manual reboots, power losses, failed reads and writes, setbacks, updates
ASSUME MinutesAssumption == Minutes \in Nat /\ {MinutesPerDay, DaysPerWeek} \subseteq Nat \ {0}
VARIABLES
  wall,         \* the wall clock's minute
  woken,        \* the loop has woken in this minute
  timetable,    \* restart_schedule: [on, at, days]
  lastKey,      \* _last_runtime_key
  mark,         \* restart_schedule_state.json
  check,        \* check_once in progress: [at, key]
  alarm,        \* reboot threads between their start and the request
  updating,     \* is_busy of the OTA service
  reboots,      \* history: per minute, the scheduled reboots
  unnoted,      \* history: minutes whose note was replaced, torn or not readable
  replans, mishaps
restartVars ==
  <<wall, woken, timetable, lastKey, mark, check, alarm, updating, reboots, unnoted, replans, mishaps>>

AllMinutes == 0..Minutes
None == Minutes + 1
NoCheck == [at |-> "asleep", key |-> None]

Times == 0..MinutesPerDay - 1
Weekdays == 0..DaysPerWeek - 1
Timetables == [on : BOOLEAN, at : Times, days : (SUBSET Weekdays) \ {{}}]

(* scheduled_minute_key: today's date and time, which no other minute has  *)
Scheduled ==
  /\ timetable.on /\ (wall \div MinutesPerDay) % DaysPerWeek \in timetable.days /\ wall % MinutesPerDay = timetable.at
ScheduledKey == IF Scheduled THEN wall ELSE None

RestartInit ==
  /\ wall = 0 /\ woken = FALSE /\ timetable = [on |-> FALSE, at |-> 0, days |-> {0}]
  /\ lastKey = None /\ mark = None /\ check = NoCheck /\ alarm = 0 /\ updating = FALSE
  /\ reboots = [m \in AllMinutes |-> 0] /\ unnoted = {} /\ replans = 0 /\ mishaps = 0

Mishap == mishaps < MaxMishaps /\ mishaps' = mishaps + 1

(* _state: a file that cannot be read or parsed counts as empty            *)
Noted(readable) == IF readable THEN mark ELSE None
HasRun(key, readable) == key = lastKey \/ key = Noted(readable)
Forget(minutes) == unnoted' = unnoted \union (minutes \ {None})

(* check_once up to the question whether an update is running              *)
Wake(readable) ==
  /\ check.at = "asleep" /\ woken' = TRUE
  /\ check' = IF ScheduledKey = None \/ HasRun(ScheduledKey, readable) THEN NoCheck
              ELSE [at |-> "blocked", key |-> ScheduledKey]
  /\ IF readable THEN UNCHANGED <<unnoted, mishaps>> ELSE Mishap /\ Forget({mark} \intersect {ScheduledKey})
  /\ UNCHANGED <<wall, timetable, lastKey, mark, alarm, updating, reboots, replans>>

AskBlocked ==
  /\ check.at = "blocked"
  /\ check' = [check EXCEPT !.at = IF updating THEN "skip" ELSE "mark"]
  /\ UNCHANGED <<wall, woken, timetable, lastKey, mark, alarm, updating, reboots, unnoted, replans, mishaps>>

(* _mark_run; the blocked branch ends here                                 *)
MarkRun ==
  /\ check.at \in {"skip", "mark"} /\ mark' = check.key /\ Forget({mark} \ {check.key})
  /\ check' = IF check.at = "skip" THEN NoCheck ELSE [check EXCEPT !.at = "arm"]
  /\ UNCHANGED <<wall, woken, timetable, lastKey, alarm, updating, reboots, replans, mishaps>>

(* The write raises and the loop goes back to sleep                        *)
MarkFails ==
  /\ check.at \in {"skip", "mark"} /\ Mishap /\ check' = NoCheck
  /\ UNCHANGED <<wall, woken, timetable, lastKey, mark, alarm, updating, reboots, unnoted, replans>>

(* _schedule_reboot_async, request_reboot_async                            *)
Arm ==
  /\ check.at = "arm" /\ check' = NoCheck /\ lastKey' = check.key
  /\ alarm' = alarm + 1 /\ reboots' = [reboots EXCEPT ![check.key] = @ + 1]
  /\ UNCHANGED <<wall, woken, timetable, mark, updating, unnoted, replans, mishaps>>

(* request_server_reboot: not held up by an update                         *)
RequestReboot ==
  /\ Mishap /\ alarm' = alarm + 1
  /\ UNCHANGED <<wall, woken, timetable, lastKey, mark, check, updating, reboots, unnoted, replans>>

(* What a restart leaves: the file and the schedule                        *)
Booted ==
  /\ lastKey' = None /\ check' = NoCheck /\ alarm' = 0 /\ updating' = FALSE /\ woken' = FALSE
  /\ UNCHANGED <<wall, timetable, reboots, replans>>

Reboot == alarm > 0 /\ Booted /\ UNCHANGED <<mark, unnoted, mishaps>>

(* _write_state does not sync the file before it puts it in place          *)
PowerLoss(torn) ==
  /\ Mishap /\ Booted
  /\ IF torn THEN mark' = None /\ Forget({mark}) ELSE UNCHANGED <<mark, unnoted>>

(* The helper refuses the reboot; the thread logs it and ends              *)
RebootFails ==
  /\ alarm > 0 /\ Mishap /\ alarm' = alarm - 1
  /\ UNCHANGED <<wall, woken, timetable, lastKey, mark, check, updating, reboots, unnoted, replans>>

(* update_server_schedule, set_config and PUT /api/restart-schedule        *)
Replan(new) ==
  /\ replans < MaxReplans /\ replans' = replans + 1 /\ timetable' = new
  /\ UNCHANGED <<wall, woken, lastKey, mark, check, alarm, updating, reboots, unnoted, mishaps>>

StartUpdate ==
  /\ ~updating /\ Mishap /\ updating' = TRUE
  /\ UNCHANGED <<wall, woken, timetable, lastKey, mark, check, alarm, reboots, unnoted, replans>>

UpdateEnds ==
  /\ updating /\ updating' = FALSE
  /\ UNCHANGED <<wall, woken, timetable, lastKey, mark, check, alarm, reboots, unnoted, replans, mishaps>>

(* The loop wakes in every minute (check_interval_seconds = 20)            *)
MinutePasses ==
  /\ wall < Minutes /\ woken /\ check.at = "asleep" /\ wall' = wall + 1 /\ woken' = FALSE
  /\ UNCHANGED <<timetable, lastKey, mark, check, alarm, updating, reboots, unnoted, replans, mishaps>>

(* The wall clock is set back, by the end of summer time or at a boot      *)
SetBack(earlier) ==
  /\ earlier < wall /\ Mishap /\ wall' = earlier /\ woken' = FALSE
  /\ UNCHANGED <<timetable, lastKey, mark, check, alarm, updating, reboots, unnoted, replans>>

RestartNext ==
  \/ AskBlocked \/ MarkRun \/ MarkFails \/ Arm \/ RequestReboot \/ Reboot \/ RebootFails
  \/ StartUpdate \/ UpdateEnds \/ MinutePasses
  \/ \E readable \in BOOLEAN : Wake(readable)
  \/ \E torn \in BOOLEAN : PowerLoss(torn)
  \/ \E earlier \in AllMinutes : SetBack(earlier)
  \/ \E new \in Timetables : Replan(new)

RestartTypeOK ==
  /\ wall \in AllMinutes /\ timetable \in Timetables
  /\ {woken, updating} \subseteq BOOLEAN /\ {lastKey, mark, check.key} \subseteq 0..None
  /\ check.at \in {"asleep", "blocked", "skip", "mark", "arm"} /\ alarm \in Nat
  /\ reboots \in [AllMinutes -> Nat] /\ unnoted \subseteq AllMinutes

(* A scheduled minute brings at most one reboot while its note stands,     *)
(* although the appliance is back before the minute is over, loses power   *)
(* between noting the minute and rebooting, has its schedule edited to it  *)
(* again or sets its clock back: check_once, _has_run, _mark_run.          *)
OncePerMinute == \A m \in AllMinutes \ unnoted : reboots[m] <= 1

(* "execute each scheduled minute only once" (violated: the note of a      *)
(* minute is lost when it is torn or not readable, and to the minute of a  *)
(* later day before the clock is set back)                                 *)
EveryMinuteOnce == \A m \in AllMinutes : reboots[m] <= 1

(* "Scheduled restarts are skipped while OTA work is busy" (violated: the  *)
(* question is asked before the delay, and not at all for a manual reboot) *)
SkippedWhileBusy == [][Reboot => ~updating]_restartVars
=============================================================================
