----------------------------- MODULE ConfigSync -----------------------------
(***************************************************************************)
(* A camera's configuration, kept twice: in the server's camera record and *)
(* in the camera's own file.  Both can be edited.  The server pushes its   *)
(* edits, the camera notifies of its own, and every heartbeat carries the  *)
(* camera's values up and what the server still owes it down.  Every       *)
(* handler on the server copies the record, works on the copy and saves    *)
(* the whole of it.                                                        *)
(*   pipe    the stream fields, which heartbeats and notices report        *)
(*   motion  motion sensitivity and detection and the image controls,      *)
(*           which they do not                                             *)
(*   plan    the restart schedule, stamped in seconds by the side that     *)
(*           edited it                                                     *)
(***************************************************************************)
EXTENDS Naturals, FiniteSets
CONSTANTS
  MaxEdits,     \* bound: edits on either side
  MaxLosses,    \* bound: lost messages, refused or unanswered pushes, answers not applied
  Lag           \* seconds by which the camera's clock is behind
ASSUME SyncBounds == {MaxEdits, MaxLosses, Lag} \subseteq Nat
VARIABLES
  record,       \* store: the camera's record
  camera,       \* the camera's configuration file
  update,       \* CameraService.update in progress
  beat,         \* the camera's heartbeat on its way, and its handler
  owed,         \* notices whose thread has not read the configuration yet
  notices,      \* notices under way
  taking,       \* the handler of a notice
  clock,        \* seconds, the server's
  wanted,       \* history: the latest value asked for, field by field
  raced,        \* history: two edits or two handlers overlapped, or an edit's
                \* stamp was not newer than the schedule it replaced
  edits, losses
syncVars == <<record, camera, update, beat, owed, notices, taking, clock, wanted, raced, edits, losses>>

Fields == {"pipe", "motion", "plan"}
Plan(v, at) == [value |-> v, at |-> at]
Config(r) == [pipe |-> r.pipe, motion |-> r.motion, plan |-> r.plan]
NotBusy == [at |-> "idle"]
(* is_schedule_newer                                                       *)
Newer(p, q) == p.at > q.at

SyncInit ==
  /\ camera = [pipe |-> 0, motion |-> 0, plan |-> Plan(0, 0)]
  /\ record = [pipe |-> 0, motion |-> 0, plan |-> Plan(0, 0), sync |-> "synced"]
  /\ update = NotBusy /\ beat = NotBusy /\ owed = 0 /\ notices = {} /\ taking = NotBusy
  /\ clock = Lag + 1 /\ wanted = [f \in Fields |-> 0] /\ raced = FALSE
  /\ edits = 0 /\ losses = 0

NothingUnderWay ==
  /\ update.at = "idle" /\ beat.at = "idle" /\ owed = 0 /\ notices = {} /\ taking.at = "idle"
  /\ record.sync = "synced"

(* A new edit of field f on a side that is late seconds behind; two edits  *)
(* may fall into one second                                                *)
Edit(f, late) ==
  /\ edits < MaxEdits /\ edits' = edits + 1 /\ clock' \in {clock, clock + 1}
  /\ wanted' = [wanted EXCEPT ![f] = edits + 1]
  /\ raced' = \/ raced \/ ~NothingUnderWay \/ Config(record) # camera
              \/ f = "plan" /\ clock' - late <= record.plan.at

Edited(r, f, at) ==
  [r EXCEPT ![f] = IF f = "plan" THEN Plan(edits + 1, at) ELSE edits + 1]

(* CameraService.update, up to the push                                    *)
BeginUpdate(f) ==
  /\ update.at = "idle" /\ Edit(f, 0)
  /\ update' = [at |-> "push", field |-> f, seen |-> record, new |-> Edited(record, f, clock')]
  /\ UNCHANGED <<record, camera, beat, owed, notices, taking, losses>>

(* ControlHandler.set_config writes the values that differ; a schedule is  *)
(* taken whatever its stamp                                                *)
Apply(values) == camera' = [f \in Fields |-> IF f \in DOMAIN values THEN values[f] ELSE camera[f]]

Pushed(sync) == update' = [update EXCEPT !.at = "save", !.new.sync = sync]

Push ==
  /\ update.at = "push"
  /\ Apply([f \in {update.field} |-> update.new[f]])
  /\ Pushed("synced")
  /\ UNCHANGED <<record, beat, owed, notices, taking, clock, wanted, raced, edits, losses>>

(* The camera is away or rate limits the change; its answer is lost; or it *)
(* presents another certificate                                            *)
PushFails(applied, sync) ==
  /\ update.at = "push" /\ losses < MaxLosses /\ losses' = losses + 1
  /\ IF applied THEN Apply([f \in {update.field} |-> update.new[f]]) ELSE UNCHANGED camera
  /\ Pushed(sync)
  /\ UNCHANGED <<record, beat, owed, notices, taking, clock, wanted, raced, edits>>

(* save_camera of a copy taken earlier                                     *)
Save(seen, new) == record' = new /\ raced' = (raced \/ record # seen)

EndUpdate ==
  /\ update.at = "save" /\ Save(update.seen, update.new) /\ update' = NotBusy
  /\ UNCHANGED <<camera, beat, owed, notices, taking, clock, wanted, edits, losses>>

(* PUT /api/stream-config and /api/restart-schedule on the camera          *)
LocalEdit(f) ==
  /\ Edit(f, Lag) /\ camera' = Edited(camera, f, clock' - Lag) /\ owed' = owed + 1
  /\ UNCHANGED <<record, update, beat, notices, taking, losses>>

(* notify_config_change reads the configuration when its thread runs       *)
SendNotice ==
  /\ owed > 0 /\ owed' = owed - 1
  /\ notices' = notices \cup {[pipe |-> camera.pipe, plan |-> camera.plan]}
  /\ UNCHANGED <<record, camera, update, beat, taking, clock, wanted, raced, edits, losses>>

LoseNotice(n) ==
  /\ n \in notices /\ notices' = notices \ {n} /\ losses < MaxLosses /\ losses' = losses + 1
  /\ UNCHANGED <<record, camera, update, beat, owed, taking, clock, wanted, raced, edits>>

(* accept_camera_config                                                    *)
Accepted(r, n) ==
  [r EXCEPT !.pipe = n.pipe,
            !.plan = IF Newer(n.plan, @) \/ n.plan.at = @.at THEN n.plan ELSE @,
            !.sync = IF @ = "trust_lost" THEN @ ELSE "synced"]

TakeNotice(n) ==
  /\ n \in notices /\ taking.at = "idle" /\ notices' = notices \ {n}
  /\ taking' = [at |-> "save", seen |-> record, new |-> Accepted(record, n)]
  /\ UNCHANGED <<record, camera, update, beat, owed, clock, wanted, raced, edits, losses>>

SaveNotice ==
  /\ taking.at = "save" /\ Save(taking.seen, taking.new) /\ taking' = NotBusy
  /\ UNCHANGED <<camera, update, beat, owed, notices, clock, wanted, edits, losses>>

(* HeartbeatSender._build_payload and _send                                *)
SendBeat ==
  /\ beat.at = "idle" /\ beat' = [at |-> "sent", pipe |-> camera.pipe, plan |-> camera.plan]
  /\ UNCHANGED <<record, camera, update, owed, notices, taking, clock, wanted, raced, edits, losses>>

LoseBeat ==
  /\ beat.at \in {"sent", "reply"} /\ beat' = NotBusy /\ losses < MaxLosses /\ losses' = losses + 1
  /\ UNCHANGED <<record, camera, update, owed, notices, taking, clock, wanted, raced, edits>>

\* mutant of Reported: a heartbeat overwrites what the server still owes the camera
ReportedAlways(r, b) == [r EXCEPT !.pipe = b.pipe, !.sync = "synced"]

(* _heartbeat_stream_config_matches: the fields that the camera reports    *)
Matching(r, b) == r.pipe = b.pipe

(* accept_heartbeat: stream fields.  A pending change is over when the     *)
(* reported fields are the recorded ones.                                  *)
Reported(r, b) ==
  CASE r.sync = "pending" -> [r EXCEPT !.sync = IF Matching(r, b) THEN "synced" ELSE "pending"]
    [] r.sync = "trust_lost" -> r
    [] OTHER -> [r EXCEPT !.pipe = b.pipe, !.sync = "synced"]

(* accept_heartbeat: the schedule                                          *)
Adopted(r, b) == [r EXCEPT !.plan = IF Newer(b.plan, @) THEN b.plan ELSE @]

(* What the answer carries: all fields while a change is pending, the      *)
(* schedule whenever the server's is newer                                 *)
Answer(r, b) ==
  [f \in (IF r.sync = "pending" THEN Fields ELSE {})
           \cup (IF Newer(r.plan, b.plan) THEN {"plan"} ELSE {}) |-> r[f]]

TakeBeat ==
  /\ beat.at = "sent"
  /\ LET new == Reported(Adopted(record, beat), beat)
     IN beat' = [at |-> "save", seen |-> record, new |-> new, answer |-> Answer(new, beat),
                 twice |-> Newer(new.plan, beat.plan)]
  /\ UNCHANGED <<record, camera, update, owed, notices, taking, clock, wanted, raced, edits, losses>>

(* The record is saved a second time when the answer carries the schedule  *)
SaveBeat ==
  /\ beat.at = "save" /\ Save(beat.seen, beat.new)
  /\ beat' = IF beat.twice THEN [beat EXCEPT !.twice = FALSE, !.seen = beat.new]
             ELSE [at |-> "reply", answer |-> beat.answer]
  /\ UNCHANGED <<camera, update, owed, notices, taking, clock, wanted, edits, losses>>

(* _apply_pending_config, with its notice                                  *)
TakeAnswer ==
  /\ beat.at = "reply" /\ beat' = NotBusy
  /\ Apply(beat.answer)
  /\ owed' = owed + (IF DOMAIN beat.answer = {} THEN 0 ELSE 1)
  /\ UNCHANGED <<record, update, notices, taking, clock, wanted, raced, edits, losses>>

(* What the answer carries is invalid or set_config fails: no notice       *)
RefuseAnswer ==
  /\ beat.at = "reply" /\ DOMAIN beat.answer # {} /\ beat' = NotBusy
  /\ losses < MaxLosses /\ losses' = losses + 1
  /\ UNCHANGED <<record, camera, update, owed, notices, taking, clock, wanted, raced, edits>>

(* A new pairing gives trust back                                          *)
Repair ==
  /\ record.sync = "trust_lost" /\ record' = [record EXCEPT !.sync = "pending"]
  /\ UNCHANGED <<camera, update, beat, owed, notices, taking, clock, wanted, raced, edits, losses>>

ServerSyncs == Push \/ EndUpdate \/ SaveNotice \/ (\E n \in notices : TakeNotice(n))
Beats == SendBeat \/ TakeBeat \/ SaveBeat \/ TakeAnswer

SyncNext ==
  \/ \E f \in Fields : BeginUpdate(f) \/ LocalEdit(f)
  \/ PushFails(TRUE, "pending") \/ PushFails(FALSE, "pending") \/ PushFails(FALSE, "trust_lost")
  \/ SendNotice \/ (\E n \in notices : LoseNotice(n)) \/ RefuseAnswer \/ LoseBeat \/ Repair
  \/ ServerSyncs \/ Beats

(* Handlers end, the camera keeps sending heartbeats, and messages are     *)
(* lost finitely often                                                     *)
SyncFairness ==
  WF_syncVars(ServerSyncs) /\ WF_syncVars(Beats) /\ WF_syncVars(SendNotice)

SyncTypeOK ==
  /\ Config(record).pipe \in 0..MaxEdits /\ record.motion \in 0..MaxEdits
  /\ record.sync \in {"synced", "pending", "trust_lost"}
  /\ camera.pipe \in 0..MaxEdits /\ camera.motion \in 0..MaxEdits
  /\ \A p \in {record.plan, camera.plan} : p.value \in 0..MaxEdits /\ p.at \in 0..(Lag + MaxEdits + 1)
  /\ update.at \in {"idle", "push", "save"} /\ taking.at \in {"idle", "save"}
  /\ beat.at \in {"idle", "sent", "save", "reply"} /\ owed \in Nat /\ losses \in 0..MaxLosses

(* While the camera is trusted, the stream fields of record and camera     *)
(* agree in the end, and so do the stamps of the schedules, whatever edits *)
(* and handlers overlapped and whatever was lost: accept_heartbeat and     *)
(* _apply_pending_config.                                                  *)
Converges ==
  <>[](record.sync # "trust_lost") =>
    <>[](record.pipe = camera.pipe /\ record.sync = "synced" /\ record.plan.at = camera.plan.at)

(* An edit that nothing else overlapped holds: the camera comes to have    *)
(* the stream fields and the schedule last asked for, on whichever side,   *)
(* whichever pushes, notices, heartbeats and answers were lost: update,    *)
(* accept_heartbeat, accept_camera_config and _apply_pending_config.       *)
LastEditHolds ==
  <>[](record.sync # "trust_lost" /\ ~raced) =>
    <>[](camera.pipe = wanted["pipe"] /\ camera.plan.value = wanted["plan"])

(* "Cameras whose pending state is gated on those other fields fall        *)
(* through to the camera-side fix" (violated: the reported fields match,   *)
(* the change counts as delivered, and the camera never gets it)           *)
MotionArrives == <>[](record.motion = camera.motion)

(* "the latest edit wins from either UI" (violated: schedules are compared *)
(* by stamps that count seconds, of two clocks)                            *)
LatestPlanWins == <>[](record.plan.value = wanted["plan"] /\ camera.plan.value = wanted["plan"])
=============================================================================
