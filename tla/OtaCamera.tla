------------------------------ MODULE OtaCamera ------------------------------
(***************************************************************************)
(* A camera's updates: two transports that receive a bundle (the OTA agent *)
(* on 8080, the status page on 443), the spool they share, the privileged  *)
(* installer that a trigger file starts, the A/B boot, and the streamer    *)
(* process that is stopped, restarted and cut off on the way.              *)
(***************************************************************************)
EXTENDS Naturals, FiniteSets

CONSTANTS
  Versions,     \* version numbers, see CameraFirmware
  Partial,      \* an incomplete or mixed bundle or image
  Transports,   \* upload handlers, each serving one request at a time
  MaxUploads,   \* bound: uploads that are begun
  MaxCuts,      \* bound: power cuts and streamer crashes
  BootLimit     \* attempts after which the boot loader falls back (3 in boot.cmd.in)

ASSUME CameraAssumption ==
  /\ Versions \subseteq Nat /\ Partial \notin Versions
  /\ BootLimit \in Nat \ {0} /\ MaxUploads \in Nat /\ MaxCuts \in Nat

None == "none"
Files == 1 .. (2 + Cardinality(Transports))   \* enough inodes for tmp, dst and every handle

VARIABLES
  status,    \* status.json: [state, target, aged]; aged: too old for a reboot under way
  trigger,   \* the trigger file exists
  edge,      \* the path unit has seen it being written
  marker,    \* the activation marker exists
  tmp, dst,  \* inode of update.swu.partial and of update.swu, 0 when there is none
  content,   \* content of each inode: a version or Partial
  upload,    \* of each transport: [pc, v, file]
  installer, \* where the installer script is
  up,        \* the streamer process runs
  running,   \* the image that was started last; Partial: the board hangs
  boot,      \* the image in the slot of boot_slot, which is started next
  other,     \* the image in the other slot, Partial while it is overwritten
  trial,     \* upgrade_available
  attempts,  \* boot_count
  checking,  \* this boot's swupdate-check.sh is about to judge a trial
  uploads, cuts,
  risked,    \* history: the standby slot was overwritten during a trial
  lost,      \* a cut, a crash or a lagging handler has left a status nobody will replace
  collided   \* two uploads have been inside stage_bundle together

spool == <<status, trigger, edge, marker, tmp, dst, content>>
slots == <<running, boot, other, trial, attempts, checking>>
vars == <<spool, upload, installer, up, slots, uploads, cuts, risked, lost, collided>>

InUpload == {"checked", "open", "received", "allowed", "staged", "triggered"}
NoUpload == [pc |-> "none", v |-> 0, file |-> 0]
NoStatus == [state |-> "idle", target |-> 0, aged |-> TRUE]

TypeOK ==
  /\ status \in [state : {"idle", "downloading", "verifying", "installing", "rebooting", "error"},
                 target : Versions \cup {0}, aged : BOOLEAN]
  /\ {trigger, edge, marker, up, trial, checking, risked, lost, collided} \subseteq BOOLEAN
  /\ {tmp, dst} \subseteq Files \cup {0}
  /\ content \in [Files -> Versions \cup {Partial}]
  /\ upload \in [Transports -> [pc : InUpload \cup {"none"}, v : Versions \cup {0}, file : Files \cup {0}]]
  /\ installer \in {None, "begun", "verify", "write", "written", "flipped", "reboot"}
  /\ {running, boot, other} \subseteq Versions \cup {Partial}
  /\ attempts \in 0 .. BootLimit
  /\ uploads \in 0 .. MaxUploads /\ cuts \in 0 .. MaxCuts

Init ==
  /\ status = NoStatus /\ trigger = FALSE /\ edge = FALSE /\ marker = FALSE
  /\ tmp = 0 /\ dst = 0 /\ content = [f \in Files |-> Partial]
  /\ upload = [t \in Transports |-> NoUpload]
  /\ installer = None /\ up = FALSE
  /\ running \in Versions /\ boot = running /\ other = running
  /\ trial = FALSE /\ attempts = 0 /\ checking = FALSE
  /\ uploads = 0 /\ cuts = 0 /\ risked = FALSE /\ lost = FALSE /\ collided = FALSE
-----------------------------------------------------------------------------
(* a reboot's status that has outlived the reboot *)
Stale ==
  /\ status.state \in {"rebooting", "validating"}
  /\ ~marker /\ ~trigger /\ status.aged

ReadStatus ==
  LET state == IF Stale THEN "idle" ELSE status.state
  IN  IF marker /\ state = "idle" THEN "validating" ELSE state

IsBusy ==
  trigger \/ ReadStatus \in {"downloading", "verifying", "installing", "rebooting", "validating"}

(* what a poller of the camera is promised *)
Firmware == INSTANCE CameraFirmware WITH
  image <- running, next <- boot, prior <- other, NoImage <- Partial,
  phase <- IF ~up THEN "gone" ELSE IF IsBusy THEN "busy"
           ELSE IF ReadStatus = "error" THEN "error" ELSE "idle"

(* ota_policy, as the camera uses it *)
CameraPolicy(target) == Firmware!Classify(running, target)

WriteStatus(state, target) == status' = [state |-> state, target |-> target, aged |-> FALSE]

(* the installer's write keeps the target version it finds in the file *)
InstallerStatus(state) == WriteStatus(state, status.target)

At(t, pc) == upload[t].pc = pc
Goto(t, pc) == upload' = [upload EXCEPT ![t].pc = pc]
Finish(t) == upload' = [upload EXCEPT ![t] = NoUpload]
Handles == {upload[t].file : t \in Transports}
-----------------------------------------------------------------------------
(* Upload handlers *)

HandleUpload(t, v) ==
  /\ up /\ At(t, "none") /\ uploads < MaxUploads
  /\ ~IsBusy
  /\ upload' = [upload EXCEPT ![t] = [pc |-> "checked", v |-> v, file |-> 0]]
  /\ uploads' = uploads + 1
  /\ UNCHANGED <<spool, installer, up, slots, cuts, risked, lost, collided>>

(* stage_bundle: announce the download and open the partial file, which
   truncates the one that is there *)
OpenPartial(t) ==
  /\ At(t, "checked")
  /\ WriteStatus("downloading", 0)
  /\ \E f \in IF tmp # 0 THEN {tmp} ELSE Files \ ({dst} \cup Handles) :
       /\ tmp' = f
       /\ content' = [content EXCEPT ![f] = Partial]
       /\ upload' = [upload EXCEPT ![t].pc = "open", ![t].file = f]
  /\ collided' = (collided \/ \E s \in Transports \ {t} : upload[s].pc \in InUpload \ {"triggered"})
  /\ UNCHANGED <<trigger, edge, marker, dst, installer, up, slots, uploads, cuts, risked, lost>>

(* the bytes are in; with another writer on the inode they may be mixed *)
Receive(t) ==
  /\ At(t, "open")
  /\ \E c \in {upload[t].v} \cup (IF collided THEN {Partial} ELSE {}) :
       content' = [content EXCEPT ![upload[t].file] = c]
  /\ Goto(t, "received")
  /\ UNCHANGED <<status, trigger, edge, marker, tmp, dst, installer, up, slots, uploads, cuts, risked, lost, collided>>

(* the sender goes away or the disk is full *)
Incomplete(t) ==
  /\ At(t, "open")
  /\ tmp' = 0
  /\ WriteStatus("error", 0)
  /\ Finish(t)
  /\ UNCHANGED <<trigger, edge, marker, dst, content, installer, up, slots, uploads, cuts, risked, lost, collided>>

(* the version is read from whatever the name refers to now *)
BundleVersion(f) ==
  IF f = 0 THEN {0} ELSE IF content[f] = Partial THEN Versions \cup {0} ELSE {content[f]}

\* mutant of CheckPolicy: the version is read and not compared
CheckPolicyForgotten(t) ==
  /\ At(t, "received")
  /\ \E v \in BundleVersion(tmp) : upload' = [upload EXCEPT ![t].pc = "allowed", ![t].v = v]
  /\ UNCHANGED <<spool, installer, up, slots, uploads, cuts, risked, lost, collided>>

CheckPolicy(t) ==
  /\ At(t, "received")
  /\ \E v \in BundleVersion(tmp) :
       \/ /\ CameraPolicy(v) = "downgrade"
          /\ tmp' = 0
          /\ WriteStatus("error", v)
          /\ Finish(t)
       \/ /\ CameraPolicy(v) # "downgrade"
          /\ upload' = [upload EXCEPT ![t].pc = "allowed", ![t].v = v]
          /\ UNCHANGED <<status, tmp>>
  /\ UNCHANGED <<trigger, edge, marker, dst, content, installer, up, slots, uploads, cuts, risked, lost, collided>>

Rename(t) ==
  /\ At(t, "allowed")
  /\ \/ /\ tmp # 0
        /\ dst' = tmp /\ tmp' = 0
        /\ WriteStatus("downloading", upload[t].v)
        /\ Goto(t, "staged")
     \/ /\ tmp = 0
        /\ WriteStatus("error", 0)
        /\ Finish(t)
        /\ UNCHANGED <<tmp, dst>>
  /\ UNCHANGED <<trigger, edge, marker, content, installer, up, slots, uploads, cuts, risked, lost, collided>>

(* trigger_install: the trigger file first, the status after it *)
TriggerInstall(t) ==
  /\ At(t, "staged")
  /\ \/ /\ dst # 0
        /\ trigger' = TRUE /\ edge' = (installer = None)
        /\ Goto(t, "triggered")
        /\ UNCHANGED lost
     \/ /\ dst = 0
        /\ Finish(t)
        /\ lost' = TRUE
        /\ UNCHANGED <<trigger, edge>>
  /\ UNCHANGED <<status, marker, tmp, dst, content, installer, up, slots, uploads, cuts, risked, collided>>

AnnounceInstall(t) ==
  /\ At(t, "triggered")
  /\ WriteStatus("verifying", 0)
  /\ Finish(t)
  /\ lost' = (lost \/ ~trigger)
  /\ UNCHANGED <<trigger, edge, marker, tmp, dst, content, installer, up, slots, uploads, cuts, risked, collided>>
-----------------------------------------------------------------------------
(* camera-ota-installer.sh, started by the path unit *)

\* mutant of InstallerEnds: the exit handler leaves the trigger file
InstallerEndsTriggerKept == installer' = None /\ UNCHANGED trigger

InstallerEnds == installer' = None /\ trigger' = FALSE

InstallerBegin ==
  /\ edge /\ installer = None
  /\ edge' = FALSE
  /\ installer' = IF trigger THEN "begun" ELSE None
  /\ UNCHANGED <<status, trigger, marker, tmp, dst, content, upload, up, slots, uploads, cuts, risked, lost, collided>>

(* no bundle, no slot, no swupdate, no certificate; or the signature is wrong *)
InstallerRefuses ==
  /\ installer \in {"begun", "verify"}
  /\ InstallerEnds
  /\ InstallerStatus("error")
  /\ UNCHANGED <<edge, marker, tmp, dst, content, upload, up, slots, uploads, cuts, risked, lost, collided>>

\* mutant of InstallerVerifies: the standby slot is always the same one
InstallerVerifiesFixedSlot ==
  /\ installer = "begun" /\ dst # 0
  /\ InstallerStatus("verifying")
  /\ installer' = "verify"
  /\ \/ other' = Partial /\ UNCHANGED boot
     \/ boot' = Partial /\ UNCHANGED other
  /\ risked' = (risked \/ trial)
  /\ UNCHANGED <<trigger, edge, marker, tmp, dst, content, upload, up, running, trial,
                 attempts, checking, uploads, cuts, lost, collided>>

(* the slot that is not boot_slot's is zeroed before the signature is looked
   at, the one to fall back to if a trial is under way *)
InstallerVerifies ==
  /\ installer = "begun" /\ dst # 0
  /\ InstallerStatus("verifying")
  /\ installer' = "verify"
  /\ other' = Partial
  /\ risked' = (risked \/ trial)
  /\ UNCHANGED <<trigger, edge, marker, tmp, dst, content, upload, up, running, boot, trial,
                 attempts, checking, uploads, cuts, lost, collided>>

(* the streamer is stopped for the write, and its uploads with it *)
InstallerWrites ==
  /\ installer = "verify" /\ dst # 0 /\ content[dst] # Partial
  /\ InstallerStatus("installing")
  /\ installer' = "write"
  /\ up' = FALSE
  /\ upload' = [t \in Transports |-> NoUpload]
  /\ UNCHANGED <<trigger, edge, marker, tmp, dst, content, slots, uploads, cuts, risked, lost, collided>>

(* swupdate fails, before or after its hook has selected the slot: the script's
   exit handler starts the streamer again *)
SwupdateFails ==
  /\ installer \in {"write", "flipped"}
  /\ InstallerEnds
  /\ InstallerStatus("error")
  /\ UNCHANGED <<edge, marker, tmp, dst, content, upload, up, slots, uploads, cuts, risked, lost, collided>>

(* swupdate has written the standby slot, and its hook selects it *)
SwupdateFlips ==
  /\ installer = "write" /\ dst # 0 /\ content[dst] # Partial
  /\ boot' = content[dst] /\ other' = boot
  /\ installer' = "flipped"
  /\ UNCHANGED <<spool, upload, up, running, trial, attempts, checking, uploads, cuts, risked,
                 lost, collided>>

SwupdateArms ==
  /\ installer = "flipped"
  /\ trial' = TRUE /\ attempts' = 0
  /\ installer' = "written"
  /\ UNCHANGED <<spool, upload, up, running, boot, other, checking, uploads, cuts, risked,
                 lost, collided>>

(* mark the activation, announce the reboot, clean up, restart the streamer *)
InstallerDone ==
  /\ installer = "written"
  /\ marker' = TRUE
  /\ InstallerStatus("rebooting")
  /\ dst' = 0 /\ trigger' = FALSE
  /\ installer' = "reboot"
  /\ UNCHANGED <<edge, tmp, content, upload, up, slots, uploads, cuts, risked, lost, collided>>
-----------------------------------------------------------------------------
(* Boot *)

\* mutant of PowerUp: the attempts are counted and never compared
PowerUpNeverFallsBack ==
  /\ up' = FALSE /\ installer' = None /\ edge' = FALSE
  /\ upload' = [t \in Transports |-> NoUpload]
  /\ status' \in {status, [status EXCEPT !.aged = TRUE]}
  /\ attempts' = IF trial THEN attempts + 1 ELSE 0
  /\ running' = boot /\ checking' = trial
  /\ UNCHANGED <<boot, trial, other, trigger, marker, tmp, dst, content, uploads, risked, collided>>

(* everything in memory is gone; boot.cmd counts attempts of an unconfirmed
   image.  By the clock of a board without power the status may or may not be
   15 seconds older than the process that will read it. *)
PowerUp ==
  /\ up' = FALSE /\ installer' = None /\ edge' = FALSE
  /\ upload' = [t \in Transports |-> NoUpload]
  /\ status' \in {status, [status EXCEPT !.aged = TRUE]}
  /\ LET fallBack == trial /\ attempts + 1 >= BootLimit
     IN  /\ boot' = IF fallBack THEN other ELSE boot
         /\ attempts' = IF fallBack \/ ~trial THEN 0 ELSE attempts + 1
         /\ trial' = (trial /\ ~fallBack)
         /\ checking' = (trial /\ ~fallBack)
         /\ other' = IF fallBack THEN boot ELSE other
         /\ running' = boot'
  /\ UNCHANGED <<trigger, marker, tmp, dst, content, uploads, risked, collided>>

Reboot ==
  /\ installer = "reboot"
  /\ PowerUp
  /\ UNCHANGED <<cuts, lost>>

(* a status that only its author would have replaced *)
Owed == trigger \/ status.state \in {"downloading", "verifying", "installing"}

(* swupdate-check.sh, which knows of the trial it was started with: the image
   is confirmed, whatever an installer has armed since ... *)
Confirm ==
  /\ checking /\ up
  /\ trial' = FALSE /\ attempts' = 0 /\ checking' = FALSE
  /\ UNCHANGED <<spool, upload, installer, up, running, boot, other, uploads, cuts, risked, lost, collided>>

(* ... or the board is started again, also when it is an installer that has
   stopped the streamer ... *)
Unhealthy ==
  /\ checking
  /\ PowerUp
  /\ lost' = (lost \/ Owed)
  /\ UNCHANGED cuts

(* ... or the script comes to its deadline before its checks *)
CheckExpires ==
  /\ checking
  /\ checking' = FALSE
  /\ UNCHANGED <<spool, upload, installer, up, running, boot, other, trial, attempts, uploads,
                 cuts, risked, lost, collided>>

PowerCut ==
  /\ cuts < MaxCuts /\ cuts' = cuts + 1
  /\ PowerUp
  /\ lost' = (lost \/ Owed)

StreamerDies ==
  /\ cuts < MaxCuts /\ cuts' = cuts + 1
  /\ up /\ up' = FALSE
  /\ upload' = [t \in Transports |-> NoUpload]
  /\ lost' = (lost \/ \E t \in Transports : upload[t].pc \in InUpload \ {"checked"})
  /\ UNCHANGED <<spool, installer, slots, uploads, risked, collided>>

(* systemd starts the streamer: the LED goes to connected, which removes the
   activation marker, and a stale reboot status is written away *)
StreamerStarts ==
  /\ ~up /\ running # Partial /\ installer \in {None, "reboot"}
  /\ up' = TRUE
  /\ marker' = FALSE
  /\ status' = IF status.state = "rebooting" /\ ~trigger /\ status.aged
               THEN [state |-> "idle", target |-> 0, aged |-> FALSE]
               ELSE status
  /\ UNCHANGED <<trigger, edge, tmp, dst, content, upload, installer, slots, uploads, cuts, risked, lost, collided>>

(* ten minutes after its announcement a reboot is no longer believed in *)
TimePasses ==
  /\ status.state = "rebooting" /\ ~status.aged /\ installer = None
  /\ status' = [status EXCEPT !.aged = TRUE]
  /\ UNCHANGED <<trigger, edge, marker, tmp, dst, content, upload, installer, up, slots, uploads, cuts, risked, lost, collided>>
-----------------------------------------------------------------------------
UploadStep(t) ==
  \/ OpenPartial(t) \/ Receive(t) \/ Incomplete(t) \/ CheckPolicy(t)
  \/ Rename(t) \/ TriggerInstall(t) \/ AnnounceInstall(t)

InstallerStep ==
  \/ InstallerBegin \/ InstallerRefuses \/ InstallerVerifies \/ InstallerWrites
  \/ SwupdateFails \/ SwupdateFlips \/ SwupdateArms \/ InstallerDone \/ Reboot

Next ==
  \/ \E t \in Transports, v \in Versions : HandleUpload(t, v)
  \/ \E t \in Transports : UploadStep(t)
  \/ InstallerStep
  \/ Confirm \/ Unhealthy \/ CheckExpires \/ PowerCut \/ StreamerDies \/ StreamerStarts \/ TimePasses

(* threads and scripts that have begun go on; systemd restarts the streamer *)
Fairness ==
  /\ \A t \in Transports : WF_vars(UploadStep(t))
  /\ WF_vars(InstallerStep)
  /\ WF_vars(StreamerStarts)
  /\ WF_vars(TimePasses)

Spec == Init /\ [][Next]_vars /\ Fairness
-----------------------------------------------------------------------------
Apart == ~collided

(* What a poller of the camera relies on (CameraOTAClient.push_bundle): the
   image it runs changes only by a restart, only to an image that was written
   completely while an update was under way, and that is not a known older one. *)
FirmwareSpec == Firmware!FirmwareSpec

(* The board starts a whole image at every power-up, whenever the power is cut
   or a check fails: the slot that is being overwritten is not one it starts.
   Excepted is an install during a trial, which zeroes the slot to fall back to
   (boot.cmd.in, camera-ota-installer.sh, post-update.sh). *)
StartsWhole == Partial \in {running, boot} => risked

(* "the STANDBY slot is the one we are NOT currently booted from, so it is
   always safe to overwrite" (swupdate/post-update.sh:119) *)
NeverBricked == Partial \notin {running, boot}

(* is_busy: unless a cut or a handler that writes late has interfered, a camera
   that refuses uploads is working on one, and accepts the next one in the end. *)
BusyEnds == (IsBusy /\ ~lost) ~> (lost \/ ~IsBusy)

(* SWR-038: the camera recovers from interrupted install attempts. *)
AcceptsAgain == []<>(up /\ ~IsBusy)

(* ota_policy: an older, parseable release is never installed over a newer
   running image, except when the boot loader falls back. *)
NeverOlder == [][SwupdateFlips => ~Firmware!Blocked(running, boot')]_vars
=============================================================================
