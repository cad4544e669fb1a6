-------------------------- MODULE OtaCameraProofs --------------------------
(***************************************************************************)
(* Proofs about OtaCamera for every set of versions and transports, every  *)
(* number of uploads, power cuts and boot attempts: the type invariant,    *)
(* and that a camera on which no two uploads have been inside stage_bundle *)
(* together implements CameraFirmware.                                     *)
(***************************************************************************)
EXTENDS OtaCamera, TLAPS

USE CameraAssumption

Booleans ==
  /\ trigger \in BOOLEAN /\ edge \in BOOLEAN /\ marker \in BOOLEAN /\ up \in BOOLEAN
  /\ trial \in BOOLEAN /\ checking \in BOOLEAN /\ risked \in BOOLEAN
  /\ lost \in BOOLEAN /\ collided \in BOOLEAN

\* the parts of the type invariant that the uploads and the installer change
SpoolTypes ==
  /\ status \in [state : {"idle", "downloading", "verifying", "installing", "rebooting", "error"},
                 target : Versions \cup {0}, aged : BOOLEAN]
  /\ tmp \in Files \cup {0} /\ dst \in Files \cup {0}
  /\ content \in [Files -> Versions \cup {Partial}]

UploadTypes ==
  upload \in [Transports -> [pc : InUpload \cup {"none"}, v : Versions \cup {0}, file : Files \cup {0}]]

SlotTypes ==
  /\ running \in Versions \cup {Partial} /\ boot \in Versions \cup {Partial}
  /\ other \in Versions \cup {Partial}
  /\ attempts \in 0 .. BootLimit

CountTypes == uploads \in 0 .. MaxUploads /\ cuts \in 0 .. MaxCuts

InstallerTypes == installer \in {None, "begun", "verify", "write", "written", "flipped", "reboot"}

\* a request that is still receiving has the version of its sender's bundle
Named == \A t \in Transports : upload[t].pc \in {"checked", "open"} => upload[t].v \in Versions

TypeInv == TypeOK /\ Named

LEMMA TypeParts ==
  TypeOK <=> Booleans /\ SpoolTypes /\ UploadTypes /\ SlotTypes /\ CountTypes /\ InstallerTypes
<1>1. Booleans <=> {trigger, edge, marker, up, trial, checking, risked, lost, collided} \subseteq BOOLEAN
  BY DEF Booleans
<1> QED
  BY <1>1 DEF TypeOK, SpoolTypes, UploadTypes, SlotTypes, CountTypes, InstallerTypes

LEMMA TypePartsNext ==
  TypeOK' <=> Booleans' /\ SpoolTypes' /\ UploadTypes' /\ SlotTypes' /\ CountTypes' /\ InstallerTypes'
BY TypeParts, PTL

LEMMA InitTypes == Init => TypeInv
<1> SUFFICES ASSUME Init PROVE TypeInv
  OBVIOUS
<1>1. Booleans
  BY DEF Init, Booleans, slots
<1>2. SpoolTypes /\ UploadTypes /\ SlotTypes
  BY DEF Init, SpoolTypes, UploadTypes, SlotTypes, NoStatus, NoUpload
<1>3. InstallerTypes
  BY DEF Init, InstallerTypes
<1>4. CountTypes
  BY DEF Init, CountTypes
<1>5. Named
  BY DEF Init, Named, NoUpload
<1> QED
  BY <1>1, <1>2, <1>3, <1>4, <1>5, TypeParts DEF TypeInv

LEMMA StatusTypes ==
  ASSUME NEW state \in {"idle", "downloading", "verifying", "installing", "rebooting", "error"},
         NEW v \in Versions \cup {0}, WriteStatus(state, v)
  PROVE  status' \in [state : {"idle", "downloading", "verifying", "installing", "rebooting", "error"},
                      target : Versions \cup {0}, aged : BOOLEAN]
BY DEF WriteStatus

LEMMA InstallerStatusTypes ==
  ASSUME SpoolTypes, NEW state \in {"verifying", "installing", "rebooting", "error"}, InstallerStatus(state)
  PROVE  status' \in [state : {"idle", "downloading", "verifying", "installing", "rebooting", "error"},
                      target : Versions \cup {0}, aged : BOOLEAN]
BY StatusTypes DEF InstallerStatus, SpoolTypes

LEMMA BundleVersions ==
  ASSUME SpoolTypes, NEW v \in BundleVersion(tmp)
  PROVE  v \in Versions \cup {0}
BY DEF SpoolTypes, BundleVersion

LEMMA FinishTypes ==
  ASSUME UploadTypes, Named, NEW t \in Transports, Finish(t)
  PROVE  UploadTypes' /\ Named'
BY DEF UploadTypes, Named, Finish, NoUpload

LEMMA GotoTypes ==
  ASSUME UploadTypes, Named, NEW t \in Transports, NEW pc \in InUpload \ {"checked", "open"}, Goto(t, pc)
  PROVE  UploadTypes' /\ Named'
BY DEF UploadTypes, Named, Goto

\* the upload handlers
LEMMA UploadStepTypes ==
  ASSUME TypeInv, NEW t \in Transports, UploadStep(t)
  PROVE  TypeInv'
<1>1. Booleans /\ SpoolTypes /\ UploadTypes /\ SlotTypes /\ CountTypes /\ InstallerTypes /\ Named
  BY TypeParts DEF TypeInv
<1>2. InUpload = {"checked", "open", "received", "allowed", "staged", "triggered"}
  BY DEF InUpload
<1> SUFFICES Booleans' /\ SpoolTypes' /\ UploadTypes' /\ Named'
  BY <1>1, TypePartsNext
     DEF TypeInv, SlotTypes, CountTypes, InstallerTypes, slots, UploadStep, OpenPartial, Receive, Incomplete,
         CheckPolicy, Rename, TriggerInstall, AnnounceInstall
<1>3. CASE OpenPartial(t)
  <2>1. PICK f \in IF tmp # 0 THEN {tmp} ELSE Files \ ({dst} \cup Handles) :
          /\ tmp' = f
          /\ content' = [content EXCEPT ![f] = Partial]
          /\ upload' = [upload EXCEPT ![t].pc = "open", ![t].file = f]
    BY <1>3 DEF OpenPartial
  <2>2. f \in Files
    BY <1>1, <2>1 DEF SpoolTypes
  <2>3. upload[t].v \in Versions
    BY <1>1, <1>3 DEF OpenPartial, At, Named
  <2>4. UploadTypes' /\ Named'
    BY <1>1, <1>2, <2>1, <2>2, <2>3 DEF UploadTypes, Named
  <2>5. SpoolTypes'
    BY <1>1, <1>3, <2>1, <2>2, StatusTypes DEF OpenPartial, SpoolTypes
  <2>6. Booleans'
    BY <1>1, <1>3, Zenon DEF OpenPartial, Booleans, slots
  <2> QED
    BY <2>4, <2>5, <2>6
<1>4. CASE Receive(t)
  <2>1. upload[t].v \in Versions /\ Goto(t, "received")
    BY <1>1, <1>4 DEF Receive, At, Named
  <2>2. SpoolTypes'
    BY <1>1, <1>4, <2>1 DEF Receive, SpoolTypes
  <2> QED
    BY <1>1, <1>2, <1>4, <2>1, <2>2, GotoTypes DEF Receive, Booleans, slots
<1>5. CASE Incomplete(t)
  <2>1. SpoolTypes'
    BY <1>1, <1>5, StatusTypes DEF Incomplete, SpoolTypes
  <2> QED
    BY <1>1, <1>5, <2>1, FinishTypes DEF Incomplete, Booleans, slots
<1>6. CASE CheckPolicy(t)
  <2>1. PICK v \in BundleVersion(tmp) :
          \/ /\ tmp' = 0 /\ WriteStatus("error", v) /\ Finish(t)
          \/ /\ upload' = [upload EXCEPT ![t].pc = "allowed", ![t].v = v]
             /\ UNCHANGED <<status, tmp>>
    BY <1>6 DEF CheckPolicy
  <2>2. v \in Versions \cup {0}
    BY <1>1, BundleVersions
  <2>3. SpoolTypes'
    BY <1>1, <1>6, <2>1, <2>2, StatusTypes DEF CheckPolicy, SpoolTypes
  <2>4. UploadTypes' /\ Named'
    BY <1>1, <1>2, <2>1, <2>2, FinishTypes DEF UploadTypes, Named
  <2> QED
    BY <1>1, <1>6, <2>3, <2>4 DEF CheckPolicy, Booleans, slots
<1>7. CASE Rename(t)
  <2>1. upload[t].v \in Versions \cup {0}
    BY <1>1 DEF UploadTypes
  <2>2. SpoolTypes'
    BY <1>1, <1>7, <2>1, StatusTypes DEF Rename, SpoolTypes
  <2>3. UploadTypes' /\ Named'
    BY <1>1, <1>2, <1>7, FinishTypes, GotoTypes DEF Rename
  <2> QED
    BY <1>1, <1>7, <2>2, <2>3 DEF Rename, Booleans, slots
<1>8. CASE TriggerInstall(t)
  <2>1. UploadTypes' /\ Named'
    BY <1>1, <1>2, <1>8, FinishTypes, GotoTypes DEF TriggerInstall
  <2>2. Booleans'
    BY <1>1, <1>8, Zenon DEF TriggerInstall, Booleans, slots
  <2> QED
    BY <1>1, <1>8, <2>1, <2>2 DEF TriggerInstall, SpoolTypes
<1>9. CASE AnnounceInstall(t)
  <2>1. SpoolTypes'
    BY <1>1, <1>9, StatusTypes DEF AnnounceInstall, SpoolTypes
  <2>2. Booleans'
    BY <1>1, <1>9, Zenon DEF AnnounceInstall, Booleans, slots
  <2> QED
    BY <1>1, <1>9, <2>1, <2>2, FinishTypes DEF AnnounceInstall
<1> QED
  BY <1>3, <1>4, <1>5, <1>6, <1>7, <1>8, <1>9 DEF UploadStep

\* the installer script
LEMMA InstallerTypesKept ==
  ASSUME TypeInv, InstallerStep, ~Reboot
  PROVE  TypeInv'
<1>1. Booleans /\ SpoolTypes /\ UploadTypes /\ SlotTypes /\ CountTypes /\ InstallerTypes /\ Named
  BY TypeParts DEF TypeInv
<1> SUFFICES Booleans' /\ SpoolTypes' /\ UploadTypes' /\ Named' /\ SlotTypes' /\ InstallerTypes'
  BY <1>1, TypePartsNext
     DEF TypeInv, CountTypes, InstallerStep, InstallerBegin, InstallerRefuses, InstallerVerifies,
         InstallerWrites, SwupdateFails, SwupdateFlips, SwupdateArms, InstallerDone
<1>2. InstallerTypes'
  BY <1>1 DEF InstallerTypes, InstallerStep, InstallerBegin, InstallerRefuses, InstallerVerifies,
     InstallerWrites, SwupdateFails, SwupdateFlips, SwupdateArms, InstallerDone, InstallerEnds
<1>3. Booleans'
  BY <1>1, Zenon DEF Booleans, slots, spool, InstallerStep, InstallerBegin, InstallerRefuses, InstallerVerifies,
     InstallerWrites, SwupdateFails, SwupdateFlips, SwupdateArms, InstallerDone, InstallerEnds
<1>4. SpoolTypes'
  <2>1. CASE UNCHANGED <<status, tmp, dst, content>>
    BY <1>1, <2>1 DEF SpoolTypes
  <2>2. CASE InstallerStatus("error") \/ InstallerStatus("verifying") \/ InstallerStatus("installing")
             \/ InstallerStatus("rebooting")
    BY <1>1, <2>2, InstallerStatusTypes
       DEF SpoolTypes, InstallerStep, InstallerBegin, InstallerRefuses, InstallerVerifies,
           InstallerWrites, SwupdateFails, SwupdateFlips, SwupdateArms, InstallerDone, spool
  <2> QED
    BY <2>1, <2>2 DEF InstallerStep, InstallerBegin, InstallerRefuses, InstallerVerifies,
       InstallerWrites, SwupdateFails, SwupdateFlips, SwupdateArms, InstallerDone, spool
<1>5. UploadTypes' /\ Named'
  BY <1>1 DEF UploadTypes, Named, NoUpload, InstallerStep, InstallerBegin, InstallerRefuses, InstallerVerifies,
     InstallerWrites, SwupdateFails, SwupdateFlips, SwupdateArms, InstallerDone
<1>6. SlotTypes'
  <2>1. CASE SwupdateFlips
    <3>1. content[dst] \in Versions
      BY <1>1, <2>1 DEF SwupdateFlips, SpoolTypes
    <3> QED
      BY <1>1, <2>1, <3>1 DEF SwupdateFlips, SlotTypes
  <2>2. CASE SwupdateArms \/ InstallerVerifies
    BY <1>1, <2>2 DEF SwupdateArms, InstallerVerifies, SlotTypes
  <2> QED
    BY <1>1, <2>1, <2>2 DEF SlotTypes, slots, InstallerStep, InstallerBegin, InstallerRefuses,
       InstallerWrites, SwupdateFails, InstallerDone
<1> QED
  BY <1>2, <1>3, <1>4, <1>5, <1>6

\* a board that starts
LEMMA PowerUpTypes ==
  ASSUME TypeInv, PowerUp, lost' \in BOOLEAN, cuts' \in 0 .. MaxCuts
  PROVE  TypeInv'
<1>1. Booleans /\ SpoolTypes /\ UploadTypes /\ SlotTypes /\ CountTypes /\ InstallerTypes /\ Named
  BY TypeParts DEF TypeInv
<1>2. Booleans'
  BY <1>1, Zenon DEF PowerUp, Booleans
<1>3. SpoolTypes'
  BY <1>1 DEF PowerUp, SpoolTypes
<1>4. UploadTypes' /\ Named' /\ InstallerTypes'
  BY DEF PowerUp, UploadTypes, Named, InstallerTypes, NoUpload
<1>5. SlotTypes'
  <2>1. CASE trial /\ attempts + 1 >= BootLimit
    BY <1>1, <2>1 DEF PowerUp, SlotTypes
  <2>2. CASE ~(trial /\ attempts + 1 >= BootLimit)
    BY <1>1, <2>2 DEF PowerUp, SlotTypes
  <2> QED
    BY <2>1, <2>2
<1>6. CountTypes'
  BY <1>1 DEF PowerUp, CountTypes
<1> QED
  BY <1>2, <1>3, <1>4, <1>5, <1>6, TypePartsNext DEF TypeInv

LEMMA BoardTypes ==
  ASSUME TypeInv, Reboot \/ Unhealthy \/ PowerCut \/ Confirm \/ CheckExpires \/ StreamerDies \/ StreamerStarts \/ TimePasses
  PROVE  TypeInv'
<1>1. Booleans /\ SpoolTypes /\ UploadTypes /\ SlotTypes /\ CountTypes /\ InstallerTypes /\ Named
  BY TypeParts DEF TypeInv
<1>2. CASE Reboot \/ Unhealthy \/ PowerCut
  <2>1. PowerUp /\ cuts' \in 0 .. MaxCuts
    BY <1>1, <1>2 DEF Reboot, Unhealthy, PowerCut, CountTypes
  <2>2. lost' \in BOOLEAN
    BY <1>1, <1>2, Zenon DEF Reboot, Unhealthy, PowerCut, Booleans
  <2> QED
    BY <2>1, <2>2, PowerUpTypes
<1>3. CASE Confirm \/ CheckExpires
  <2>1. Booleans'
    BY <1>1, <1>3, Zenon DEF Confirm, CheckExpires, Booleans, spool
  <2>2. SlotTypes'
    BY <1>1, <1>3 DEF Confirm, CheckExpires, SlotTypes
  <2> QED
    BY <1>1, <1>3, <2>1, <2>2, TypePartsNext
       DEF Confirm, CheckExpires, TypeInv, SpoolTypes, UploadTypes, CountTypes, InstallerTypes, Named, spool
<1>4. CASE StreamerDies
  <2>1. Booleans'
    BY <1>1, <1>4, Zenon DEF StreamerDies, Booleans, spool, slots
  <2>2. SpoolTypes' /\ SlotTypes' /\ InstallerTypes' /\ CountTypes'
    BY <1>1, <1>4 DEF StreamerDies, SpoolTypes, SlotTypes, InstallerTypes, CountTypes, spool, slots
  <2>3. UploadTypes' /\ Named'
    BY <1>4 DEF StreamerDies, UploadTypes, Named, NoUpload
  <2> QED
    BY <2>1, <2>2, <2>3, TypePartsNext DEF TypeInv
<1>5. CASE StreamerStarts \/ TimePasses
  <2>1. Booleans'
    BY <1>1, <1>5, Zenon DEF StreamerStarts, TimePasses, Booleans, slots
  <2>2. SpoolTypes'
    <3>1. \/ status' = status
          \/ status' = [state |-> "idle", target |-> 0, aged |-> FALSE]
          \/ status' = [status EXCEPT !.aged = TRUE]
      BY <1>5 DEF StreamerStarts, TimePasses
    <3>2. UNCHANGED <<tmp, dst, content>>
      BY <1>5 DEF StreamerStarts, TimePasses
    <3>3. CASE status' = [state |-> "idle", target |-> 0, aged |-> FALSE]
      BY <1>1, <3>2, <3>3 DEF SpoolTypes
    <3>4. CASE status' = status \/ status' = [status EXCEPT !.aged = TRUE]
      BY <1>1, <3>2, <3>4 DEF SpoolTypes
    <3> QED
      BY <3>1, <3>3, <3>4
  <2> QED
    BY <1>1, <1>5, <2>1, <2>2, TypePartsNext
       DEF StreamerStarts, TimePasses, TypeInv, UploadTypes, SlotTypes, CountTypes, InstallerTypes, Named, slots
<1> QED
  BY <1>2, <1>3, <1>4, <1>5

LEMMA RequestTypes ==
  ASSUME TypeInv, NEW t \in Transports, NEW v \in Versions, HandleUpload(t, v)
  PROVE  TypeInv'
<1>1. Booleans /\ SpoolTypes /\ UploadTypes /\ SlotTypes /\ CountTypes /\ InstallerTypes /\ Named
  BY TypeParts DEF TypeInv
<1>2. UploadTypes' /\ Named'
  BY <1>1 DEF HandleUpload, UploadTypes, Named, InUpload
<1>3. CountTypes'
  BY <1>1 DEF HandleUpload, CountTypes
<1> QED
  BY <1>1, <1>2, <1>3, TypePartsNext
     DEF HandleUpload, TypeInv, Booleans, SpoolTypes, SlotTypes, InstallerTypes, spool, slots

LEMMA TypesPreserved == TypeInv /\ [Next]_vars => TypeInv'
<1> SUFFICES ASSUME TypeInv, [Next]_vars
             PROVE  TypeInv'
  OBVIOUS
<1>1. CASE UNCHANGED vars
  BY <1>1 DEF vars, spool, slots, TypeInv, TypeOK, Named
<1>2. CASE Next
  BY <1>2, RequestTypes, UploadStepTypes, InstallerTypesKept, BoardTypes DEF Next, InstallerStep
<1> QED
  BY <1>1, <1>2

\* The status file, the spool, the slots and the boot counter keep their types
\* through every upload, installation, power cut and fallback; in particular
\* the image selected to boot is always a complete one.
THEOREM CameraTypes == Spec => []TypeOK
<1>1. TypeInv => TypeOK
  BY DEF TypeInv
<1> QED
  BY <1>1, InitTypes, TypesPreserved, PTL DEF Spec

-----------------------------------------------------------------------------
(* What the board starts.  A slot that is overwritten is neither started    *)
(* nor, without a trial, fallen back to; a slot that is selected leaves a   *)
(* whole one behind.                                                        *)

Whole ==
  ~risked => /\ running \in Versions /\ boot \in Versions
             /\ trial \/ installer = "flipped" => other \in Versions

\* nothing runs on a board that hangs
Hung ==
  running = Partial => /\ ~up /\ ~edge /\ installer = None
                       /\ \A t \in Transports : upload[t].pc = "none"

BoardInv == Whole /\ Hung

LEMMA InitBoard == Init => BoardInv
BY DEF Init, BoardInv, Whole, Hung, None, NoUpload

LEMMA PowerUpBoard ==
  ASSUME TypeOK, BoardInv, PowerUp
  PROVE  BoardInv'
<1>1. CASE trial /\ attempts + 1 >= BootLimit
  BY <1>1 DEF PowerUp, BoardInv, Whole, Hung, NoUpload, None
<1>2. CASE ~(trial /\ attempts + 1 >= BootLimit)
  BY <1>2 DEF PowerUp, BoardInv, Whole, Hung, NoUpload, None
<1> QED
  BY <1>1, <1>2

LEMMA BoardPreserved == TypeOK /\ BoardInv /\ [Next]_vars => BoardInv'
<1> SUFFICES ASSUME TypeOK, BoardInv, [Next]_vars PROVE BoardInv'
  OBVIOUS
<1>1. CASE PowerUp
  BY <1>1, PowerUpBoard
<1>2. CASE InstallerVerifies
  BY <1>2 DEF InstallerVerifies, BoardInv, Whole, Hung, None
<1>3. CASE SwupdateFlips
  <2>1. content[dst] \in Versions
    BY <1>3 DEF SwupdateFlips, TypeOK
  <2> QED
    BY <1>3, <2>1 DEF SwupdateFlips, BoardInv, Whole, Hung, None, spool
<1>4. CASE SwupdateArms
  BY <1>4 DEF SwupdateArms, BoardInv, Whole, Hung, None, spool
<1>5. CASE \E t \in Transports, v \in Versions : HandleUpload(t, v)
  BY <1>5 DEF HandleUpload, BoardInv, Whole, Hung, spool, slots
<1>6. CASE \E t \in Transports : UploadStep(t)
  <2>1. PICK t \in Transports : UploadStep(t)
    BY <1>6
  <2>2. running # Partial
    BY <2>1 DEF BoardInv, Hung, UploadStep, OpenPartial, Receive, Incomplete, CheckPolicy, Rename,
       TriggerInstall, AnnounceInstall, At
  <2>3. UNCHANGED <<running, boot, other, trial, installer, risked>>
    BY <2>1 DEF UploadStep, OpenPartial, Receive, Incomplete, CheckPolicy, Rename, TriggerInstall,
       AnnounceInstall, slots
  <2> QED
    BY <2>2, <2>3 DEF BoardInv, Whole, Hung
<1>7. CASE InstallerBegin \/ InstallerRefuses \/ InstallerWrites \/ SwupdateFails \/ InstallerDone
  BY <1>7 DEF InstallerBegin, InstallerRefuses, InstallerWrites, SwupdateFails, InstallerDone, InstallerEnds,
     BoardInv, Whole, Hung, slots, None
<1>8. CASE Confirm \/ CheckExpires \/ StreamerDies \/ StreamerStarts \/ TimePasses
  BY <1>8 DEF Confirm, CheckExpires, StreamerDies, StreamerStarts, TimePasses, BoardInv, Whole, Hung, spool,
     slots, NoUpload
<1>9. CASE UNCHANGED vars
  BY <1>9 DEF vars, spool, slots, BoardInv, Whole, Hung
<1> QED
  BY <1>1, <1>2, <1>3, <1>4, <1>5, <1>6, <1>7, <1>8, <1>9
     DEF Next, InstallerStep, Reboot, Unhealthy, PowerCut

LEMMA BoardAlways == Spec => [](TypeOK /\ BoardInv)
BY InitBoard, BoardPreserved, CameraTypes, PTL DEF Spec

\* The board starts a whole image at every power-up, whenever the power is cut,
\* an install fails or a check restarts the board, except after an install
\* that began during a trial (boot.cmd.in, camera-ota-installer.sh).
THEOREM StartsWholeHolds == Spec => []StartsWhole
<1>1. BoardInv => StartsWhole
  BY CameraAssumption DEF BoardInv, Whole, StartsWhole
<1> QED
  BY <1>1, BoardAlways, PTL

-----------------------------------------------------------------------------
(* The refinement.  As long as no two uploads have been inside stage_bundle *)
(* together, the file that is renamed is the file whose version was         *)
(* compared, and between the comparison and the write the camera does not   *)
(* restart without dropping the request.                                    *)

Inside == {"open", "received", "allowed", "staged"}
Working == {"begun", "verify", "write", "flipped", "written"}

\* one upload at a time is inside stage_bundle
Separate ==
  \A t, s \in Transports :
    t # s /\ upload[t].pc \in Inside => upload[s].pc \notin Inside \cup {"checked"}

\* the trigger file outlives the installer's work, and nobody uploads meanwhile
Triggered ==
  /\ installer \in Working => trigger
  /\ edge => trigger /\ installer = None
  /\ \A t \in Transports : upload[t].pc \in Inside \cup {"checked"} => ~trigger /\ installer = None

\* a camera about to restart says so
Rebooting ==
  /\ installer = "reboot" => status.state = "rebooting" /\ ~status.aged
  /\ installer \in {"write", "flipped", "written", "reboot"} =>
       \A t \in Transports : upload[t].pc = "none"

\* an upload inside stage_bundle keeps the status busy, and owns the partial file
Downloading ==
  \A t \in Transports :
    /\ upload[t].pc \in Inside => status.state \in {"downloading", "verifying"}
    /\ upload[t].pc = "open" => upload[t].file = tmp /\ tmp # 0

\* a bundle that is complete and not a known older one
Permitted(f) == f = 0 \/ content[f] = Partial \/ ~Firmware!Blocked(running, content[f])

PolicyHeld ==
  /\ tmp # 0 => tmp # dst
  /\ \A t \in Transports : upload[t].pc = "allowed" => Permitted(tmp)
  /\ edge \/ installer \in {"begun", "verify", "write"} => Permitted(dst)
  /\ \A t \in Transports : upload[t].pc = "staged" => Permitted(dst)

ApartInv == Separate /\ Triggered /\ Rebooting /\ Downloading /\ PolicyHeld

LEMMA InitApart == Init => ApartInv
BY DEF Init, ApartInv, Separate, Triggered, Rebooting, Downloading, PolicyHeld, Inside, Working, NoUpload, None

\* an upload that leaves or does not begin
LEMMA BusyMeans ==
  ASSUME TypeOK, ApartInv, ~IsBusy
  PROVE  /\ ~trigger /\ ~edge /\ installer = None
         /\ \A t \in Transports : upload[t].pc \notin Inside
<1>1. status.state \in {"idle", "downloading", "verifying", "installing", "rebooting", "error"}
  BY DEF TypeOK
<1>2. ~trigger /\ status.state \notin {"downloading", "verifying", "installing"}
  BY <1>1 DEF IsBusy, ReadStatus, Stale
<1>3. status.state = "rebooting" => status.aged
  BY <1>1 DEF IsBusy, ReadStatus, Stale
<1> QED
  BY <1>2, <1>3 DEF ApartInv, Triggered, Rebooting, Downloading, TypeOK, Working

LEMMA RequestApart ==
  ASSUME TypeOK, ApartInv, NEW t \in Transports, NEW v \in Versions, HandleUpload(t, v)
  PROVE  ApartInv'
<1>1. /\ ~trigger /\ ~edge /\ installer = None
      /\ \A s \in Transports : upload[s].pc \notin Inside
  BY BusyMeans DEF HandleUpload
<1>2. /\ upload'[t].pc = "checked" /\ \A s \in Transports \ {t} : upload'[s] = upload[s]
      /\ UNCHANGED <<spool, installer, running>>
  BY DEF HandleUpload, TypeOK, slots
<1>3. Separate' /\ Triggered' /\ Rebooting'
  BY <1>1, <1>2 DEF ApartInv, Separate, Triggered, Rebooting, Inside, Working, spool, None
<1>4. Downloading'
  BY <1>1, <1>2 DEF ApartInv, Downloading, Inside, spool
<1>5. PolicyHeld'
  BY <1>1, <1>2 DEF ApartInv, PolicyHeld, Permitted, spool, Firmware!Blocked, Firmware!Classify
<1> QED
  BY <1>3, <1>4, <1>5 DEF ApartInv

\* what an upload inside stage_bundle excludes
LEMMA AloneInside ==
  ASSUME TypeOK, ApartInv, NEW t \in Transports, upload[t].pc \in Inside
  PROVE  /\ ~trigger /\ ~edge /\ installer = None
         /\ \A s \in Transports \ {t} : upload[s].pc \in {"none", "triggered"}
<1>1. \A s \in Transports : upload[s].pc \in InUpload \cup {"none"}
  BY DEF TypeOK
<1> QED
  BY <1>1 DEF ApartInv, Separate, Triggered, Inside, InUpload

LEMMA OpenApart ==
  ASSUME TypeOK, ApartInv, NEW t \in Transports, OpenPartial(t), Apart'
  PROVE  ApartInv'
<1>1. \A s \in Transports \ {t} : upload[s].pc \in {"none", "triggered"}
  BY DEF OpenPartial, Apart, TypeOK
<1>2. PICK f \in IF tmp # 0 THEN {tmp} ELSE Files \ ({dst} \cup Handles) :
        /\ tmp' = f
        /\ content' = [content EXCEPT ![f] = Partial]
        /\ upload' = [upload EXCEPT ![t].pc = "open", ![t].file = f]
  BY DEF OpenPartial
<1>3. f \in Files /\ f # 0 /\ f # dst
  BY <1>2 DEF TypeOK, ApartInv, PolicyHeld, Files
<1>4. /\ upload'[t].pc = "open" /\ upload'[t].file = f
      /\ \A s \in Transports \ {t} : upload'[s] = upload[s]
  BY <1>2 DEF TypeOK
<1>5. ~trigger /\ ~edge /\ installer = None /\ status'.state = "downloading"
  BY DEF OpenPartial, At, ApartInv, Triggered, WriteStatus
<1>6. UNCHANGED <<trigger, edge, dst, installer, running>>
  BY DEF OpenPartial, slots
<1>7. Separate' /\ Triggered' /\ Rebooting'
  BY <1>1, <1>4, <1>5, <1>6 DEF Separate, Triggered, Rebooting, Inside, Working, None
<1>8. Downloading'
  BY <1>1, <1>2, <1>3, <1>4, <1>5 DEF Downloading, Inside
<1>9. PolicyHeld'
  BY <1>1, <1>2, <1>3, <1>4, <1>5, <1>6 DEF PolicyHeld, None
<1> QED
  BY <1>7, <1>8, <1>9 DEF ApartInv

LEMMA ReceiveApart ==
  ASSUME TypeOK, ApartInv, NEW t \in Transports, Receive(t)
  PROVE  ApartInv'
<1>1. /\ ~trigger /\ ~edge /\ installer = None
      /\ \A s \in Transports \ {t} : upload[s].pc \in {"none", "triggered"}
  BY AloneInside DEF Receive, At, Inside
<1>2. /\ upload'[t].pc = "received"
      /\ \A s \in Transports \ {t} : upload'[s] = upload[s]
  BY DEF Receive, Goto, TypeOK
<1>3. UNCHANGED <<status, trigger, edge, tmp, dst, installer>>
  BY DEF Receive
<1>4. status.state \in {"downloading", "verifying"}
  BY DEF Receive, At, ApartInv, Downloading, Inside
<1>5. Separate' /\ Triggered' /\ Rebooting'
  BY <1>1, <1>2, <1>3 DEF Separate, Triggered, Rebooting, Inside, Working, None
<1>6. Downloading' /\ PolicyHeld'
  BY <1>1, <1>2, <1>3, <1>4 DEF ApartInv, Downloading, PolicyHeld, Inside, None
<1> QED
  BY <1>5, <1>6 DEF ApartInv

\* an upload that ends with an error
LEMMA GiveUpApart ==
  ASSUME TypeOK, ApartInv, NEW t \in Transports, upload[t].pc \in Inside, Finish(t),
         UNCHANGED <<trigger, edge, dst, content, installer, running>>, tmp' \in {0, tmp}
  PROVE  ApartInv'
<1>1. /\ ~trigger /\ ~edge /\ installer = None
      /\ \A s \in Transports \ {t} : upload[s].pc \in {"none", "triggered"}
  BY AloneInside
<1>2. \A s \in Transports : upload'[s].pc \in {"none", "triggered"}
  BY <1>1 DEF Finish, NoUpload, TypeOK
<1>3. Separate' /\ Triggered' /\ Rebooting' /\ Downloading'
  BY <1>1, <1>2 DEF Separate, Triggered, Rebooting, Downloading, Inside, Working, None
<1>4. PolicyHeld'
  BY <1>1, <1>2 DEF ApartInv, PolicyHeld, None
<1> QED
  BY <1>3, <1>4 DEF ApartInv

LEMMA CheckApart ==
  ASSUME TypeOK, ApartInv, NEW t \in Transports, CheckPolicy(t)
  PROVE  ApartInv'
<1>1. PICK v \in BundleVersion(tmp) :
        \/ tmp' = 0 /\ Finish(t)
        \/ /\ CameraPolicy(v) # "downgrade"
           /\ upload' = [upload EXCEPT ![t].pc = "allowed", ![t].v = v]
           /\ UNCHANGED <<status, tmp>>
  BY DEF CheckPolicy
<1>2. UNCHANGED <<trigger, edge, dst, content, installer, running>> /\ upload[t].pc \in Inside
  BY DEF CheckPolicy, slots, At, Inside
<1>3. CASE tmp' = 0 /\ Finish(t)
  BY <1>2, <1>3, GiveUpApart
<1>4. CASE /\ CameraPolicy(v) # "downgrade"
           /\ upload' = [upload EXCEPT ![t].pc = "allowed", ![t].v = v]
           /\ UNCHANGED <<status, tmp>>
  <2>1. /\ ~trigger /\ ~edge /\ installer = None
        /\ \A s \in Transports \ {t} : upload[s].pc \in {"none", "triggered"}
    BY <1>2, AloneInside
  <2>2. /\ upload'[t].pc = "allowed"
        /\ \A s \in Transports \ {t} : upload'[s] = upload[s]
    BY <1>4 DEF TypeOK
  <2>3. status.state \in {"downloading", "verifying"}
    BY <1>2 DEF ApartInv, Downloading
  <2>4. Permitted(tmp)'
    BY <1>1, <1>2, <1>4 DEF Permitted, BundleVersion, CameraPolicy, Firmware!Blocked
  <2>5. Separate' /\ Triggered' /\ Rebooting' /\ Downloading'
    BY <1>2, <1>4, <2>1, <2>2, <2>3 DEF Separate, Triggered, Rebooting, Downloading, Inside, Working, None
  <2>6. PolicyHeld'
    BY <1>2, <1>4, <2>1, <2>2, <2>4 DEF ApartInv, PolicyHeld, None
  <2> QED
    BY <2>5, <2>6 DEF ApartInv
<1> QED
  BY <1>1, <1>3, <1>4

LEMMA RenameApart ==
  ASSUME TypeOK, ApartInv, NEW t \in Transports, Rename(t)
  PROVE  ApartInv'
<1>1. UNCHANGED <<trigger, edge, content, installer, running>> /\ upload[t].pc = "allowed" /\ upload[t].pc \in Inside
  BY DEF Rename, slots, At, Inside
<1>2. CASE tmp = 0 /\ Finish(t) /\ UNCHANGED <<tmp, dst>>
  BY <1>1, <1>2, GiveUpApart
<1>3. CASE /\ tmp # 0
           /\ dst' = tmp /\ tmp' = 0
           /\ WriteStatus("downloading", upload[t].v)
           /\ Goto(t, "staged")
  <2>1. /\ ~trigger /\ ~edge /\ installer = None
        /\ \A s \in Transports \ {t} : upload[s].pc \in {"none", "triggered"}
    BY <1>1, AloneInside
  <2>2. /\ upload'[t].pc = "staged"
        /\ \A s \in Transports \ {t} : upload'[s] = upload[s]
    BY <1>3 DEF Goto, TypeOK
  <2>3. Permitted(dst)'
    BY <1>1, <1>3 DEF ApartInv, PolicyHeld, Permitted, Firmware!Blocked, Firmware!Classify
  <2>4. Separate' /\ Triggered' /\ Rebooting' /\ Downloading'
    BY <1>1, <1>3, <2>1, <2>2
       DEF Separate, Triggered, Rebooting, Downloading, Inside, Working, None, WriteStatus
  <2>5. PolicyHeld'
    BY <1>1, <1>3, <2>1, <2>2, <2>3 DEF PolicyHeld, None
  <2> QED
    BY <2>4, <2>5 DEF ApartInv
<1> QED
  BY <1>2, <1>3 DEF Rename

LEMMA TriggerApart ==
  ASSUME TypeOK, ApartInv, NEW t \in Transports, TriggerInstall(t)
  PROVE  ApartInv'
<1>1. /\ UNCHANGED <<status, tmp, dst, content, installer, running>>
      /\ upload[t].pc = "staged" /\ upload[t].pc \in Inside
  BY DEF TriggerInstall, slots, At, Inside
<1>2. CASE Finish(t) /\ UNCHANGED <<trigger, edge>>
  BY <1>1, <1>2, GiveUpApart
<1>3. CASE trigger' = TRUE /\ edge' = (installer = None) /\ Goto(t, "triggered")
  <2>1. /\ ~trigger /\ ~edge /\ installer = None
        /\ \A s \in Transports \ {t} : upload[s].pc \in {"none", "triggered"}
    BY <1>1, AloneInside
  <2>2. \A s \in Transports : upload'[s].pc \in {"none", "triggered"}
    BY <1>3, <2>1 DEF Goto, TypeOK
  <2>3. Separate' /\ Triggered' /\ Rebooting' /\ Downloading'
    BY <1>1, <1>3, <2>1, <2>2 DEF Separate, Triggered, Rebooting, Downloading, Inside, Working, None
  <2>4. Permitted(dst)'
    BY <1>1 DEF ApartInv, PolicyHeld, Permitted, Firmware!Blocked, Firmware!Classify
  <2>5. PolicyHeld'
    BY <1>1, <2>1, <2>2, <2>4 DEF ApartInv, PolicyHeld
  <2> QED
    BY <2>3, <2>5 DEF ApartInv
<1> QED
  BY <1>2, <1>3 DEF TriggerInstall

\* the late status keeps a camera busy, whoever is uploading by now
LEMMA AnnounceApart ==
  ASSUME TypeOK, ApartInv, NEW t \in Transports, AnnounceInstall(t)
  PROVE  ApartInv'
<1>1. /\ UNCHANGED <<trigger, edge, tmp, dst, content, installer, running>>
      /\ upload[t].pc = "triggered" /\ status'.state = "verifying"
  BY DEF AnnounceInstall, slots, At, WriteStatus
<1>2. upload'[t].pc = "none" /\ \A s \in Transports \ {t} : upload'[s] = upload[s]
  BY DEF AnnounceInstall, Finish, NoUpload, TypeOK
<1>3. Separate' /\ Triggered'
  BY <1>1, <1>2 DEF ApartInv, Separate, Triggered, Inside, Working
<1>4. Rebooting' /\ Downloading'
  BY <1>1, <1>2 DEF ApartInv, Rebooting, Downloading, Inside
<1>5. PolicyHeld'
  BY <1>1, <1>2 DEF ApartInv, PolicyHeld, Permitted, Firmware!Blocked, Firmware!Classify
<1> QED
  BY <1>3, <1>4, <1>5 DEF ApartInv

LEMMA UploadApart ==
  ASSUME TypeOK, ApartInv, NEW t \in Transports, UploadStep(t), Apart'
  PROVE  ApartInv'
<1>1. CASE Incomplete(t)
  BY <1>1, GiveUpApart DEF Incomplete, At, Inside, slots
<1> QED
  BY <1>1, OpenApart, ReceiveApart, CheckApart, RenameApart, TriggerApart, AnnounceApart DEF UploadStep

\* the installer's work leaves no upload before its trigger
LEMMA InstallerApart ==
  ASSUME TypeOK, ApartInv, InstallerStep, ~Reboot
  PROVE  ApartInv'
<1>1. /\ trigger /\ (edge => installer = None)
      /\ \A t \in Transports : upload[t].pc \notin Inside \cup {"checked"}
  BY DEF ApartInv, Triggered, Working, InstallerStep, InstallerBegin, InstallerRefuses, InstallerVerifies,
     InstallerWrites, SwupdateFails, SwupdateFlips, SwupdateArms, InstallerDone
<1>2. /\ UNCHANGED <<tmp, content, running>> /\ dst' \in {0, dst}
      /\ \A t \in Transports : upload'[t].pc \in {upload[t].pc, "none"}
  BY DEF InstallerStep, InstallerBegin, InstallerRefuses, InstallerVerifies, InstallerWrites, SwupdateFails,
     SwupdateFlips, SwupdateArms, InstallerDone, spool, slots, NoUpload, TypeOK
<1>3. \A t \in Transports : upload'[t].pc \notin Inside \cup {"checked"}
  BY <1>1, <1>2 DEF Inside
<1>4. Separate' /\ Downloading'
  BY <1>3 DEF Separate, Downloading, Inside
<1>5. Triggered'
  <2>1. CASE InstallerBegin
    BY <1>1, <1>3, <2>1 DEF Triggered, InstallerBegin, Working, None
  <2>2. CASE ~InstallerBegin
    <3>1. ~edge'
      BY <1>1, <2>2 DEF InstallerStep, InstallerRefuses, InstallerVerifies, InstallerWrites, SwupdateFails,
         SwupdateFlips, SwupdateArms, InstallerDone, None, spool
    <3>2. installer' \in Working => trigger'
      BY <1>1, <2>2 DEF InstallerStep, InstallerRefuses, InstallerVerifies, InstallerWrites, SwupdateFails,
         SwupdateFlips, SwupdateArms, InstallerDone, InstallerEnds, Working, None, spool
    <3> QED
      BY <1>3, <3>1, <3>2 DEF Triggered
  <2> QED
    BY <2>1, <2>2
<1>6. Rebooting'
  <2>1. CASE InstallerDone \/ InstallerWrites
    BY <2>1 DEF ApartInv, Rebooting, InstallerDone, InstallerWrites, InstallerStatus, WriteStatus, NoUpload
  <2>2. CASE SwupdateFlips \/ SwupdateArms
    BY <2>2 DEF ApartInv, Rebooting, SwupdateFlips, SwupdateArms
  <2>3. CASE InstallerBegin \/ InstallerRefuses \/ InstallerVerifies \/ SwupdateFails
    BY <2>3 DEF Rebooting, InstallerBegin, InstallerRefuses, InstallerVerifies, SwupdateFails, InstallerEnds, None
  <2> QED
    BY <2>1, <2>2, <2>3 DEF InstallerStep
<1>7. PolicyHeld'
  <2>1. /\ tmp' # 0 => tmp' # dst'
        /\ \A t \in Transports : upload'[t].pc \notin {"allowed", "staged"}
    BY <1>2, <1>3 DEF ApartInv, PolicyHeld, Inside
  <2>2. edge' \/ installer' \in {"begun", "verify", "write"} => edge \/ installer \in {"begun", "verify", "write"}
    BY DEF InstallerStep, InstallerBegin, InstallerRefuses, InstallerVerifies, InstallerWrites, SwupdateFails,
       SwupdateFlips, SwupdateArms, InstallerDone, InstallerEnds, None, spool
  <2>3. Permitted(dst) => Permitted(dst)'
    BY <1>2 DEF Permitted, Firmware!Blocked, Firmware!Classify
  <2> QED
    BY <2>1, <2>2, <2>3 DEF ApartInv, PolicyHeld
<1> QED
  BY <1>4, <1>5, <1>6, <1>7 DEF ApartInv

\* whatever takes the requests away leaves nothing to hold to
LEMMA BoardApart ==
  ASSUME TypeOK, ApartInv,
         Reboot \/ Unhealthy \/ PowerCut \/ Confirm \/ CheckExpires \/ StreamerDies \/ StreamerStarts \/ TimePasses
  PROVE  ApartInv'
<1>1. CASE PowerUp
  <2>1. /\ installer' = None /\ edge' = FALSE /\ UNCHANGED <<tmp, dst>>
        /\ \A t \in Transports : upload'[t].pc = "none"
    BY <1>1 DEF PowerUp, NoUpload
  <2>2. Separate' /\ Triggered' /\ Rebooting' /\ Downloading'
    BY <2>1 DEF Separate, Triggered, Rebooting, Downloading, Inside, Working, None
  <2>3. PolicyHeld'
    BY <2>1 DEF ApartInv, PolicyHeld, None
  <2> QED
    BY <2>2, <2>3 DEF ApartInv
<1>2. CASE StreamerDies
  <2>1. /\ UNCHANGED <<status, trigger, edge, tmp, dst, content, installer, running>>
        /\ \A t \in Transports : upload'[t].pc = "none"
    BY <1>2 DEF StreamerDies, NoUpload, spool, slots
  <2>2. Separate' /\ Triggered' /\ Rebooting' /\ Downloading'
    BY <2>1 DEF ApartInv, Separate, Triggered, Rebooting, Downloading, Inside, Working
  <2>3. PolicyHeld'
    BY <2>1 DEF ApartInv, PolicyHeld, Permitted, Firmware!Blocked, Firmware!Classify
  <2> QED
    BY <2>2, <2>3 DEF ApartInv
<1>3. CASE Confirm \/ CheckExpires \/ StreamerStarts \/ TimePasses
  <2>1. UNCHANGED <<trigger, edge, tmp, dst, content, installer, running, upload>>
    BY <1>3 DEF Confirm, CheckExpires, StreamerStarts, TimePasses, spool, slots
  <2>2. \/ status' = status
        \/ status.state = "rebooting" /\ (status.aged \/ installer = None)
    BY <1>3 DEF Confirm, CheckExpires, StreamerStarts, TimePasses, spool
  <2>3. Separate' /\ Triggered'
    BY <2>1 DEF ApartInv, Separate, Triggered, Inside, Working
  <2>4. Rebooting' /\ Downloading'
    BY <2>1, <2>2 DEF ApartInv, Rebooting, Downloading, Inside, None
  <2>5. PolicyHeld'
    BY <2>1 DEF ApartInv, PolicyHeld, Permitted, Firmware!Blocked, Firmware!Classify
  <2> QED
    BY <2>3, <2>4, <2>5 DEF ApartInv
<1> QED
  BY <1>1, <1>2, <1>3 DEF Reboot, Unhealthy, PowerCut

LEMMA ApartPreserved == TypeOK /\ (Apart => ApartInv) /\ [Next]_vars => (Apart => ApartInv)'
<1> SUFFICES ASSUME TypeOK, Apart => ApartInv, [Next]_vars, Apart'
             PROVE  ApartInv'
  OBVIOUS
<1>1. Apart
  BY DEF Apart, Next, vars, HandleUpload, UploadStep, OpenPartial, Receive, Incomplete, CheckPolicy, Rename,
     TriggerInstall, AnnounceInstall, InstallerStep, InstallerBegin, InstallerRefuses, InstallerVerifies,
     InstallerWrites, SwupdateFails, SwupdateFlips, SwupdateArms, InstallerDone, Reboot, Confirm, CheckExpires, Unhealthy,
     PowerCut, PowerUp, StreamerDies, StreamerStarts, TimePasses
<1>2. CASE UNCHANGED vars
  <2>1. UNCHANGED <<status, trigger, edge, tmp, dst, content, installer, running, upload>>
    BY <1>2 DEF vars, spool, slots
  <2> QED
    BY <1>1, <2>1 DEF ApartInv, Separate, Triggered, Rebooting, Downloading, PolicyHeld, Permitted,
       Firmware!Blocked, Firmware!Classify
<1>3. CASE Next
  BY <1>1, <1>3, RequestApart, UploadApart, InstallerApart, BoardApart DEF Next, InstallerStep
<1> QED
  BY <1>2, <1>3

\* a status other than the images' changes what is reported, or nothing
LEMMA ReportOrNothing ==
  ASSUME TypeOK, Hung, Hung', UNCHANGED <<running, boot, other>>
  PROVE  [Firmware!FirmwareNext]_Firmware!firmwareVars
<1>1. CASE running = Partial
  BY <1>1 DEF Hung, Firmware!firmwareVars
<1>2. CASE running # Partial
  BY <1>2 DEF Firmware!FirmwareNext, Firmware!Report, Firmware!firmwareVars
<1> QED
  BY <1>1, <1>2

LEMMA StepRefines ==
  ASSUME TypeOK, BoardInv, BoardInv', ApartInv, [Next]_vars
  PROVE  [Firmware!FirmwareNext]_Firmware!firmwareVars
<1>1. CASE UNCHANGED <<running, boot, other>>
  BY <1>1, ReportOrNothing DEF BoardInv
<1>2. CASE PowerUp
  <2>1. CASE trial /\ attempts + 1 >= BootLimit
    BY <1>2, <2>1 DEF PowerUp, Firmware!FirmwareNext, Firmware!Restart
  <2>2. CASE ~(trial /\ attempts + 1 >= BootLimit)
    BY <1>2, <2>2 DEF PowerUp, Firmware!FirmwareNext, Firmware!Restart
  <2> QED
    BY <2>1, <2>2
<1>3. CASE InstallerVerifies
  <2>1. trigger /\ trigger'
    BY <1>3 DEF InstallerVerifies, ApartInv, Triggered, Working
  <2>2. IsBusy /\ IsBusy'
    BY <2>1 DEF IsBusy
  <2> QED
    BY <1>3, <2>2 DEF InstallerVerifies, BoardInv, Hung, None, Firmware!FirmwareNext, Firmware!Overwrite
<1>4. CASE SwupdateFlips
  <2>1. trigger /\ trigger' /\ UNCHANGED <<up, running>>
    BY <1>4 DEF SwupdateFlips, ApartInv, Triggered, Working, spool
  <2>2. IsBusy /\ IsBusy'
    BY <2>1 DEF IsBusy
  <2>3. content[dst] \in Versions /\ ~Firmware!Blocked(running, content[dst])
    BY <1>4 DEF SwupdateFlips, ApartInv, PolicyHeld, Permitted, TypeOK
  <2>4. \E v \in Versions : ~Firmware!Blocked(running, v) /\ boot' = v
    BY <1>4, <2>3, Zenon DEF SwupdateFlips
  <2>5. other' = boot /\ running # Partial
    BY <1>4 DEF SwupdateFlips, BoardInv, Hung, None
  <2>6. Firmware!Install
    BY <2>1, <2>2, <2>4, <2>5 DEF Firmware!Install
  <2> QED
    BY <2>6 DEF Firmware!FirmwareNext
<1> QED
  BY <1>1, <1>2, <1>3, <1>4
     DEF Next, vars, slots, HandleUpload, UploadStep, OpenPartial, Receive, Incomplete, CheckPolicy, Rename,
         TriggerInstall, AnnounceInstall, InstallerStep, InstallerBegin, InstallerRefuses, InstallerWrites,
         SwupdateFails, SwupdateArms, InstallerDone, Reboot, Confirm, CheckExpires, Unhealthy, PowerCut, StreamerDies,
         StreamerStarts, TimePasses

\* A camera on which no two uploads have met inside stage_bundle keeps what
\* CameraFirmware promises to the server that pushes updates: it never answers
\* with an image that is not whole, its image changes only by a restart, and
\* only to a bundle written completely while an update was under way and not
\* known to be older than the running image, or to what the other slot holds.
THEOREM CameraImplementsFirmware == Spec /\ []Apart => FirmwareSpec
<1>1. Init => Firmware!FirmwareInit
  BY DEF Init, Firmware!FirmwareInit
<1>2. Spec => [](TypeOK /\ BoardInv /\ (Apart => ApartInv))
  <2>1. Init => TypeOK /\ (Apart => ApartInv)
    BY InitTypes, InitApart DEF TypeInv
  <2>2. TypeOK /\ (Apart => ApartInv) /\ [Next]_vars => (Apart => ApartInv)'
    BY ApartPreserved
  <2> QED
    BY <2>1, <2>2, BoardAlways, PTL DEF Spec
<1>3. TypeOK /\ BoardInv /\ BoardInv' /\ (Apart => ApartInv) /\ Apart /\ [Next]_vars => [Firmware!FirmwareNext]_Firmware!firmwareVars
  BY StepRefines
<1> QED
  BY <1>1, <1>2, <1>3, PTL DEF Spec, FirmwareSpec, Firmware!FirmwareSpec

=============================================================================
