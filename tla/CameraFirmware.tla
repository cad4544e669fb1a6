--------------------------- MODULE CameraFirmware ---------------------------
(***************************************************************************)
(* What a camera promises about its firmware to whoever pushes updates to  *)
(* it and polls it: which image it runs, which one it boots next, and      *)
(* whether it answers.  OtaCamera implements this; OtaServer relies on it. *)
(***************************************************************************)
EXTENDS Naturals

CONSTANTS
  Versions,  \* version numbers of bundles and images; 0 is a label that cannot be ordered
  NoImage    \* what is in a slot that is being overwritten

ASSUME VersionsAssumption == Versions \subseteq Nat /\ Versions # {} /\ NoImage \notin Versions

VARIABLES
  image,   \* the image that was started last; NoImage: the board hangs
  next,    \* the image the boot loader starts next
  prior,   \* the image of the other slot, to fall back to
  phase    \* what a poller sees: "idle", "error", "busy", or "gone" when nothing answers

firmwareVars == <<image, next, prior, phase>>

(* relation of a bundle to the running image, as classify_update returns it *)
Classify(current, target) ==
  IF current = 0 \/ target = 0 THEN "unknown"
  ELSE IF target = current THEN "same"
  ELSE IF target < current THEN "downgrade" ELSE "upgrade"

Blocked(current, target) == Classify(current, target) = "downgrade"

FirmwareTypeOK ==
  /\ {image, next, prior} \subseteq Versions \cup {NoImage}
  /\ image = NoImage => phase = "gone"
  /\ phase \in {"idle", "error", "busy", "gone"}

FirmwareInit ==
  /\ image \in Versions /\ next = image /\ prior = image
  /\ phase \in {"idle", "gone"}

(* the status a poller sees changes; the images do not *)
Report ==
  /\ image # NoImage
  /\ phase' \in {"idle", "error", "busy", "gone"} \ {phase}
  /\ UNCHANGED <<image, next, prior>>

(* the standby slot is being overwritten *)
Overwrite ==
  /\ image # NoImage /\ phase \notin {"idle", "error"}
  /\ prior' = NoImage
  /\ UNCHANGED <<image, next, phase>>

(* a complete bundle is written to the standby slot and selected: only while
   an update is under way, and never a known older one *)
Install ==
  /\ image # NoImage /\ phase \notin {"idle", "error"}
  /\ \E v \in Versions : ~Blocked(image, v) /\ next' = v
  /\ prior' = next
  /\ UNCHANGED <<image, phase>>

(* the board restarts, and the boot loader may give up on the selected image
   for whatever is in the other slot *)
Restart ==
  /\ \/ UNCHANGED <<next, prior>>
     \/ next' = prior /\ prior' = next
  /\ image' = next'
  /\ phase' = "gone"

FirmwareNext == Report \/ Overwrite \/ Install \/ Restart

FirmwareSpec == FirmwareInit /\ [][FirmwareNext]_firmwareVars
=============================================================================
