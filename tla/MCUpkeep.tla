------------------------------ MODULE MCUpkeep ------------------------------
(***************************************************************************)
(* Instances of Webhooks, OffsiteBackup and ConfigBackup; a behaviour is   *)
(* about one part.                                                         *)
(***************************************************************************)
EXTENDS Webhooks, OffsiteBackup, ConfigBackup
VARIABLE upkeepPart

upkeepVars == <<hookVars, offsiteVars, backupVars, upkeepPart>>
InHooks(A) == upkeepPart = "hooks" /\ A /\ UNCHANGED <<offsiteVars, backupVars, upkeepPart>>
InOffsite(A) == upkeepPart = "offsite" /\ A /\ UNCHANGED <<hookVars, backupVars, upkeepPart>>
InBackup(A) == upkeepPart = "backup" /\ A /\ UNCHANGED <<hookVars, offsiteVars, upkeepPart>>

UpkeepInit == HookInit /\ OffsiteInit /\ BackupInit /\ upkeepPart \in {"hooks", "offsite", "backup"}
UpkeepNext == InHooks(HookNext) \/ InOffsite(OffsiteNext) \/ InBackup(BackupNext)
(* HookFairness and OffsiteFairness, each for its part                     *)
UpkeepSpec ==
  /\ UpkeepInit /\ [][UpkeepNext]_upkeepVars
  /\ \A t \in Threads : WF_upkeepVars(InHooks(Works(t)))
  /\ WF_upkeepVars(InOffsite(WorkerRuns))
  /\ \A c \in Clips : WF_upkeepVars(InOffsite(ClipAges(c))) /\ SF_upkeepVars(InOffsite(Upload(c)))
UpkeepTypeOK == HookTypeOK /\ OffsiteTypeOK /\ BackupTypeOK

(* The types, and in every state: the settings hold what was asked of them *)
(* although deliveries mark results there (AsAsked), an outage has raised  *)
(* one alarm (OneAlarm), and the queue file of the off-site backup tells   *)
(* what was uploaded, and a clip goes twice only if its record was lost    *)
(* (UploadedOnce).                                                         *)
UpkeepInv == UpkeepTypeOK /\ AsAsked /\ OneAlarm /\ UploadedOnce

(* What is begun ends: deliveries drain and free their locks               *)
(* (DeliverySettles), and a clip that stays on disk is uploaded or given   *)
(* up although the full queue may drop it (EveryClipSettles).              *)
UpkeepSettles == DeliverySettles /\ EveryClipSettles
=============================================================================
