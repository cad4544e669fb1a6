----------------------------- MODULE MCAppliance -----------------------------
(***************************************************************************)
(* The parts of an appliance that do not share state: ConfigSync,          *)
(* MaintenanceRestart, ApplianceSetup, CameraRuntime and ServerResolver.   *)
(* A behaviour is about one part.                                          *)
(***************************************************************************)
EXTENDS ConfigSync, MaintenanceRestart, ApplianceSetup, CameraRuntime, ServerResolver
VARIABLE appliancePart

applianceVars == <<syncVars, restartVars, setupVars, runtimeVars, resolverVars, appliancePart>>
Parts == {"sync", "restart", "setup", "runtime", "resolver"}
InSync(A) ==
  appliancePart = "sync" /\ A /\ UNCHANGED <<restartVars, setupVars, runtimeVars, resolverVars, appliancePart>>
InRestart(A) ==
  appliancePart = "restart" /\ A /\ UNCHANGED <<syncVars, setupVars, runtimeVars, resolverVars, appliancePart>>
InSetup(A) ==
  appliancePart = "setup" /\ A /\ UNCHANGED <<syncVars, restartVars, runtimeVars, resolverVars, appliancePart>>
InRuntime(A) ==
  appliancePart = "runtime" /\ A /\ UNCHANGED <<syncVars, restartVars, setupVars, resolverVars, appliancePart>>
InResolver(A) ==
  appliancePart = "resolver" /\ A /\ UNCHANGED <<syncVars, restartVars, setupVars, runtimeVars, appliancePart>>

(* Where a part may begin in several ways, only its own behaviours do      *)
ApplianceInit ==
  /\ appliancePart \in Parts /\ SyncInit /\ RestartInit /\ SetupInit /\ RuntimeInit /\ ResolverInit
  /\ (appliancePart # "setup" => appliance = "server")
  /\ (appliancePart # "runtime" => setUp /\ paired)
  /\ (appliancePart # "resolver" => ~named /\ cache = Unknown /\ real = CHOOSE home \in Homes : TRUE)
ApplianceNext ==
  \/ InSync(SyncNext) \/ InRestart(RestartNext) \/ InSetup(SetupNext)
  \/ InRuntime(RuntimeNext) \/ InResolver(ResolverNext)
(* The parts' fairness                                                     *)
ApplianceSpec ==
  /\ ApplianceInit /\ [][ApplianceNext]_applianceVars
  /\ WF_applianceVars(InSync(ServerSyncs)) /\ WF_applianceVars(InSync(Beats)) /\ WF_applianceVars(InSync(SendNotice))
  /\ WF_applianceVars(InSetup(Resetting)) /\ WF_applianceVars(InSetup(Wizard))
  /\ \A t \in Tries : WF_applianceVars(InSetup(Attempt(t)))
  /\ WF_applianceVars(InRuntime(TimePasses)) /\ WF_applianceVars(InRuntime(Look)) /\ WF_applianceVars(InRuntime(Systemd))
  /\ WF_applianceVars(InResolver(Searching)) /\ WF_applianceVars(InResolver(Beating))
ApplianceTypeOK == SyncTypeOK /\ RestartTypeOK /\ SetupTypeOK /\ RuntimeTypeOK /\ ResolverTypeOK

(* The types, and in every state: no scheduled restart runs twice for one  *)
(* minute whose note stands, whatever dies and is started again            *)
(* (OncePerMinute), and an appliance that is stamped as set up has a       *)
(* network and, unless its file was cut short, its configuration           *)
(* (StampedIsReady).                                                       *)
ApplianceInv == ApplianceTypeOK /\ OncePerMinute /\ StampedIsReady

(* What is begun ends: after edits of a camera's configuration the         *)
(* server's record and the camera come to agree (Converges), on the last   *)
(* edit that no other one overlapped (LastEditHolds), and after a factory  *)
(* reset the hotspot is up (ResetOffersHotspot).                           *)
ApplianceSettles == Converges /\ LastEditHolds /\ ResetOffersHotspot

(* The watchdog kills a camera that is wedged, in the end                  *)
(* (WedgedIsKilled), and no camera that is not slow (KillIsEarned).        *)
WatchdogRight == WedgedIsKilled /\ KillIsEarned
=============================================================================
