--------------------------- MODULE ApplianceSetup ---------------------------
(***************************************************************************)
(* First set-up and factory reset of a server or a camera.  One radio is   *)
(* either the set-up hotspot or a client of the household's network.  The  *)
(* stamp /data/.setup-done decides at boot: without it the hotspot and the *)
(* wizard come up, with it neither does.  The camera's wizard answers one  *)
(* request at a time and connects in threads of its own; the server        *)
(* connects in the request that completes the set-up.                      *)
(***************************************************************************)
EXTENDS Naturals
CONSTANTS
  Tries,        \* attempts to connect that may be under way at once
  MaxFaults     \* bound: power losses, failed writes, removals and commands
VARIABLES
  appliance,         \* "camera" or "server"
  disk,         \* what survives a boot, see Blank
  memory,       \* the administrator and the address in ConfigManager._values of the camera
  conf,         \* camera.conf: "whole", "unsynced" (written since the boot) or "torn"
  radio,        \* wlan0: "ap", "client" or "down"
  wizard,       \* the set-up pages are served
  handler,      \* the wizard's request in progress: "idle", "admin" or "scan"
  credentials,  \* _pending_wifi of the server
  try,          \* per attempt: [at, wired]
  wipe,         \* execute_reset in progress: what it removes next
  muddled,      \* history: a reset kept the stamp or met a set-up, or a failed join passed for one
  gaveUp,       \* history: the hotspot could not be started
  faults
setupVars ==
  <<appliance, disk, memory, conf, radio, wizard, handler, credentials, try, wipe, muddled, gaveUp, faults>>

Resting == [at |-> "idle", wired |-> FALSE]
(* stamp .setup-done, psk the hotspot's password, admin the administrator, *)
(* address SERVER_IP, wifi a saved network, wired set up over Ethernet     *)
Blank == [stamp |-> FALSE, psk |-> FALSE, admin |-> "none", address |-> FALSE,
          wifi |-> FALSE, wired |-> FALSE]
(* Without, and with, what the camera's configuration file holds           *)
Emptied(d) == [d EXCEPT !.admin = "none", !.address = FALSE]
WithValues(d, values) == [d EXCEPT !.admin = values.admin, !.address = values.address]
Loaded(d) == [admin |-> d.admin, address |-> d.address]
(* create_app adds a default administrator where there is none             *)
Seeded(r, d) == IF r = "server" /\ d.admin = "none" THEN [d EXCEPT !.admin = "default"] ELSE d

SetupInit ==
  /\ appliance \in {"camera", "server"} /\ disk = Seeded(appliance, Blank) /\ radio = "ap" /\ wizard = TRUE
  /\ memory = Loaded(disk) /\ conf = "whole"
  /\ handler = "idle" /\ credentials = FALSE /\ try = [t \in Tries |-> Resting]
  /\ wipe = "none" /\ muddled = FALSE /\ gaveUp = FALSE /\ faults = 0

Fault == faults < MaxFaults /\ faults' = faults + 1
Connecting == \E t \in Tries : try[t].at # "idle"

(* camera-hotspot.service is skipped when the stamp is there, stopped first*)
HotspotStarted == IF ~disk.stamp THEN "ap" ELSE IF radio = "ap" THEN "down" ELSE radio

(* A boot from a disk d whose camera.conf is c                             *)
BootFrom(d, c) ==
  /\ disk' = Seeded(appliance, d) /\ memory' = Loaded(disk') /\ conf' = c
  /\ handler' = "idle" /\ credentials' = FALSE /\ try' = [t \in Tries |-> Resting]
  /\ wipe' = "none" /\ UNCHANGED <<appliance, muddled>>

Boot(d, c) ==
  /\ BootFrom(d, c) /\ wizard' = (appliance = "server" \/ ~d.stamp)
  /\ radio' = IF ~d.stamp THEN "ap" ELSE IF d.wifi THEN "client" ELSE "down"
  /\ UNCHANGED gaveUp

Synced == IF conf = "torn" THEN "torn" ELSE "whole"
(* ConfigManager.save does not sync: the power may go before the content   *)
(* is on the disk, the stamp written after it included                     *)
PowerCut ==
  /\ Fault
  /\ \/ Boot(disk, Synced)
     \/ conf = "unsynced" /\ Boot(Emptied(disk), "torn")

(* The hotspot starts neither as a service nor from _start_hotspot         *)
BootWithoutHotspot ==
  /\ ~disk.stamp /\ faults + 1 < MaxFaults /\ faults' = faults + 2
  /\ BootFrom(disk, Synced) /\ wizard' = TRUE /\ radio' = "down" /\ gaveUp' = TRUE

Served ==
  /\ wizard /\ handler = "idle"
  /\ IF appliance = "server" THEN ~disk.stamp ELSE radio # "down"

(* save_and_connect and set_admin_password write the hotspot's password    *)
(* first                                                                   *)
SavePassword ==
  /\ Served /\ (appliance = "server" => disk.admin # "none")
  /\ (appliance = "camera" => \E t \in Tries : try[t].at = "idle")
  /\ disk' = [disk EXCEPT !.psk = TRUE] /\ handler' = "admin"
  /\ UNCHANGED <<appliance, memory, conf, radio, wizard, credentials, try, wipe, muddled, gaveUp, faults>>

(* then the administrator's; the camera starts _do_connect                 *)
SaveAdmin(t) ==
  /\ handler = "admin" /\ try[t].at = "idle" /\ handler' = "idle"
  /\ IF appliance = "camera"
     THEN /\ memory' = [memory EXCEPT !.admin = "chosen"] /\ conf' = "unsynced"
          /\ disk' = WithValues(disk, memory')
     ELSE disk' = [disk EXCEPT !.admin = "chosen"] /\ UNCHANGED <<memory, conf>>
  /\ try' = IF appliance = "camera" THEN [try EXCEPT ![t].at = "join"] ELSE try
  /\ muddled' = (muddled \/ (appliance = "camera" /\ wipe # "none"))
  /\ UNCHANGED <<appliance, radio, wizard, credentials, wipe, gaveUp, faults>>

(* It cannot be saved, and there is no attempt.  ConfigManager.save of the *)
(* camera has emptied the file before it fails                             *)
AdminNotSaved ==
  /\ handler = "admin" /\ Fault /\ handler' = "idle"
  /\ IF appliance = "camera"
     THEN /\ \E set \in {memory.admin, "chosen"} : memory' = [memory EXCEPT !.admin = set]
          /\ disk' = Emptied(disk) /\ conf' = "torn"
     ELSE UNCHANGED <<disk, memory, conf>>
  /\ UNCHANGED <<appliance, radio, wizard, credentials, try, wipe, muddled, gaveUp>>

(* save_wifi_credentials                                                   *)
SaveCredentials ==
  /\ appliance = "server" /\ ~disk.stamp /\ ~credentials /\ credentials' = TRUE
  /\ UNCHANGED <<appliance, disk, memory, conf, radio, wizard, handler, try, wipe, muddled, gaveUp, faults>>

(* complete_setup up to the connection; over Ethernet there is none        *)
CompleteSetup(t, wired) ==
  /\ appliance = "server" /\ ~disk.stamp /\ disk.psk /\ (wired \/ credentials) /\ try[t].at = "idle"
  /\ try' = [try EXCEPT ![t] = [at |-> IF wired THEN "stamp" ELSE "join", wired |-> wired]]
  /\ muddled' = (muddled \/ wipe # "none")
  /\ UNCHANGED <<appliance, disk, memory, conf, radio, wizard, handler, credentials, wipe, gaveUp, faults>>

(* The script's connect, which the root helper runs to its end before any  *)
(* other request                                                           *)
Onward(t) == [try EXCEPT ![t].at = IF appliance = "camera" THEN "address" ELSE "stamp"]
Joined(t) ==
  /\ try[t].at = "join" /\ radio' = "client" /\ disk' = [disk EXCEPT !.wifi = TRUE] /\ try' = Onward(t)
  /\ UNCHANGED <<appliance, memory, conf, wizard, handler, credentials, wipe, muddled, gaveUp, faults>>

(* The join fails and the script starts the hotspot again                  *)
Refused(t) ==
  /\ try[t].at = "join" /\ radio' = "ap" /\ try' = [try EXCEPT ![t] = Resting]
  /\ UNCHANGED <<appliance, disk, memory, conf, wizard, handler, credentials, wipe, muddled, gaveUp, faults>>

(* unless wlan0 is gone: then start_hotspot ends the script with status 0  *)
Mistaken(t) ==
  /\ try[t].at = "join" /\ Fault /\ radio' = "down" /\ try' = Onward(t) /\ muddled' = TRUE
  /\ UNCHANGED <<appliance, disk, memory, conf, wizard, handler, credentials, wipe, gaveUp>>

(* The script is killed at its time limit; nmcli may still connect         *)
TimedOut(t) ==
  /\ try[t].at = "join" /\ Fault /\ try' = [try EXCEPT ![t] = Resting]
  /\ \E r \in {"down", "client"} :
       radio' = r /\ disk' = [disk EXCEPT !.wifi = @ \/ r = "client"]
  /\ UNCHANGED <<appliance, memory, conf, wizard, handler, credentials, wipe, muddled, gaveUp>>

(* config.update; save writes all values in memory, the administrator's too *)
SaveAddress(t) ==
  /\ try[t].at = "address" /\ memory' = [memory EXCEPT !.address = TRUE]
  /\ disk' = WithValues(disk, memory') /\ conf' = "unsynced" /\ try' = [try EXCEPT ![t].at = "stamp"]
  /\ UNCHANGED <<appliance, radio, wizard, handler, credentials, wipe, muddled, gaveUp, faults>>

(* save has emptied the file when the write fails; the thread ends         *)
AddressNotSaved(t) ==
  /\ try[t].at = "address" /\ Fault /\ memory' = [memory EXCEPT !.address = TRUE]
  /\ disk' = Emptied(disk) /\ conf' = "torn" /\ try' = [try EXCEPT ![t] = Resting]
  /\ UNCHANGED <<appliance, radio, wizard, handler, credentials, wipe, muddled, gaveUp>>

(* mark_setup_complete; the server's complete_setup after it               *)
WriteStamp(t) ==
  /\ try[t].at = "stamp" /\ disk' = [disk EXCEPT !.stamp = TRUE, !.wired = try[t].wired]
  /\ credentials' = FALSE /\ try' = [try EXCEPT ![t] = Resting]
  /\ radio' = IF try[t].wired /\ radio = "ap" THEN "down" ELSE radio
  /\ UNCHANGED <<appliance, memory, conf, wizard, handler, wipe, muddled, gaveUp, faults>>

(* The camera's thread ends, the server's request answers 500; the stamp   *)
(* may be there all the same, empty                                        *)
StampNotWritten(t) ==
  /\ try[t].at = "stamp" /\ Fault /\ try' = [try EXCEPT ![t] = Resting]
  /\ disk' \in {disk, [disk EXCEPT !.stamp = TRUE, !.wired = try[t].wired]}
  /\ UNCHANGED <<appliance, memory, conf, radio, wizard, handler, credentials, wipe, muddled, gaveUp>>

(* rescan: the hotspot is stopped for the scan and started again           *)
BeginScan ==
  /\ appliance = "camera" /\ Served /\ handler' = "scan"
  /\ radio' = IF radio = "ap" THEN "down" ELSE radio
  /\ UNCHANGED <<appliance, disk, memory, conf, wizard, credentials, try, wipe, muddled, gaveUp, faults>>

EndScan ==
  /\ handler = "scan" /\ handler' = "idle" /\ radio' = HotspotStarted
  /\ UNCHANGED <<appliance, disk, memory, conf, wizard, credentials, try, wipe, muddled, gaveUp, faults>>

(* _do_setup sees the stamp and stops the wizard between two requests      *)
LeaveSetup ==
  /\ appliance = "camera" /\ wizard /\ handler = "idle" /\ disk.stamp /\ wizard' = FALSE
  /\ UNCHANGED <<appliance, disk, memory, conf, radio, handler, credentials, try, wipe, muddled, gaveUp, faults>>

(* execute_reset, item by item; an item that cannot be removed is skipped  *)
\* mutant of ResetOrder: the stamp goes last
ResetOrderStampLast == [none |-> "config", config |-> "wifi", wifi |-> "stamp", stamp |-> "recover"]

ResetOrder == [none |-> "stamp", stamp |-> "config", config |-> "wifi", wifi |-> "recover"]

BeginReset ==
  /\ wipe = "none" /\ disk.stamp /\ radio # "ap" /\ (appliance = "camera" => ~wizard)
  /\ wipe' = ResetOrder["none"] /\ muddled' = (muddled \/ Connecting)
  /\ UNCHANGED <<appliance, disk, memory, conf, radio, wizard, handler, credentials, try, gaveUp, faults>>

Without(d, item) ==
  CASE item = "stamp" -> [d EXCEPT !.stamp = FALSE]
    [] item = "config" -> Emptied(d)
    [] item = "wifi" -> [d EXCEPT !.wifi = FALSE]

RemoveStored ==
  /\ wipe \in {"stamp", "config", "wifi"} /\ wipe' = ResetOrder[wipe] /\ disk' = Without(disk, wipe)
  /\ radio' = IF wipe = "wifi" THEN "down" ELSE radio
  /\ conf' = IF wipe = "config" THEN "whole" ELSE conf
  /\ UNCHANGED <<appliance, memory, wizard, handler, credentials, try, muddled, gaveUp, faults>>

CannotRemove ==
  /\ wipe \in {"stamp", "config", "wifi"} /\ Fault /\ wipe' = ResetOrder[wipe]
  /\ muddled' = (muddled \/ wipe = "stamp")
  /\ UNCHANGED <<appliance, disk, memory, conf, radio, wizard, handler, credentials, try, gaveUp>>

(* _run_post_reset_recovery                                                *)
RebootIntoSetup == wipe = "recover" /\ Boot(disk, Synced) /\ UNCHANGED faults

Fallback ==
  /\ wipe = "recover" /\ Fault /\ wipe' = "none" /\ radio' = HotspotStarted
  /\ UNCHANGED <<appliance, disk, memory, conf, wizard, handler, credentials, try, muddled, gaveUp>>

GiveUp ==
  /\ wipe = "recover" /\ faults + 1 < MaxFaults /\ faults' = faults + 2
  /\ wipe' = "none" /\ gaveUp' = TRUE
  /\ UNCHANGED <<appliance, disk, memory, conf, radio, wizard, handler, credentials, try, muddled>>

Resetting == RemoveStored \/ CannotRemove \/ RebootIntoSetup \/ Fallback \/ GiveUp
Attempt(t) ==
  \/ Joined(t) \/ Refused(t) \/ Mistaken(t) \/ TimedOut(t) \/ SaveAddress(t) \/ AddressNotSaved(t)
  \/ WriteStamp(t) \/ StampNotWritten(t)
Wizard == EndScan \/ LeaveSetup \/ AdminNotSaved \/ \E t \in Tries : SaveAdmin(t)

SetupNext ==
  \/ PowerCut \/ BootWithoutHotspot \/ SavePassword \/ SaveCredentials \/ BeginScan \/ BeginReset
  \/ Resetting \/ Wizard
  \/ \E t \in Tries : Attempt(t) \/ \E wired \in BOOLEAN : CompleteSetup(t, wired)

(* Threads and requests that have begun go on                              *)
SetupFairness ==
  /\ WF_setupVars(Resetting) /\ WF_setupVars(Wizard)
  /\ \A t \in Tries : WF_setupVars(Attempt(t))
SetupSpec == SetupInit /\ [][SetupNext]_setupVars /\ SetupFairness

SetupTypeOK ==
  /\ appliance \in {"camera", "server"} /\ radio \in {"ap", "client", "down"}
  /\ disk \in [stamp : BOOLEAN, psk : BOOLEAN, admin : {"none", "default", "chosen"},
               address : BOOLEAN, wifi : BOOLEAN, wired : BOOLEAN]
  /\ memory \in [admin : {"none", "default", "chosen"}, address : BOOLEAN]
  /\ conf \in {"whole", "unsynced", "torn"} /\ {wizard, credentials, muddled, gaveUp} \subseteq BOOLEAN
  /\ handler \in {"idle", "admin", "scan"} /\ wipe \in {"none", "stamp", "config", "wifi", "recover"}
  /\ try \in [Tries -> [at : {"idle", "join", "address", "stamp"}, wired : BOOLEAN]]

Connectable == disk.psk /\ (disk.wifi \/ disk.wired)
Configured == appliance = "camera" => disk.address /\ disk.admin = "chosen"

(* A stamped appliance boots without a hotspot and without a wizard, so it *)
(* has a network to join, and a camera its server's address and its        *)
(* administrator unless its file was cut short: whatever power loss,       *)
(* failed write or failed removal ends set-up or reset early, in one       *)
(* attempt or several (_do_connect, complete_setup, execute_reset).        *)
StampedIsReady == disk.stamp => muddled \/ (Connectable /\ (conf = "torn" \/ Configured))

(* "persist changes atomically where practical" (violated: save empties    *)
(* the file first, and a later attempt or a power loss cuts it short)      *)
StampedConfigured == disk.stamp => muddled \/ Configured

(* The same without exception (violated: "Factory reset complete" is the   *)
(* answer although the stamp could not be removed and the rest was)        *)
AlwaysReady == disk.stamp => Connectable /\ Configured

(* "If connection fails, the script restarts the AP. Returns (success,     *)
(* error_message)." (violated: when wlan0 is gone the script fails to do   *)
(* either and exits with 0, and the set-up goes on to its stamp)           *)
SuccessIsConnection == \A t \in Tries : try[t].at = "address" => disk.wifi

(* After a reset the hotspot comes up, by a reboot or without, unless the  *)
(* stamp is still or again there or the hotspot cannot be started:         *)
(* _run_post_reset_recovery.                                               *)
ResetOffersHotspot == wipe = "recover" ~> radio = "ap" \/ disk.stamp \/ gaveUp

(* "Recover into first-boot setup" (violated: without a reboot the camera  *)
(* has the hotspot, and no wizard behind it)                               *)
ResetOffersWizard == wipe = "recover" ~> wizard \/ disk.stamp \/ gaveUp

(* "If WiFi fails, hotspot script restarts the AP for retry" (violated:    *)
(* the script is killed before it does)                                    *)
HotspotReturns ==
  radio = "down" /\ ~disk.stamp /\ wipe = "none" ~> radio = "ap" \/ disk.stamp \/ gaveUp

(* "The connect command handles the AP-to-client transition atomically"    *)
(* (violated: a rescan or an older attempt turns the radio back after the  *)
(* connection, and the set-up is stamped complete on a hotspot)            *)
ConnectedOnceSetUp ==
  appliance = "camera" /\ disk.stamp /\ ~muddled ~> radio = "client" \/ ~disk.stamp \/ muddled
=============================================================================
