------------------------------ MODULE OtaServer ------------------------------
(***************************************************************************)
(* The server's updates: its own (upload, USB import, verify, install,     *)
(* progress ticker, reboot) and a camera's (bundle library, one-shot       *)
(* bundle, push worker).  Administrators' requests run on several threads; *)
(* the status of a target is one dictionary entry that all of them write.  *)
(* The camera is CameraFirmware.                                           *)
(***************************************************************************)
EXTENDS CameraFirmware, Sequences, FiniteSets, SequencesExt

CONSTANTS
  Bundles,      \* server bundles: [name, v, ok]; ok: swupdate accepts it
  Reqs,         \* request threads
  Workers,      \* push workers
  MaxRequests,  \* bound: requests that are made
  MaxFaults,    \* bound: server restarts and camera restarts
  Left,         \* server bundles of which an earlier process may have left one
  Kept,         \* the one-shot bundle an earlier process may have left: a version, or None
  None

ASSUME UpdateAssumption ==
  /\ \A b \in Bundles : b.v \in Versions
  /\ \A S \in SUBSET Versions : S # {} => \E v \in S : \A o \in S : o <= v \* it is finite
  /\ Left \subseteq Bundles
  /\ Kept \subseteq Versions \cup {None}

VARIABLES
  sst,        \* _status["server"], None when the dictionary has no entry
  staging,    \* the staging directory, newest last
  current,    \* the server's release
  standby,    \* the release the server boots next
  req,        \* of each request thread: [pc, b, v, scope]
  ticker,     \* of each request thread: its install's ticker, "off", "wait" or "due"
  rebooting,  \* a reboot is scheduled
  cst,        \* _status of the camera: [state, target, scope]
  library,    \* versions in the reusable library
  custom,     \* version of the one-shot bundle, or None
  known,      \* the camera's release as its row has it
  push,       \* of each worker: [pc, v, scope, seen]
  requests, faults,
  overlapped, \* two requests have been in progress together, or one has begun
              \* between a worker's last report and its end
  released    \* a push that was refused has reset the status of one under way

serverVars == <<sst, staging, current, standby, ticker, rebooting>>
cameraVars == <<cst, library, custom, known, push>>
bounds == <<requests, faults, overlapped, released>>
vars == <<serverVars, cameraVars, req, bounds, firmwareVars>>

CameraBusyStates == {"uploading", "downloading", "verifying", "installing", "rebooting", "validating"}
Idle == [pc |-> "none", b |-> None, v |-> 0, scope |-> None]
NoPush == [pc |-> "none", v |-> 0, scope |-> None, seen |-> FALSE]
NoEntry == [state |-> None, target |-> 0, scope |-> None]

TypeOK ==
  /\ sst \in {None, "idle", "staged", "installing", "installed", "error", "rebooting"}
  /\ staging \in Seq(Bundles) /\ IsInjective(staging)
  /\ current \in Versions /\ standby \in Versions
  /\ req \in [Reqs -> [pc : {"none", "stage", "import", "verify", "install", "swupdate", "ended", "camera", "custom", "push"},
                       b : Bundles \cup {None}, v : Versions \cup {0}, scope : {None, "common", "custom", "done", "failed"}]]
  /\ ticker \in [Reqs -> {"off", "wait", "due"}]
  /\ cst \in [state : CameraBusyStates \cup {None, "idle", "staged", "installed", "error"},
              target : Versions \cup {0}, scope : {None, "common", "custom"}]
  /\ library \subseteq Versions /\ custom \in Versions \cup {None} /\ known \in Versions
  /\ push \in [Workers -> [pc : {"none", "preflight", "upload", "poll", "succeeded", "failed"},
                           v : Versions \cup {0}, scope : {None, "common", "custom"}, seen : BOOLEAN]]
  /\ FirmwareTypeOK

(* the process starts: the directories keep what an earlier one has stored *)
Init ==
  /\ sst = None /\ current \in Versions /\ standby = current
  /\ staging \in {<<>>} \cup {<<b>> : b \in Left}
  /\ req = [r \in Reqs |-> Idle] /\ ticker = [r \in Reqs |-> "off"] /\ rebooting = FALSE
  /\ cst = NoEntry /\ library \in {{}, Versions} /\ custom \in Kept
  /\ FirmwareInit /\ phase = "idle" /\ known = image
  /\ push = [w \in Workers |-> NoPush]
  /\ requests = 0 /\ faults = 0 /\ overlapped = FALSE /\ released = FALSE
-----------------------------------------------------------------------------
(* ota_policy, as the server uses it *)
ServerPolicy(running, target) == Classify(running, target)
Offerable(running, target) == ServerPolicy(running, target) \notin {"downgrade", "same"}

(* get_status: without an entry, a bundle on disk counts as staged *)
ServerState == IF sst = None THEN (IF staging = <<>> THEN "idle" ELSE "staged") ELSE sst
IsBusy == ServerState \in {"uploading", "verifying", "installing", "rebooting"}
ServerInstallActive == ServerState \in {"verifying", "installing", "rebooting"}
CameraBusy == cst.state \in CameraBusyStates

At(r, pc) == req[r].pc = pc
Goto(r, pc, b, scope) == req' = [req EXCEPT ![r] = [pc |-> pc, b |-> b, v |-> 0, scope |-> scope]]
Carry(r, pc, v, scope) == req' = [req EXCEPT ![r] = [pc |-> pc, b |-> None, v |-> v, scope |-> scope]]
Done(r) == req' = [req EXCEPT ![r] = Idle]

Starts(r) ==
  /\ ~rebooting
  /\ At(r, "none") /\ requests < MaxRequests
  /\ requests' = requests + 1
  /\ overlapped' = \/ overlapped
                    \/ \E o \in Reqs : ~At(o, "none")
                    \/ \E w \in Workers : push[w].pc \in {"succeeded", "failed"}
  /\ UNCHANGED faults
Begin(r) == Starts(r) /\ UNCHANGED released
-----------------------------------------------------------------------------
(* The server's own update *)

UploadServerImage(r, b) ==
  /\ Begin(r)
  /\ ~IsBusy
  /\ Goto(r, "stage", b, None)
  /\ UNCHANGED <<serverVars, cameraVars, firmwareVars>>

(* no busy check, and the policy is asked without the running release *)
ImportFromUsb(r, b) ==
  /\ Begin(r)
  /\ Goto(r, "import", b, None)
  /\ UNCHANGED <<serverVars, cameraVars, firmwareVars>>

(* what the path holds now *)
AtPath(name) == {i \in DOMAIN staging : staging[i].name = name}

(* a directory has one file of a name: the new one replaces it *)
Without(name) == IF AtPath(name) = {} THEN staging ELSE RemoveAt(staging, CHOOSE i \in AtPath(name) : TRUE)

StageBundle(r) ==
  /\ req[r].pc \in {"stage", "import"}
  /\ LET b == req[r].b
         running == IF At(r, "stage") THEN current ELSE 0
     IN  \/ /\ ServerPolicy(running, b.v) = "downgrade"
            /\ Done(r)
            /\ UNCHANGED <<sst, staging>>
         \/ /\ ServerPolicy(running, b.v) # "downgrade"
            /\ staging' = Append(Without(b.name), b)
            /\ sst' = "staged"
            /\ Goto(r, "verify", b, None)
  /\ UNCHANGED <<current, standby, ticker, rebooting, cameraVars, firmwareVars, bounds>>

(* verify_bundle reads the path again; a failure empties the whole directory
   and leaves the status as it is *)
VerifyBundle(r) ==
  /\ At(r, "verify")
  /\ staging' = IF \E i \in DOMAIN staging : staging[i].name = req[r].b.name /\ staging[i].ok
                THEN staging ELSE <<>>
  /\ Done(r)
  /\ UNCHANGED <<sst, current, standby, ticker, rebooting, cameraVars, firmwareVars, bounds>>

\* mutant of InstallServerImage: cameras are not asked about
InstallServerImageCamerasIgnored(r) ==
  /\ Begin(r)
  /\ ServerState \notin {"installing", "verifying", "rebooting"}
  /\ staging # <<>>
  /\ LET b == Last(staging)
     IN  \/ /\ ServerPolicy(current, b.v) = "downgrade"
            /\ staging' = Front(staging)
            /\ sst' = "idle"
            /\ UNCHANGED req
         \/ /\ ServerPolicy(current, b.v) # "downgrade"
            /\ Goto(r, "install", b, None)
            /\ UNCHANGED <<staging, sst>>
  /\ UNCHANGED <<current, standby, ticker, rebooting, cameraVars, firmwareVars>>

\* mutant of InstallServerImage: the policy was asked at upload, so not here
InstallServerImageUnchecked(r) ==
  /\ Begin(r)
  /\ ServerState \notin {"installing", "verifying", "rebooting"}
  /\ ~CameraBusy
  /\ staging # <<>>
  /\ Goto(r, "install", Last(staging), None)
  /\ UNCHANGED <<serverVars, cameraVars, firmwareVars>>

(* the request is checked and the newest bundle picked *)
InstallServerImage(r) ==
  /\ Begin(r)
  /\ ServerState \notin {"installing", "verifying", "rebooting"}
  /\ ~CameraBusy
  /\ staging # <<>>
  /\ LET b == Last(staging)
     IN  \/ /\ ServerPolicy(current, b.v) = "downgrade"
            /\ staging' = Front(staging)
            /\ sst' = "idle"
            /\ UNCHANGED req
         \/ /\ ServerPolicy(current, b.v) # "downgrade"
            /\ Goto(r, "install", b, None)
            /\ UNCHANGED <<staging, sst>>
  /\ UNCHANGED <<current, standby, ticker, rebooting, cameraVars, firmwareVars>>

InstallBundle(r) ==
  /\ At(r, "install")
  /\ \/ /\ AtPath(req[r].b.name) = {}
        /\ Done(r)
        /\ UNCHANGED <<sst, ticker>>
     \/ \E i \in AtPath(req[r].b.name) :
          /\ Goto(r, "swupdate", staging[i], None)
          /\ sst' = "installing"
          /\ ticker' = [ticker EXCEPT ![r] = "wait"]
  /\ UNCHANGED <<staging, current, standby, rebooting, cameraVars, firmwareVars, bounds>>

(* three seconds pass; then the ticker writes, whatever has happened since *)
TickerWakes(r) ==
  /\ ticker[r] = "wait"
  /\ ticker' = [ticker EXCEPT ![r] = "due"]
  /\ UNCHANGED <<sst, staging, current, standby, rebooting, req, cameraVars, firmwareVars, bounds>>

TickerWrites(r) ==
  /\ ticker[r] = "due"
  /\ sst' = "installing"
  /\ ticker' = [ticker EXCEPT ![r] = IF At(r, "swupdate") THEN "wait" ELSE "off"]
  /\ UNCHANGED <<staging, current, standby, rebooting, req, cameraVars, firmwareVars, bounds>>

(* swupdate returns, fails or times out *)
SwupdateReturns(r) ==
  /\ At(r, "swupdate")
  /\ \/ /\ req[r].b.ok
        /\ standby' = req[r].b.v
        /\ sst' = "installed"
        /\ Goto(r, "ended", None, "done")
     \/ /\ sst' = "error"
        /\ Goto(r, "ended", None, "failed")
        /\ UNCHANGED standby
  /\ UNCHANGED <<staging, current, ticker, rebooting, cameraVars, firmwareVars, bounds>>

(* the ticker is told to stop and joined; then the reboot is prepared *)
InstallReturns(r) ==
  /\ At(r, "ended") /\ ticker[r] # "due"
  /\ ticker' = [ticker EXCEPT ![r] = "off"]
  /\ Done(r)
  /\ IF req[r].scope = "done"
     THEN sst' = "rebooting" /\ staging' = <<>> /\ rebooting' = TRUE
     ELSE UNCHANGED <<sst, staging, rebooting>>
  /\ UNCHANGED <<current, standby, cameraVars, firmwareVars, bounds>>

(* the process ends: the threads and the status dictionary are gone *)
Forget ==
  /\ sst' = None /\ cst' = NoEntry
  /\ req' = [r \in Reqs |-> Idle] /\ ticker' = [r \in Reqs |-> "off"]
  /\ push' = [w \in Workers |-> NoPush]
  /\ rebooting' = FALSE
  /\ UNCHANGED <<staging, standby, library, custom, known, requests, overlapped, released, firmwareVars>>

ScheduledReboot ==
  /\ rebooting
  /\ Forget
  /\ current' = standby
  /\ UNCHANGED faults

ServerRestarts ==
  /\ faults < MaxFaults /\ faults' = faults + 1
  /\ Forget
  /\ UNCHANGED current
-----------------------------------------------------------------------------
(* A camera's update *)

SetCamera(state, target, scope) == cst' = [state |-> state, target |-> target, scope |-> scope]

(* POST camera/<id>/upload: checked before the transfer, recorded after it *)
UploadCameraImage(r, v) ==
  /\ Begin(r)
  /\ ~CameraBusy
  /\ ServerPolicy(known, v) # "downgrade"
  /\ Carry(r, "camera", v, None)
  /\ UNCHANGED <<serverVars, cameraVars, firmwareVars>>

CameraImageStored(r) ==
  /\ At(r, "camera")
  /\ library' = library \cup {req[r].v}
  /\ cst' = [cst EXCEPT !.state = "staged", !.target = req[r].v]
  /\ Done(r)
  /\ UNCHANGED <<serverVars, custom, known, push, firmwareVars, bounds>>

(* POST camera-library/upload *)
UploadCameraLibrary(r, v) ==
  /\ Begin(r)
  /\ library' = library \cup {v}
  /\ UNCHANGED <<serverVars, cst, custom, known, push, req, firmwareVars>>

(* POST camera/<id>/custom-upload: the old one-shot bundle goes first *)
UploadCameraCustom(r, v) ==
  /\ Begin(r)
  /\ ~CameraBusy
  /\ custom' = None
  /\ IF Offerable(known, v) THEN Carry(r, "custom", v, None) ELSE UNCHANGED req
  /\ UNCHANGED <<serverVars, cst, library, known, push, firmwareVars>>

CameraCustomStored(r) ==
  /\ At(r, "custom")
  /\ custom' = req[r].v
  /\ SetCamera("staged", req[r].v, "custom")
  /\ Done(r)
  /\ UNCHANGED <<serverVars, library, known, push, firmwareVars, bounds>>

DiscardCameraCustom(r) ==
  /\ Begin(r)
  /\ ~CameraBusy
  /\ custom' = None
  /\ SetCamera("idle", 0, None)
  /\ UNCHANGED <<serverVars, library, known, push, req, firmwareVars>>

(* the best bundle of the library that the camera does not have *)
BestCameraBundle ==
  LET offered == {v \in library : Offerable(known, v)}
  IN  IF offered = {} THEN None ELSE CHOOSE v \in offered : \A o \in offered : o <= v

LatestCameraBundle == IF library = {} THEN None ELSE CHOOSE v \in library : \A o \in library : o <= v

(* POST camera/<id>/push: everything is checked, then the request is logged *)
PushCamera(r, scope) ==
  /\ Starts(r)
  /\ phase # "gone"
  /\ ~ServerInstallActive
  /\ LET v == IF scope = "custom" THEN custom ELSE BestCameraBundle
     IN  /\ v # None
         /\ \/ /\ ~Offerable(known, v)
               /\ cst' = [cst EXCEPT !.state = "idle"]
               /\ custom' = None
               /\ released' = (released \/ CameraBusy)
               /\ UNCHANGED req
            \/ /\ Offerable(known, v) /\ ~CameraBusy
               /\ Carry(r, "push", v, scope)
               /\ UNCHANGED <<cst, custom, released>>
  /\ UNCHANGED <<serverVars, library, known, push, firmwareVars>>

StartPush(v, scope) ==
  \E w \in Workers :
    /\ push[w].pc = "none"
    /\ push' = [push EXCEPT ![w] = [pc |-> "preflight", v |-> v, scope |-> scope, seen |-> FALSE]]

PushStarts(r) ==
  /\ At(r, "push")
  /\ SetCamera("uploading", req[r].v, req[r].scope)
  /\ StartPush(req[r].v, req[r].scope)
  /\ Done(r)
  /\ UNCHANGED <<serverVars, library, custom, known, firmwareVars, bounds>>

(* POST cameras/push *)
PushAllEligible(r) ==
  /\ Begin(r)
  /\ ~ServerInstallActive
  /\ LET v == LatestCameraBundle
     IN  /\ v # None /\ Offerable(known, v)
         /\ phase # "gone" /\ ~CameraBusy
         /\ SetCamera("uploading", v, "common")
         /\ StartPush(v, "common")
  /\ UNCHANGED <<serverVars, library, custom, known, req, firmwareVars>>

(* GET status writes too: it retires an installed update and drops bundles
   that are no update any more *)
GetStatus(r) ==
  /\ Begin(r)
  /\ LET installed == cst.state = "installed" /\ cst.target # 0 /\ cst.target = known
         dropped == /\ ~CameraBusy /\ custom # None
                    /\ \/ installed /\ cst.scope = "custom"
                       \/ cst.state # "installed" /\ ~Offerable(known, custom)
         staged == IF staging = <<>> THEN None ELSE Last(staging)
         refused == ServerState = "staged" /\ staged # None /\ ~Offerable(current, staged.v)
     IN  /\ cst' = IF installed THEN [state |-> "idle", target |-> 0, scope |-> None] ELSE cst
         /\ custom' = IF dropped THEN None ELSE custom
         /\ staging' = IF refused THEN Front(staging) ELSE staging
         /\ sst' = IF refused /\ sst # None THEN "idle" ELSE sst
  /\ UNCHANGED <<current, standby, ticker, rebooting, library, known, push, req, firmwareVars>>
-----------------------------------------------------------------------------
(* The push worker: _run_camera_push and CameraOTAClient.push_bundle *)

PushTo(w, pc) == push' = [push EXCEPT ![w].pc = pc]
PushQuiet == UNCHANGED <<serverVars, library, known, req, bounds>>

Preflight(w) ==
  /\ push[w].pc = "preflight"
  /\ SetCamera("uploading", push[w].v, push[w].scope)
  /\ PushTo(w, IF phase = "gone" \/ push[w].v = 0 THEN "upload"
               ELSE IF image = push[w].v THEN "succeeded"
               ELSE IF phase = "busy" THEN "failed" ELSE "upload")
  /\ PushQuiet /\ UNCHANGED <<custom, firmwareVars>>

(* the camera takes the bundle, or refuses it, or is not there *)
UploadBundle(w) ==
  /\ push[w].pc = "upload"
  /\ \/ /\ phase \in {"idle", "error"} /\ ~Blocked(image, push[w].v)
        /\ phase' = "busy" /\ UNCHANGED <<image, next, prior>>
        /\ SetCamera("installing", push[w].v, push[w].scope)
        /\ PushTo(w, "poll")
     \/ /\ PushTo(w, "failed")
        /\ UNCHANGED <<cst, firmwareVars>>
  /\ PushQuiet /\ UNCHANGED custom

PollInstall(w) ==
  /\ push[w].pc = "poll"
  /\ \/ /\ phase = "gone"
        /\ cst' = [cst EXCEPT !.state = IF push[w].seen THEN "rebooting" ELSE @]
        /\ UNCHANGED push
     \/ /\ phase # "gone" /\ image = push[w].v /\ push[w].v # 0
        /\ SetCamera("installed", push[w].v, push[w].scope)
        /\ PushTo(w, "succeeded")
     \/ /\ phase = "busy" /\ (image # push[w].v \/ push[w].v = 0)
        /\ \E s \in {"installing", "rebooting"} : SetCamera(s, push[w].v, push[w].scope)
        /\ push' = [push EXCEPT ![w].seen = TRUE]
     \/ /\ phase = "error" /\ (image # push[w].v \/ push[w].v = 0)
        /\ SetCamera("error", push[w].v, push[w].scope)
        /\ PushTo(w, "failed")
  /\ PushQuiet /\ UNCHANGED <<custom, firmwareVars>>

(* fifteen minutes are over *)
PollTimesOut(w) ==
  /\ push[w].pc = "poll"
  /\ PushTo(w, "failed")
  /\ PushQuiet /\ UNCHANGED <<cst, custom, firmwareVars>>

\* mutant of PushEnds: a failure is logged, and not written to the status
PushEndsSilently(w) ==
  /\ push[w].pc \in {"succeeded", "failed"}
  /\ push' = [push EXCEPT ![w] = NoPush]
  /\ IF push[w].pc = "succeeded"
     THEN SetCamera("installed", push[w].v, push[w].scope) ELSE UNCHANGED cst
  /\ PushQuiet /\ UNCHANGED <<custom, firmwareVars>>

PushEnds(w) ==
  /\ push[w].pc \in {"succeeded", "failed"}
  /\ push' = [push EXCEPT ![w] = NoPush]
  /\ IF push[w].pc = "succeeded"
     THEN /\ SetCamera("installed", push[w].v, push[w].scope)
          /\ custom' = IF push[w].scope = "custom" THEN None ELSE custom
     ELSE cst' = [cst EXCEPT !.state = "error"] /\ UNCHANGED custom
  /\ PushQuiet /\ UNCHANGED firmwareVars
-----------------------------------------------------------------------------
(* The camera, and its heartbeat, which tells the server what it runs *)
CameraMoves ==
  /\ FirmwareNext
  /\ UNCHANGED <<serverVars, cameraVars, req, bounds>>

CameraHeartbeat ==
  /\ phase # "gone" /\ known # image
  /\ known' = image
  /\ UNCHANGED <<serverVars, cst, library, custom, push, req, bounds, firmwareVars>>
-----------------------------------------------------------------------------
Request(r) ==
  \/ \E b \in Bundles : UploadServerImage(r, b) \/ ImportFromUsb(r, b)
  \/ InstallServerImage(r)
  \/ \E v \in Versions : UploadCameraImage(r, v) \/ UploadCameraLibrary(r, v) \/ UploadCameraCustom(r, v)
  \/ DiscardCameraCustom(r) \/ PushAllEligible(r) \/ GetStatus(r)
  \/ \E scope \in {"common", "custom"} : PushCamera(r, scope)

RequestStep(r) ==
  \/ StageBundle(r) \/ VerifyBundle(r) \/ InstallBundle(r) \/ SwupdateReturns(r) \/ InstallReturns(r)
  \/ CameraImageStored(r) \/ CameraCustomStored(r) \/ PushStarts(r)

Tick(r) == TickerWakes(r) \/ TickerWrites(r)

WorkerStep(w) == Preflight(w) \/ UploadBundle(w) \/ PollInstall(w) \/ PollTimesOut(w) \/ PushEnds(w)

Next ==
  \/ \E r \in Reqs : Request(r) \/ RequestStep(r) \/ Tick(r)
  \/ \E w \in Workers : WorkerStep(w)
  \/ ScheduledReboot \/ ServerRestarts \/ CameraMoves \/ CameraHeartbeat

(* threads go on, a poll loop reaches its deadline, a scheduled reboot comes *)
Fairness ==
  /\ \A r \in Reqs : WF_vars(RequestStep(r)) /\ WF_vars(TickerWrites(r))
  /\ \A w \in Workers : WF_vars(Preflight(w) \/ UploadBundle(w) \/ PollTimesOut(w) \/ PushEnds(w))
  /\ WF_vars(ScheduledReboot)

Spec == Init /\ [][Next]_vars /\ Fairness
-----------------------------------------------------------------------------
InOrder == ~overlapped

Pushing == {w \in Workers : push[w].pc \in {"upload", "poll"}}
Installing == {r \in Reqs : At(r, "swupdate")}

(* "reject concurrent admin actions": one install, or one push, at a time *)
OneUpdater == Cardinality(Pushing) + Cardinality(Installing) <= 1

(* The same, as far as the checks go: while requests do not overlap and no
   refused push has reset the status, the busy checks keep the server's install
   and a camera's push apart, though the push outlives the request that started
   it and the server may restart. *)
OneUpdaterInOrder == InOrder /\ ~released => OneUpdater

(* "Refuse if a push for this camera is already in flight": a push that is
   under way shows in the status the requests consult (violated: a push of a
   bundle that is no update any more writes idle before it asks) *)
PushShows == InOrder /\ Pushing # {} => CameraBusy

(* What a state of the updater never is: badly typed (one staged bundle, known
   statuses), or with an install and a push under way together though every request
   waited for the one before and no refused push reset the status (is_busy,
   _start_install, push_camera_update). *)
UpdaterInv == TypeOK /\ OneUpdaterInOrder

(* The release of the server never goes back to an older one, whichever way a
   bundle reached the staging directory, while requests wait for each other
   (classify_update in stage_bundle, verify_bundle and install_server_image). *)
ServerNeverOlder == [][InOrder => ~Blocked(current, current')]_vars

(* A camera status that says work is in progress does not stay: the worker
   ends, at its deadline if not before. *)
PushSettles == CameraBusy ~> ~CameraBusy

(* A server status that says an install is in progress does not stay. *)
InstallSettles == (sst = "installing") ~> (sst # "installing")
=============================================================================
