# Verification of rpi-home-monitor

TLA+ models, TLC configurations and TLAPS proofs for rpi-home-monitor, a home
surveillance system of one Raspberry Pi server (Flask, `src/app/server/monitor`)
and any number of Raspberry Pi cameras (`src/app/camera/camera_streamer`).
Line numbers refer to the sources under `src/`; `PROJECT.json` maps every
definition that models code to its lines.

## 1. The system

| Component | State | Operations | Interacts with |
|---|---|---|---|
| StreamingService (`streaming_service.py`) | `_rec_procs`, `_snap_procs`, the two intents, recordings directory, clip length, one lock | start/stop recorder, restart all on a directory or clip-length change, watchdog | ffmpeg processes, storage fault handler, finalizer threads |
| RecordingScheduler | `_needed` | tick (60 s), nudge (from motion events) | StreamingService, camera control client, OnDemandCoordinator, store |
| StorageService / StorageManager | active directory, USB device | select, eject, fail over | callbacks into StreamingService |
| PairingService (server) | `_pending_pairings`, `_revoked_serials`, certificate files | initiate, exchange, unpair, pending, rebuild on start | store, camera, openssl |
| DiscoveryService | camera rows in the store | report_camera, check_offline, mDNS callbacks | store, audit |
| CameraService | camera rows | add, confirm, update, delete, accept_heartbeat, config notify | store, control client, streaming |
| Camera lifecycle, PairingManager, HeartbeatSender | certificate, key and secret files, 401 counter, lifecycle state | boot, register, pair, forget, beat | server API |
| StreamManager and backends (camera) | running flag, thread, process or picamera backend, reconnect request and generation | start, stop, restart, loop, reconnect, forced exit | control server, heartbeat, resolver threads |
| OTA, server (`ota_service.py`, `api/ota.py`, `camera_ota_client.py`) | status per target, staging directory, bundle library, one-shot bundles, push workers, progress ticker | upload, USB import, verify, install, push, poll, reboot | swupdate, the camera's OTA agent |
| OTA, camera (`ota_agent.py`, `ota_installer.py`, installer script) | status file, spool, trigger file, two slots, boot counter, activation record | receive, check, trigger, install, flip, boot, confirm, fall back | systemd path unit, boot loader |
| Clip pipeline (`streaming_service.py` finalizer, `clip_stamp_queue.py`, `clip_stamper.py`, backfill, directory changes) | `.segments.log`, stamp queues, sentinels, files, directory of each service | finalise, enqueue, stamp, backfill, change directory | StreamingService, storage |
| Clip library (`recordings_service.py`, `loop_recorder.py`, storage cleanup, correlator, snapshots) | files of two layouts, watermarks, risk flags | list, resolve, delete, rotate, clean up | audit, clip pipeline |
| Motion events, notifications, alerts | event list, cursors and preferences, read state | start, end, reap, poll, mark seen, mark read | camera detector, browsers |
| Authentication, sessions, users | user rows, sessions and cache, attempt log, lockouts, TOTP secrets | log in, verify, enrol, change, reset, delete, revoke, refresh | every API route |
| Share links | link rows | mint, revoke, visit | rate limiter |
| Webhooks, off-site backup, configuration backup | settings file, delivery queue, queue file, bundles and snapshots | edit, deliver, retry, mark; discover, upload, give up; export, import, roll back | settings, store, remote services |
| Configuration of cameras, restart schedules | camera record on the server, configuration file on the camera, stamps | update, push, notify, report, answer; wake, note, reboot | heartbeats, OTA |
| Set-up and factory reset | stamp, configuration, Wi-Fi, radio | wizard, connect, rescan, complete; wipe, reboot, fall back | hotspot script, systemd |
| Camera process (`lifecycle.py`, `main.py`, `watchdog_notifier.py`) | lifecycle state, beats, lock, resolver and its cache | advance, beat, signal, ping, resolve | systemd, mDNS, server |
| Diagnostics, system summary, Tailscale, views | none of their own | read and display | |

What is hard about it: the server is a threaded Flask process (`flask run`,
`app/server/config/monitor.service:22`) in which request handlers, the scheduler,
the watchdog, the discovery browser and the offline sweep share dictionaries and
a row store; locks cover single reads and writes, never a read-modify-write.
The camera is a process that is restarted by its own handlers, loses power, and
keeps its identity in several files written one after the other. Between the
two, requests and answers are lost. `PROJECT.json` lists the hazards at their
lines.

What makes each part correct: a recorder ffmpeg is owned by exactly one entry or
thread, follows the intent and comes back or goes away as the policy says; a PIN
is good once, trust comes from an exchange only, and both sides find back to a
state a person can act on; a camera's stream comes back while it is wanted, follows
the server, and a stop leaves nothing behind; an update never brings back an older
release nor leaves a device without an image it was promised; footage is not lost
on the way to a stamped clip, and a full disk is regained; a stored motion is
closed and shown once; what was revoked, changed or spent stays so; a queue at its
limit loses only what it says it loses; what two sides edit converges; whatever is
cut short leaves an appliance that works or offers its wizard.

## 2. Modules

| Module | Models |
|---|---|
| `Recorder` | one camera's recorder in StreamingService, and every thread that drives it |
| `MCRecorder` | `Recorder` for TLC, with the symmetry of process identifiers |
| `RecorderProofs` | theorems about `Recorder` |
| `PairingService` | the server's side of pairing for one camera, on its own (`ServerSpec`: any PIN at any time) |
| `PairingLink` | camera, network and server composed, on the service's actions |
| `PairingProofs` | theorems about both |
| `StreamManager` | the camera's publisher and the threads that start, stop, restart and redirect it |
| `StreamProofs` | theorems about `StreamManager` |
| `CameraFirmware` | the abstract specification of an updatable camera, as the server sees it |
| `OtaCamera` | a camera's two upload transports, spool, installer, A/B boot; implements `CameraFirmware` |
| `OtaCameraProofs` | theorems about `OtaCamera` |
| `OtaServer`, `MCOtaServer` | the server's own update and its push to a camera, composed with `CameraFirmware` |
| `OtaServerProofs` | theorems about `OtaServer` |
| `ClipPipeline` | a clip from ffmpeg to its stamped file, and changes of the recordings directory |
| `ClipLibrary`, `MCLibrary` | listing, resolving, deletion and rotation of clips of both layouts |
| `ClipProofs` | theorems about `ClipPipeline` and `ClipLibrary` |
| `MotionEvents`, `AlertCenter`, `MCEvents` | a motion from the detector to the browser; the alert inbox |
| `LoginRateLimiter`, `Accounts`, `Sessions`, `ShareLinks`, `MCAccess` | signing in, user rows, sessions and their cache, public links; `Accounts` and `ShareLinks` extend the limiter they share |
| `AccessProofs` | theorems about these, and about their composition |
| `Webhooks`, `OffsiteBackup`, `ConfigBackup`, `MCUpkeep` | deliveries against edits of the settings file; the off-site queue; export and import of the configuration |
| `ConfigSync`, `MaintenanceRestart`, `ApplianceSetup`, `CameraRuntime`, `ServerResolver`, `MCAppliance` | a camera's configuration kept twice; scheduled reboots; set-up and reset; the camera process under its watchdog; the search for the server |
| `PartsProofs` | theorems about the compositions `MCEvents`, `MCUpkeep` and `MCAppliance` and their modules |

`MCEvents`, `MCAccess`, `MCUpkeep` and `MCAppliance` each put modules that share no
state, or only a limiter, into one run: a variable (`part`, `eventsPart`, `upkeepPart`,
`appliancePart`) says which of them a behaviour is about, the others stay at their initial state, and every part has
its own fairness. Such a run checks the parts side by side, not their product.

### Recorder

The service's dictionaries are keyed by camera and no step relates two keys, so
one key is followed. A region under `_lock` is one action; between two regions
other threads run. A thread is a label (`pc`) and a stack of return labels,
because `start_recorder` can call the storage-fault handler, which through
`set_recordings_dir` and its callback calls `update_recordings_dir`, which stops
and starts recorders on the same thread before the first start goes on.

| Action | Code |
|---|---|
| `StartCheck`, `PreparePaths`, `StorageFault`, `RetryPaths`, `Launch`, `StoreProc` | `start_recorder` and its helpers |
| `StopIntent`, `PopProc`, `Terminate` | `stop_recorder`, `_stop_process` |
| `RestartActive`, `Settle` | `update_recordings_dir`, `set_clip_duration`, `_sync_recording_dir_dependents` |
| `Evaluate`, `Reconcile` | `tick`, `nudge`, `evaluate`, `_reconcile_camera` |
| `StopCamera`, `UpdateRecordingsDir`, `SetClipDuration` | the administrator's requests |
| `WatchdogSnapshot`, `WatchdogPoll`, `WatchdogDiscard` | `_check_processes` |
| `WantedChanges`, `Crash` | mode, schedule, motion and streaming flag; ffmpeg |

What the scheduler wants is a value of three: `off`; `on` (record now); `wait`
(wanted, but the camera does not stream yet, so the code only asks it to).
Storage faults, failing launches and an ffmpeg that outlives `kill()` by the two
seconds of the second `wait` are choices enabled by constants. The exception of
that second `wait` is followed to where it is caught (`Raise`).

### PairingService and PairingLink

One camera id. Initiations are numbered, and the number stands for the PIN and for
the serial of the certificate made with it; secrets are numbered as they are
issued. The row keeps the status, the secret, the serial and how long ago
`last_seen` is (never, recent, old: older than `OFFLINE_TIMEOUT`).
`ServerSpec` lets any PIN arrive at any time and any other service save any row
that holds no secret or serial not yet issued. `PairingLink` says who really does
what: the camera's lifecycle, the /pair and /unpair pages, heartbeats with their
handler split at the copy and the save of the row, the offline sweep split in the
same way, registration, mDNS, and the administrator.

Choices that bound the model, each with its reason:

- the camera sends one exchange at a time: its page is served by a single-threaded
  `HTTPServer` (`status_server.py:479`), so its handlers are serialised. The server
  serves requests on threads and `exchange_certs` takes no lock: a camera that gave up
  waiting, or lost power, may send another while `MaxHandlers` handlers are at work,
  each with the PIN check, the reading and the saving of the row and the end as steps;
- one initiation generating a certificate at a time;
- a handler that reads and saves the row back to back is one action; the two that
  work in between (`accept_heartbeat`, `check_offline`) are two;
- camera ids and server addresses are configured;
- a file operation of the camera that fails leaves any subset of what it should
  have written or removed (it counts to `MaxMishaps`, as a power loss does).

`shared` records the PINs that two handlers have honoured at a time, which
`OneSecretPerPin` excepts (finding `PinIsOneTime`).

### StreamManager

The loop thread, the control server's thread and the heartbeat thread, each a
label. A publisher is an ffmpeg process at one of two server addresses. The
three backends differ in when a publisher becomes known: a Picamera2 backend is
stored after it has started; an ffmpeg of the command-line backends is stored as
it is launched, five seconds after libcamera-vid or at once.

| Action | Code |
|---|---|
| `LoopTop`, `SweepBefore`, `Aim`, `Warm`, `LaunchPicam`, `LaunchFfmpeg`, `Publish`, `Attach`, `Monitor`, `Await`, `Decide`, `Backoff` | `_stream_loop` and what it calls |
| `Start`, `StartSpawn`; `Stop`, `StopUnrequest`, `StopJoin` | `start`; `stop`, `restart` |
| `TakeBackend`, `HaltBackend`, `SweepAfter`, `KillFfmpeg`, `KillClear` | `_teardown_picam_backend`, `_kill_ffmpeg`, of either thread |
| `SetStreamState`, `Look`, `SetConfig` | `ControlHandler`, also for the heartbeat's pending configuration |
| `EndpointResolved`; `EndpointRefreshed`, `EndpointAdvertised`, `Notify` | `_ServerResolver`; the heartbeat thread |
| `RequestReconnect`, `TimerFires` | `request_endpoint_reconnect` and its watchdog |
| `Boot`, `ProcessEnds`, `ChildExits`, `ServerMoves` | lifecycle, systemd, child processes, the server |

Abstractions: time is left out, so a wait ends at any moment and `_retry_event`
and the backoff's length do not appear; of the reconnect generation only equality
with the latest matters, so a watchdog is of the latest request or of an older
one; a watchdog that ends a process whose loop is alive spends a fault, because
twelve seconds are enough for a loop that is not stuck; setting `resolved_ip` and
comparing it with the previous value are one step of the heartbeat thread; a
refused configuration request changes nothing; the motion runner and its pipe do
not decide anything here.

`disturbed` records that calls of `start` and `stop` have overlapped or that a
join has given up; `Orderly` is its absence.

### CameraFirmware, OtaCamera and OtaServer

`CameraFirmware` is what a server may rely on: a camera that answers runs a whole
image; the image changes only by a restart, to the one that was selected or to what the
other slot holds; what is selected was written while an update was under way and is no
known older release. The other slot may be empty while it is overwritten, and a board
that is started from it does not answer again. `OtaCamera` is the code: two
transports that share `update.swu.partial` and the status file, the busy check, the
policy check before the trigger, the path unit that sees the trigger's edge, the
installer script step by step with the standby slot zeroed, written and flipped, the
boot loader's counter, and `swupdate-check.sh`, which confirms, restarts the board or
gives up at its deadline. Power may be cut and the streamer may die between any two
steps, and swupdate may fail before or after its hook has selected the slot. The boot
loader starts whatever is in the slot it selects: `StartsWhole` says when that is an
image, and `risked` records its one exception, an install that begins during a trial
(finding `NeverBricked`). `FirmwareSpec` is checked as a refinement.
`OtaServer` extends `CameraFirmware`, so the camera a worker talks to is the
specification that the code was shown to implement.

| Action | Code |
|---|---|
| `UploadStep` and its parts, `CheckPolicy` | `ota_agent.py`, `status_server.py`, `ota_installer.py`, `ota_policy.py` |
| `InstallerStep`, `SwupdateFlips`, `InstallerEnds` | `camera-ota-installer.sh` |
| `PowerUp`, `Confirm`, `Unhealthy`, `CheckExpires`, `StreamerStarts` | `boot.cmd.in`, `swupdate-check.sh`, `reconcile_after_boot` |
| `StageBundle`, `InstallServerImage`, `TickerWrites` | `ota_service.py`, `api/ota.py` |
| `Preflight`, `UploadBundle`, `PushEnds` | `camera_ota_client.py`, the push worker of `api/ota.py` |

The camera's run and its refinement except uploads that overlap (`CONSTRAINT Apart`),
the server's properties requests that do (`InOrder`): what two at once can do is among
the findings. A push of a bundle that the policy refuses writes `idle` before it asks
whether a push is under way; `released` records that this has happened to a camera
whose update was, and `OneUpdaterInOrder` excepts it (finding `PushShows`). The
directories may hold what an earlier process stored: one bundle in staging, a full
library, and the one-shot bundle in `Kept`.

### ClipPipeline and ClipLibrary

`ClipPipeline` follows the clips of one camera in order of recording: ffmpeg
writes and lists, the finalizer thread of a directory sweeps the list, the queue's
worker and the backfill probe, encode, validate and replace in place, and a change
of directory goes through the manager, the streaming service and the other
dependents one by one, with recorder restarts and storage faults inside it. A file
is `none`, `part`, `whole` or `stamped`, or a mixture where two stampers share the
temporary path. A listing of a directory is a sequence of all its clips in the order the
code sorts by (`ByName`, `ByAge`). `ClipLibrary` counts space and time in clips. The loop recorder and
the storage cleanup each work through a list made earlier, towards a target and with a
notion of which clip is live that are as old as the list; users delete meanwhile, an
unlink may fail, and the free space may be unreadable, which ends a pass. A
list is in order of one time alone (`Sorted`), so clips of the same time come in any
order.

### MotionEvents and AlertCenter

The detector's hysteresis, the start and end requests, which are lost or handled
late, the server's per-camera rate limit, the event store with auto-close, reaper
and compaction, and the polls, previews and acknowledgements of browser tabs with
quiet hours and coalescing. Alerts are derived on each read; only who has read what
is stored.

### LoginRateLimiter, Accounts, Sessions and ShareLinks

Every handler of these modules reads a row, decides on its copy, and saves the
copy whole. The models keep the read and the save apart, and history variables
record which users or links a save has overlaid (`lost`, `overlaid`); the
properties that hold are about the rest, and the findings about what overlays. The
limiter records times in their order, so the attempts within the window are a suffix of
those recorded (`InWindow`).

### Webhooks, OffsiteBackup and ConfigBackup

`Webhooks`: requests that edit destinations under `_settings_lock`, a writer of other
settings that takes no lock, the queue, workers with one lock per destination,
retries, result marking and the alarm at the threshold. `OffsiteBackup`: the worker's
cycle on a copy of the queue file, a configuration change that resets retries in the
same file, clips that are too young to be looked at or are rewritten after their upload,
answers that are lost, the disk that is absent or fails, a torn file, retention.
`ConfigBackup`: export file by file with the defaults of what is absent, import with
snapshot, replacement and rollback that may fail to remove a file, and other saves
meanwhile; a file's content is the number of the save that wrote it.

### ConfigSync, MaintenanceRestart, ApplianceSetup, CameraRuntime, ServerResolver

`ConfigSync` has three representative fields: one that heartbeats report, one that
they do not, and the stamped schedule. Clocks of the two sides differ by `Lag`.
`MaintenanceRestart` is the loop that server and camera share. A schedule recurs at one
time of day on a set of weekdays, its key is the dated minute, and the state file has
room for one key; a wall clock may be set back, and the file, which is written without
fsync, may be torn by a power loss or fail to be read. `unnoted` keeps the minutes whose
note was lost in one of these ways. `ApplianceSetup` models both appliances (`appliance`):
a radio that is hotspot, client or down, connection attempts in threads of their own, and
resets that remove one thing after the other. The camera's configuration is kept twice,
in memory and in a file (`conf`) that a save empties before it writes and never syncs: a
failed write or a power loss leaves it cut short (`"torn"`). A join that fails may pass
for one (`Mistaken`): when wlan0 is gone the hotspot script ends with status 0. The
privileged helper serialises hotspot commands, so a command is one step. `CameraRuntime` counts time in ticks of five
seconds; the lock that `mark_ready` takes is held for an instant and left out, the one
that `beat` takes is not, because the signal handler may run inside it.
`ServerResolver` has the search thread and the heartbeat thread, each storing an
address, rewriting the cache and clearing the fault in separate steps.

## 3. Runs

| Run | Bounds | Checks |
|---|---|---|
| `recorder_safety` | tick, one administrator, watchdog; two process identifiers; all faults; one change, one administrator request, one crash | `TypeOK`, `OwnsEveryRecorder`, `AliveIsIntended`, `TerminateExclusive`, `LaunchPrivate` |
| `recorder_live` | three identifiers, no faults, orphans forgotten | `EventuallyRecords`, `EventuallyStops` |
| `pairing_link` | two PINs, two attempts, two exchanges served at a time, threshold two, one lost message, one power loss or failed file operation, one server restart, four things people do | `LinkTypeOK`, `OneSecretPerPin`, `NoticesUnpair`, `LinkHeals` |
| `stream` | all backends, one or two server addresses, two loops, two publishers, two requests, one move, one fault | `StreamInv`, `StopIsQuiet`, `StreamsWhenDesired`, `NoStalePublisher` |
| `ota_camera` | two versions, two transports, two uploads, one power cut, two boot attempts | `TypeOK`, `StartsWhole`, `FirmwareSpec` (refinement), `BusyEnds` |
| `ota_server` | three bundles, two push workers, two requests, one fault | `UpdaterInv`, `ServerNeverOlder`, `PushSettles` |
| `clips` | two directories, two clips, queue of one, two events | `ClipInv`, `ListedIsStamped` |
| `library` | disk of four clips, three of them old, two pairs of watermarks, two interventions | `LibraryInv`, `RetentionRecovers` |
| `events` | one camera, two motions, one tab, four ticks; two people, three alerts | `EventsInv`, `EventsClose`, `NothingNotifiedTwice` |
| `access` | two sessions, two threads, three users, two passwords, one recovery code, one link | `AccessInv`, `GuessesLimited`, `NothingUndone`, `LinkKeepsTerms` |
| `upkeep` | one destination, two workers, two requests, two events; two clips, queue of one; five files, two saves, one import | `UpkeepInv`, `ImportAtomic`, `UpkeepSettles` |
| `appliance` | two edits, one loss, clock lag of one; three minutes in days of two and weeks of two days, two edits of the schedule, two mishaps; two attempts, three faults; watchdog of six ticks; two addresses, two changes | `ApplianceInv`, `ApplianceSettles`, `WatchdogRight`, `FollowsServer` |

A name that ends in `Inv`, and `LinkHeals`, `UpkeepSettles`, `ApplianceSettles` and
`WatchdogRight`, is the conjunction of the type invariant, or of the other named
properties of the same kind, in one run; its comment says which.

Why the bounds are enough: a recorder hazard needs two overlapping calls, one
process that is replaced and one that replaces it, and at most one fault; a third
identifier is there where orphans count. With ForgetOrphans the identifier of a
process nobody refers to is reused, because the liveness runs speak of the entry
in `_rec_procs` alone. Pairing hazards need a first pairing, a loss, a crash or an
unpair, and a second pairing: two PINs and four things people do (initiate,
submit, unpair or forget, initiate again). Stream hazards need a request to start, one
that stops or restarts, and a fault or a move in between. Every property of `stream`
but the type invariant assumes `Orderly`, so the run does not go on from a state that is not
(`CONSTRAINT Orderly`): no behaviour that satisfies the assumption is cut, and
enabledness in the fairness conditions is not affected. While calls are orderly one
loop is alive, so the second identifier is there for the mistake of having two; a
second publisher is there for one that a stop has left behind. The server moves
once: when it moves away and back within one launch while the desired state is
stopped, the recorded url is right again, the publisher's is not, and nobody
notices until the next change (hazard at `stream.py:410`).

The other hazards are met by two: two requests or workers, two clips over a
queue of one, two attempts to connect, two edits. Two versions give newer and older;
a boot limit of two gives a trial, a retry and a fallback; a watchdog of six ticks
with looks every two and beats that count for three are the ratios of the code. The
`appliance` run was also checked with two losses (462,434 states before a second
signal was added to `CameraRuntime`), and its invariant with five minutes and three
mishaps (2,524,842 states); the file keeps less, for time. The largest runs have
821,788 (`ota_server`), 886,116 (`events`), 894,982 (`pairing_link`) and 1,780,963
(`recorder_safety`) distinct states.

Fairness. Recorder: a thread that has begun a call is scheduled again, and the tick
and watchdog loops (`while self._running`) run for as long as the service does;
administrators, nudges and crashes owe nothing. Pairing: systemd restarts the
camera process, its loops run, a request that is being served is finished, time
passes and the sweep runs; losses, mishaps and people are bounded
and owe nothing. `pairing_link` turns deadlock checking off: a running camera
whose secret could not be written waits for a person. Stream: systemd restarts the
process, its threads run and its timers fire, and heartbeats go on: the name is resolved
again and an answer arrives again; requests, moves and faults are bounded and owe nothing.
The stream run turns deadlock checking off: a camera that is stopped or whose
address is settled has nothing to do; the same is true of every later run, in which
requests, faults and time are bounded. OTA: handlers, the installer, systemd and the
clock go on; workers end at their deadline. Clips: every thread that has work does
it. Library: the two daemons run. Events: the clock and the reaper run; messages owe
nothing. Upkeep: delivery threads and the backup worker run, and an upload that is
possible again and again is made (strong fairness: the worker cycles for ever, but a
full queue drops a clip, with its attempts, whenever newer ones displace it).
Appliance: the server's handlers, heartbeats and notices; the reset, the wizard and
each attempt; time, the notifier and systemd; the search and the heartbeats. Nothing
is assumed of the main thread of a camera, because it may hang.

What the runs show:

- Processes are handed over without sharing: what a thread has popped to terminate
  or has launched and not yet stored is in nobody else's hands.
- Between calls the service owns every live recorder unless calls overlapped, a
  failover ran inside a start, or an ffmpeg outlived its kill. These three are the
  only ways to lose one.
- A PIN yields one secret whatever is lost, retried, unpaired or restarted, unless a retry
  overlaps the exchange it repeats, and is spent once its exchanges have ended.
- Camera and server always come back to a linked pair or a row the dashboard offers
  for pairing. A row that has never been seen is excepted: `check_offline` skips it.
- While calls do not overlap and no join gives up, the camera has one stream loop, a
  Picamera2 stop is complete wherever it meets the loop, a wanted stream keeps coming
  back to where the server is, and no publisher keeps a stale address. The
  command-line backends do not have the second: an ffmpeg launched while
  `_kill_ffmpeg` works is forgotten, and the next start sweeps it.
- A camera's code keeps `CameraFirmware`'s promise through power cuts at every step of
  an update, while uploads do not overlap; the board starts a whole image unless an
  install began during a trial; an uninterrupted busy status ends.
- The server's busy checks keep installs and pushes apart while requests do not
  overlap and no refused push resets the status, although a push outlives its request;
  its release never goes back; a
  camera's busy status ends.
- A clip keeps its footage unless a backfill has touched it; what a finalizer can see is
  stamped or accounted for; every service ends up on the manager's directory while
  changes do not overlap.
- Space is regained whoever else deletes and although some unlinks fail; rotation is
  announced when its pass is over, unless an error ended the pass.
- Every stored motion is closed; one tab is offered nothing it has acknowledged; a
  mark-all-read reads no more than was listed when it was asked for.
- A revocation that no request overlaps is final; guesses at sign-in per window exceed the
  limit by at most the number of threads; a finished change of an account is undone only by a
  save over a newer row; a link's terms hold for visits that nothing overlaps.
- Webhook edits under the lock and delivery marks do not undo each other; one outage
  raises one alarm; deliveries end. A clip is uploaded twice only if its own record was
  lost, and settles. An import that answers has replaced all its files or none, but for
  a file that did not exist before and could not be removed again.
- Edits of a camera's configuration converge over losses; a scheduled minute reboots
  once while its note stands; a stamped appliance has a network, and a camera its
  configuration, unless the file was cut short, the reset could not remove the stamp or
  overlapped the set-up, or a failed join passed for one; a wedged camera is killed and a punctual one is not; the camera follows a
  server that moves.

### Findings and further configurations

`PROJECT.json` lists, under `findings`, where the code does something else than its
comments or documents say. Each names a property that TLC finds violated under one
of these configurations, which state what the documents say and are expected to
fail. Where one names several properties, TLC stops at the first: check them one
at a time. Where the constants are those of a passing run, its configuration names
the property in a comment: put it in place of the run's own.

| Configuration (module) | Violated | In short |
|---|---|---|
| `MCRecorder_findings` (`MCRecorder`) | `NeverOrphaned`, `WatchdogRespectsStop`, `EventuallyStops` | two starters overwrite each other's process; the watchdog undoes a deliberate stop; a recorder whose ffmpeg keeps dying need never be stopped by mode off |
| `MCPairing_link` (`PairingLink`) | `TrustOnlyByExchange`, `PinIsOneTime` | a heartbeat or an offline sweep saves a row over an unpair; a retry overlaps the exchange it repeats |
| `MCStream_findings` (`StreamManager`) | `StaysStopped`, `SettlesAsAdvertised` | stop during start-up or backoff; two addresses override each other at every heartbeat |
| `MCOtaCamera_findings` (`OtaCamera`) | `NeverOlder`, `AcceptsAgain`, `NeverBricked` | two uploads share a file; an install during a trial zeroes the slot to fall back to; a status overwritten or cut off stays busy |
| `MCOtaServer_findings` (`MCOtaServer`) | `OneUpdater`, `PushShows`, `InstallSettles` | busy checks overlap; a refused push resets the status of the one under way; the ticker writes over the final state |
| `MCClips_findings` (`ClipPipeline`) | `NoFootageLost`, `DeletedStaysDeleted`, `DirsSettle`, `EveryClipStamped` | backfill of the clip being written; replace after delete; overlapping directory changes; a finalizer that keeps the old directory |
| `MCLibrary_pass` (`MCLibrary`) | `OrphanIsKnown`, `SnapshotPossible`, `FindsCovering`, `DateIsGone`, `OldestFirst`, `OneAlertPerCrossing` | code that knows one of the two layouts; a pass that an error ends after deletions; order by a time that stamping renews |
| `MCEvents_findings` (`MCEvents`) | `ActiveWhileOpen`, `NothingMissed`, `NewsIsUnread`, `EndIsKept`, `NothingNotifiedTwice` | late starts reopen; the cursor passes a motion that has not ended; two tabs; reused identifiers and names |
| `MCAccess_findings` (`MCAccess`) | `RevokedWithinTTL`, `ChangesKept`, `DeletedSignedOut`, `EveryLinkKeepsTerms`, `LockLasts`, `EveryGuessLimited` | whole rows saved over newer ones; a challenge outlives a lock; a session guesses without limit |
| `MCUpkeep_pass` (`MCUpkeep`) | `AlwaysAsAsked`, `QueueBounded`, `DisabledGetsNothing`, `AllOrNothing`, `RestoredAsSaid`, `TrustMatches` | a writer without the lock; a limit not applied; retries to an old copy; a crash between two files; a removal whose error is passed over; records without certificates |
| `MCAppliance_findings` (`MCAppliance`) | `AlwaysReady`, `StampedConfigured`, `SuccessIsConnection`, `EveryMinuteOnce`, `MotionArrives`, `LatestPlanWins`, `SkippedWhileBusy`, `ResetOffersWizard`, `HotspotReturns`, `ConnectedOnceSetUp`, `ExitsByItself` | a stamp that stays; a configuration file emptied before it is written; a script that exits with 0 after a failed join; a note that is torn, unreadable or replaced; a field no report confirms; stamps in seconds; a question asked before the delay; a hotspot without its wizard, a wizard without its hotspot, a rescan during a join; a signal inside `beat` |

`NewsIsUnread` is violated in two ways; with `Faults = {}` only the second, an account
under an old name, is left. `NothingNotifiedTwice` is violated with two tabs, and
holds with one unless the store is compacted (`MaxStored = 1`, `MaxMotions = 2` and
`MinDuration = 0` show it): a motion that was dropped is stored again when its end arrives,
with the end's time, which the cursor has not passed. `FindsCovering` is about a pure function and does not depend on the state.

## 4. Proofs

Eight modules of theorems, each for any value of the constants that the named
assumptions allow. The assumptions say that bounds are natural numbers, that a null
value is none of the values, that what is finite in the program is finite and, for the
watchdog, that a look and the age a beat may have fit in `WatchdogSec`, as
`watchdog_notifier.py:31-32` have them; TLC evaluates them in every run. `PROJECT.json` lists the theorems under `theorems`.

Most properties say what holds between calls, or unless something has happened, and
are not inductive: nothing in them says what a thread in the middle of a call knows.
Each proof names that knowledge, label by label, as an invariant of its own, shows it
of every action, and reads the property off it. In the larger modules the proof of an
action first gives the facts about the step that the invariant's parts need, and a
lemma for each part does the rest.

`RecorderProofs`:

- `RecorderTypes`: `[]TypeOK`, inductive as it stands, given that a stack holds
  frames only.
- `TerminateIsExclusive`, `LaunchIsPrivate`: the two are inductive together with the
  types. A launched process is fresh (`FreeProcs` excludes what the entry and every
  thread hold), so publishing it gives it to the entry alone, and popping it gives
  it to one thread alone.
- `ServiceOwnsRecorders`, `RecordersAreIntended`: `CalmInv` says, while nothing is
  disturbed, that one thread is in a call and what its label means: from the check to
  the launch nothing lives and the intent is `wanted`; at the store only what the
  thread has launched lives; at the pop only the entry; at the termination only what
  the thread has popped. Without a failover inside a start no stack holds a retry, so a
  restart's start and stop return to where the recorder is settled. The watchdog's
  poll is about the entry, because nobody else has run since its snapshot.

`PairingProofs`:

- `ServerTypes`, `OneSecretPerPinHolds`: about `ServerSpec`. `OneSecretPerPin` is
  not inductive: nothing in it says what a handler in the middle knows. `PinGone`: a
  pending PIN that has issued a secret has a handler about to drop it; `PinOnce`: a PIN
  outside `shared` has one handler at most, and has issued nothing before that handler's
  save; `PinReal`: PINs not yet drawn have issued none.
- `LinkTypes`: the camera's and the network's types. Needs `Wired`: the counter of
  Unknown camera answers is below the threshold while the heartbeat loop runs, and
  what is on the wire was signed with or answers an issued secret.
- `LinkOneSecretPerPin`: every step of `PairingLink` is a step of the service or leaves
  it alone (`LinkStepRefines`), so the service's invariant holds of the system.

`StreamProofs`:

- `OneStreamLoop`: types, and one loop while calls are orderly. `CallInv`: one caller is
  in a call, a live loop is `cur`, a loop object about to be started is `cur` and no loop
  lives, `_running` is false throughout a stop, and once a stop is over nothing lives.
- `StopLeavesNothing`: `PicamInv` adds who holds a publisher. A live one is the
  manager's, or in the hands of the loop that has launched it or of a thread about to
  halt it, and a stored one has a loop that will take it out again. It is stated for
  Picamera2 only, because the command-line backends do not have it (section 3).

`OtaCameraProofs`:

- `CameraTypes`: `[]TypeOK`, with `Named`: an upload that has been checked has a version.
- `StartsWholeHolds`: `[]StartsWhole`. `Whole`: unless an install began during a trial,
  the slot to start has an image, and so has the other one while a trial is armed or its
  arming is due. `Hung`: nothing runs on a board that was started from an empty slot.
- `CameraImplementsFirmware`: `Spec /\ []Apart => FirmwareSpec`. `Apart` (no two
  uploads have been inside `stage_bundle` together) is a hypothesis because without it
  the refinement is false (finding `NeverOlder`); a behaviour with one upload at a time
  satisfies it. `ApartInv`: the trigger outlives the installer's work and no upload
  overlaps it, the partial file belongs to the upload that has it open and is not the
  file that was renamed, and from the policy check to the write the file that counts is
  incomplete or no known older release. Cuts keep this, since they only drop work.

`OtaServerProofs`:

- `OneUpdateAtATime`: types, and that an install and a push are never under way
  together. A worker shows in the camera's status from the moment it exists
  (`PushesShow`), and beside a worker a request does no more than fill the staging
  directory (`PushAlone`). Both need requests in order (`OneRequest`). The proof of
  `PushesShow` does not go through for a push that the policy refuses; this is how the
  finding `PushShows` was met.
- `ServerOnlyGoesForward`: an action property, `[][...]_vars`. `NothingOlder`: what an
  install has picked is not older, and the path still holds it when `install_bundle`
  reads it, since names in the staging directory differ and nobody else runs.

`ClipProofs`:

- `ClipsKeepFootage`: types (with the bound of the queue), `FootageKept`, `DirsAgree`.
  What is listed, queued or in the worker's hands is closed, so a clip that no backfill
  has touched is copied by one stamper; `CopyRight` follows its temporary file from the
  encoder to the replacement, through deletions of the clip and of the file.
  `ChangeRight` says at each label of a directory change which services have followed.
- `LibraryIsRight`: `LibraryInv` for any capacity, watermarks and stock of clips.
  `LibraryIInv`: a rotation not yet announced has a pass under way that deleted
  something, or an error has ended that pass. What the rest of a list is sorted by does not matter to it.

`AccessProofs`:

- `RevokedSessionsStayOut`: nobody is about to cache a session revoked alone
  (`AloneGone`), and a removal that is still alone has deleted the row while no thread
  is on its way from reading it (`StillAlone`).
- `GuessesAreLimited`: `PaceInv` quantifies over every window that is still open, not
  only the present one, because time passes: in each there are at most as many wrong
  guesses as recorded attempts and threads yet to record, unless it is blocked.
  Cardinalities of suffixes of ordered sequences are lemmas of their own. It is about
  those who sign in: a session that re-authenticates (`Refuse`) is not limited.
- `NothingIsUndone`: `AccountInv`. What a save changes of the row it read is right
  (`SavesRight`), spent codes are used up in every row no save went over, and
  identifiers issued for a pending save occur nowhere else (`NewIdsAreNew`), so a
  save cannot make an old code valid.
- `LinksKeepTerms`: `ShareInv`. A visit's copy agrees with the row as far as pins and
  revocation are set, and a visit that was not refused so far has passed the tests
  before its label.
- `AccessStaysSound`: the composition. The shares part uses the limiter's state without
  the accounts' guesses, so `PaceInv` is carried for the other parts only.

`PartsProofs`, for the three compositions; each invariant is the conjunction of one for
each module, and a step of one part leaves the others' alone:

- `UpkeepIsRight`. Webhooks (`HookIInv`): who holds which lock (`LocksRight`), an edit's
  copy differs from the file by that edit only (`EditsRight`), a destination that is being
  created is known to nobody (`BirthRight`), the failures in the file are those counted
  since the last success (`Counted`), and an outage is told once, or is being told
  (`Told`). Off-site copy (`OffsiteIInv`): in the queue file, the worker's copy and the
  reset's copy no clip has two fates, and what they call uploaded was; what a cycle has
  left to try has none yet (`TodoRight`); and a clip that was uploaded is called so in the
  copy that counts, unless its own record was lost (`NeverAgain`). Configuration backup (`BackupIInv`): below.
- `ImportIsAtomic`: the action property. `JobRight`: unless somebody else saved, the files
  an import is done with have the bundle's content, or the snapshot's when it rolls back
  (or could not be removed), and the others are as they were before it. `ExportRight`: the
  settings, on which an absent hostname falls back, are read before it.
- `ApplianceIsRight`. Restarts (`RestartIInv`): a minute that has brought a reboot is the
  noted one or one whose note was lost, and a check under way is about one that has brought
  none, or whose note was lost. Set-up (`SetupIInv`): unless a reset overlapped it or a
  failed join passed for one, the network is on the disk before an attempt comes to write
  the stamp, and a reset removes the stamp first; `MemoryRight`: a
  camera's memory, which every save writes out whole, has the administrator from an
  attempt's beginning, and the address when the file has it, before the stamp is written
  and while a stamped camera is still in its wizard. `SyncIInv` and `ResolverIInv` are what those modules' types need.
- `WatchdogKillsTheSlow`: `KillIsEarned`, the safety half of `WatchdogRight`. `RuntimeIInv`
  bounds the time since the last ping by the time since the notifier's last look or, when
  the signal handler has locked the main thread out, by a look and the age of its beat;
  with the assumption on `WatchdogSec` a punctual process is never due to be killed.
- `EventsAreRight`. `MotionIInv`: what detectors, requests on their way, store, rows and
  tabs may hold. `AlertIInv`: what is about to be marked as read was listed.
- `SeenIsNotOffered`: `NothingNotifiedTwice` under two hypotheses on the constants, one tab
  for each user (`OneTabEach`) and a store that need not be compacted (`RoomForAll`). The
  code guarantees neither, and without either one it is false (section 3); both hold of the
  run, and of a household that has a browser each and fewer than `MAX_EVENTS` motions.
  `SeenIInv`: a start request is not newer than the event stored for it or than the end
  (`StartsFirst`), a request in progress has its user's cursor (`TabsCurrent`), and what was
  acknowledged is stored and not newer than the cursor (`CursorRight`).

Only model-checked: liveness, which TLAPS does not prove here (`EventuallyRecords`,
`EventuallyStops`, `NoticesUnpair`, `LinkHeals`, `StreamsWhenDesired`,
`NoStalePublisher`, `BusyEnds`, `PushSettles`, `ListedIsStamped`, `RetentionRecovers`,
`EventsClose`, `UpkeepSettles`, `ApplianceSettles`, `WedgedIsKilled`, `FollowsServer`).
Every invariant and action property of a run is proved.

No module declares a RECURSIVE operator.

## 5. Plan

What is left, in this order:

1. The server's scheduler and on-demand viewers, which ask the camera to start and
   stop, composed with `StreamManager`'s desired state.
2. Two cameras in `OtaServer` and `MotionEvents`.

## 6. Not modelled

- On-demand viewers: `api/on_demand.py` and its coordinator count viewers in a
  dictionary and call what `Recorder` and `StreamManager` model; a stop and a start of
  two viewers that cross are not covered (plan, 1).
- The snapshot pipeline of StreamingService has the shape of the recorder's.
- `is_cert_revoked` has no caller, so nothing depends on what the set of revoked
  serials forgets at a restart.
- User names: two rows of one name, which two simultaneous creations can make, are not
  told apart.
- The server's watchdog notifier (a shorter version of the camera's), the privileged
  helper's own checks, LEDs.
- Diagnostics, system summary, health pages, Tailscale, views, validation of single
  settings: reading, formatting and wiring without a state of their own to go wrong in.
- Media encoding, ffmpeg and MediaMTX internals, TLS and certificate contents, S3 and
  HTTP, the network configuration tools, web pages, Yocto images and CI.

Reasons per component are in `PROJECT.json` under `components`.
