--------------------------- MODULE OffsiteBackup ---------------------------
(***************************************************************************)
(* The off-site copy of finished clips.  A worker cycles: it loads its     *)
(* queue file, compares it with the clips on disk, uploads what is due     *)
(* and saves the file at the end.  A change of the configuration resets    *)
(* the retries in the same file, with no lock between the two.             *)
(***************************************************************************)
EXTENDS Naturals, FiniteSets, Sequences, SequencesExt
CONSTANTS
  MaxClips,      \* bound: clips finished; they are named in that order
  MaxPending,    \* MAX_PENDING_ITEMS
  MaxFailed,     \* MAX_FAILED_ITEMS
  MaxRetries,    \* MAX_RETRIES
  PerCycle,      \* MAX_UPLOADS_PER_CYCLE
  MaxReconfigs,  \* bound: configuration changes
  MaxTroubles    \* bound: restarts, failed cycles, lost answers, rewritten clips, absences of the disk, sweeps
ASSUME OffsiteBounds ==
  /\ {MaxClips, MaxPending, MaxFailed, PerCycle, MaxReconfigs, MaxTroubles} \subseteq Nat
  /\ MaxRetries \in Nat \ {0}
VARIABLES
  born,          \* clips finished so far
  onDisk,        \* those that are in the recordings directory
  fresh,         \* those written less than _ACTIVE_WRITE_SECONDS ago
  storage,       \* the recordings disk: "there", "absent", or "failing" (every access raises)
  enabled,       \* offsite_backup_enabled, with a complete configuration
  queue,         \* offsite_backup_queue.json
  cycle,         \* the worker: [at, state, todo, tried]
  reset,         \* _reset_retry_state between its load and its save
  wake,          \* _wake_event
  remote,        \* clips the remote storage holds
  copies,        \* history: how often a clip was stored there
  forgotten,     \* history: clips stored there of which the queue file lost the record
  reconfigs, troubles
offsiteVars == <<born, onDisk, fresh, storage, enabled, queue, cycle, reset, wake, remote, copies, forgotten, reconfigs, troubles>>

Clips == 1..MaxClips
NewQueue == [pending |-> <<>>, uploaded |-> {}, failed |-> <<>>]
NoCycle == [at |-> "rest", state |-> NewQueue, todo |-> <<>>, tried |-> 0]
NoReset == [at |-> "none", state |-> NewQueue]
Item(c) == [clip |-> c, attempts |-> 0, due |-> TRUE]
ClipsOf(items) == {items[i].clip : i \in DOMAIN items}
Latest(s, n) == IF Len(s) > n THEN SubSeq(s, Len(s) - n + 1, Len(s)) ELSE s

(* The numbers of a set in order, and the members of a sequence at some    *)
(* places, in order: there is one such sequence.                           *)
Ascending(S) == {s \in [1..Cardinality(S) -> S] : \A i, j \in DOMAIN s : i < j => s[i] < s[j]}
Only(items, places) == {[i \in DOMAIN s |-> items[s[i]]] : s \in Ascending(places)}
WithoutClip(items, c) == Only(items, {i \in DOMAIN items : items[i].clip # c})

OffsiteInit ==
  /\ born = 0 /\ onDisk = {} /\ fresh = {} /\ storage = "there" /\ enabled = TRUE /\ queue = NewQueue
  /\ cycle = NoCycle /\ reset = NoReset /\ wake = FALSE
  /\ remote = {} /\ copies = [c \in Clips |-> 0] /\ forgotten = {}
  /\ reconfigs = 0 /\ troubles = 0

(* Path.exists and is_file; an error counts as there                       *)
Exists(c) == storage = "there" /\ c \in onDisk
Kept(c) == Exists(c) \/ storage = "failing"

(* _discover_finalized_clips: what was not written just now                *)
Discovered == IF storage = "there" THEN onDisk \ fresh ELSE {}

(* _drop_missing_entries, _prune_uploaded_index                            *)
Pruned(s) ==
  {[pending |-> p, uploaded |-> s.uploaded \cap Discovered, failed |-> Latest(f, MaxFailed)] :
     p \in Only(s.pending, {i \in DOMAIN s.pending : Kept(s.pending[i].clip)}),
     f \in Only(s.failed, {i \in DOMAIN s.failed : Kept(s.failed[i])})}

\* mutant of NewClips: only clips later than every known one
NewClipsLater(s) == {c \in Discovered : \A k \in ClipsOf(s.pending) \cup Range(s.failed) \cup s.uploaded : c > k}

NewClips(s) == Discovered \ (ClipsOf(s.pending) \cup Range(s.failed) \cup s.uploaded)

(* _enqueue_new_clips: the cap is looked at only when something is added   *)
Enqueued(s) ==
  IF NewClips(s) = {} THEN {s}
  ELSE {[s EXCEPT !.pending = Latest(@ \o [i \in DOMAIN added |-> Item(added[i])], MaxPending)] :
          added \in Ascending(NewClips(s))}

(* A wait that was not cut short is longer than every backoff of an item   *)
(* that still has retries.                                                 *)
Waited(s, early) ==
  IF early THEN s ELSE [s EXCEPT !.pending = [i \in DOMAIN @ |-> [@[i] EXCEPT !.due = TRUE]]]

(* run_once, up to the uploads                                             *)
BeginCycle(early) ==
  /\ cycle.at = "rest" /\ (early => wake) /\ wake' = FALSE
  /\ \E kept \in Pruned(Waited(queue, early)) : \E s \in Enqueued(kept) :
       cycle' = [at |-> IF enabled THEN "upload" ELSE "save", state |-> s, todo |-> s.pending, tried |-> 0]
  /\ forgotten' = forgotten \cup (queue.uploaded \ Discovered)
  /\ UNCHANGED <<born, onDisk, fresh, storage, enabled, queue, reset, remote, copies, reconfigs, troubles>>

(* The next item of _process_pending_uploads whose backoff is over         *)
Skip ==
  /\ cycle.at = "upload" /\ cycle.todo # <<>> /\ ~Head(cycle.todo).due
  /\ cycle' = [cycle EXCEPT !.todo = Tail(@)]
  /\ UNCHANGED <<born, onDisk, fresh, storage, enabled, queue, reset, wake, remote, copies, forgotten, reconfigs, troubles>>

Trying(c) ==
  /\ cycle.at = "upload" /\ cycle.todo # <<>> /\ Head(cycle.todo).due
  /\ cycle.tried < PerCycle /\ c = Head(cycle.todo).clip

Dropped(s, c) == {[s EXCEPT !.pending = p] : p \in WithoutClip(s.pending, c)}
Uploaded(s, c) == {[d EXCEPT !.uploaded = @ \cup {c}] : d \in Dropped(s, c)}

NextItem(states) ==
  \E s \in states : cycle' = [cycle EXCEPT !.todo = Tail(@), !.tried = @ + 1, !.state = s]

Upload(c) ==
  /\ Trying(c) /\ Exists(c)
  /\ NextItem(Uploaded(cycle.state, c))
  /\ remote' = remote \cup {c} /\ copies' = [copies EXCEPT ![c] = @ + 1]
  /\ UNCHANGED <<born, onDisk, fresh, storage, enabled, queue, reset, wake, forgotten, reconfigs, troubles>>

(* The clip was deleted since the cycle began                              *)
Missing(c) ==
  /\ Trying(c) /\ ~Kept(c)
  /\ NextItem(Dropped(cycle.state, c))
  /\ UNCHANGED <<born, onDisk, fresh, storage, enabled, queue, reset, wake, remote, copies, forgotten, reconfigs, troubles>>

(* _handle_upload_failure                                                  *)
Failure(s, i) ==
  IF i.attempts + 1 >= MaxRetries
  THEN {[d EXCEPT !.failed = Latest(Append(@, i.clip), MaxFailed)] : d \in Dropped(s, i.clip)}
  ELSE {[s EXCEPT !.pending = [k \in DOMAIN @ |-> IF @[k].clip = i.clip
                                                  THEN [@[k] EXCEPT !.attempts = i.attempts + 1, !.due = FALSE]
                                                  ELSE @[k]]]}

UploadFails(c) ==
  /\ Trying(c)
  /\ NextItem(Failure(cycle.state, Head(cycle.todo)))
  /\ UNCHANGED <<born, onDisk, fresh, storage, enabled, queue, reset, wake, remote, copies, forgotten, reconfigs, troubles>>

(* put_object raises although the object was stored                        *)
AnswerLost(c) ==
  /\ Trying(c) /\ Exists(c) /\ troubles < MaxTroubles /\ troubles' = troubles + 1
  /\ NextItem(Failure(cycle.state, Head(cycle.todo)))
  /\ remote' = remote \cup {c} /\ copies' = [copies EXCEPT ![c] = @ + 1] /\ forgotten' = forgotten \cup {c}
  /\ UNCHANGED <<born, onDisk, fresh, storage, enabled, queue, reset, wake, reconfigs>>

EndUploads ==
  /\ cycle.at = "upload" /\ (cycle.todo = <<>> \/ cycle.tried = PerCycle)
  /\ cycle' = [cycle EXCEPT !.at = "save"]
  /\ UNCHANGED <<born, onDisk, fresh, storage, enabled, queue, reset, wake, remote, copies, forgotten, reconfigs, troubles>>

(* _run_retention_cleanup: the objects older than retention_days           *)
Sweep ==
  /\ cycle.at = "save" /\ enabled /\ troubles < MaxTroubles /\ troubles' = troubles + 1
  /\ \E old \in (SUBSET remote) \ {{}} : remote' = remote \ old
  /\ UNCHANGED <<born, onDisk, fresh, storage, enabled, queue, cycle, reset, wake, copies, forgotten, reconfigs>>

SaveCycle ==
  /\ cycle.at = "save"
  /\ queue' = cycle.state /\ cycle' = NoCycle
  /\ UNCHANGED <<born, onDisk, fresh, storage, enabled, reset, wake, remote, copies, forgotten, reconfigs, troubles>>

(* An exception leaves run_once: what the cycle did is not saved           *)
LoseCycle ==
  /\ cycle.at # "rest" /\ troubles < MaxTroubles /\ troubles' = troubles + 1
  /\ cycle' = NoCycle /\ forgotten' = forgotten \cup (cycle.state.uploaded \ queue.uploaded)
  /\ UNCHANGED <<born, onDisk, fresh, storage, enabled, queue, reset, wake, remote, copies, reconfigs>>

(* The file is replaced, not flushed: after a power cut it may be torn,    *)
(* and _load_state takes an unreadable file for an empty queue.            *)
RestartWorker(torn) ==
  /\ troubles < MaxTroubles /\ troubles' = troubles + 1
  /\ cycle' = NoCycle /\ reset' = NoReset /\ wake' = FALSE
  /\ queue' = IF torn THEN NewQueue ELSE queue
  /\ forgotten' = forgotten \cup ((queue.uploaded \cup cycle.state.uploaded) \ queue'.uploaded)
  /\ UNCHANGED <<born, onDisk, fresh, storage, enabled, remote, copies, reconfigs>>

(* update_config, then _reset_retry_state                                  *)
Reconfigure(on) ==
  /\ reset.at = "none" /\ reconfigs < MaxReconfigs /\ reconfigs' = reconfigs + 1
  /\ enabled' = on /\ reset' = [at |-> "load", state |-> NewQueue]
  /\ UNCHANGED <<born, onDisk, fresh, storage, queue, cycle, wake, remote, copies, forgotten, troubles>>

LoadReset ==
  /\ reset.at = "load" /\ reset' = [at |-> "save", state |-> queue]
  /\ UNCHANGED <<born, onDisk, fresh, storage, enabled, queue, cycle, wake, remote, copies, forgotten, reconfigs, troubles>>

Retried(s) ==
  LET again == [i \in DOMAIN s.pending |-> Item(s.pending[i].clip)]
  IN [s EXCEPT !.pending = again \o [i \in DOMAIN s.failed |-> Item(s.failed[i])], !.failed = <<>>]

SaveReset ==
  /\ reset.at = "save"
  /\ queue' = Retried(reset.state) /\ reset' = NoReset /\ wake' = TRUE
  /\ forgotten' = forgotten \cup (queue.uploaded \ reset.state.uploaded)
  /\ UNCHANGED <<born, onDisk, fresh, storage, enabled, cycle, remote, copies, reconfigs, troubles>>

(* Environment: clips are finished, rewritten by the stamper (which may    *)
(* bring a deleted one back) and deleted, and the disk comes and goes      *)
ClipFinished ==
  /\ born < MaxClips /\ born' = born + 1 /\ onDisk' = onDisk \cup {born + 1} /\ fresh' = fresh \cup {born + 1}
  /\ UNCHANGED <<storage, enabled, queue, cycle, reset, wake, remote, copies, forgotten, reconfigs, troubles>>

ClipRewritten(c) ==
  /\ c <= born /\ onDisk' = onDisk \cup {c} /\ fresh' = fresh \cup {c}
  /\ troubles < MaxTroubles /\ troubles' = troubles + 1
  /\ UNCHANGED <<born, storage, enabled, queue, cycle, reset, wake, remote, copies, forgotten, reconfigs>>

ClipAges(c) ==
  /\ c \in fresh /\ fresh' = fresh \ {c}
  /\ UNCHANGED <<born, onDisk, storage, enabled, queue, cycle, reset, wake, remote, copies, forgotten, reconfigs, troubles>>

ClipDeleted(c) ==
  /\ c \in onDisk /\ onDisk' = onDisk \ {c} /\ fresh' = fresh \ {c} /\ troubles < MaxTroubles /\ troubles' = troubles + 1
  /\ UNCHANGED <<born, storage, enabled, queue, cycle, reset, wake, remote, copies, forgotten, reconfigs>>

Mount ==
  /\ \/ storage = "there" /\ troubles < MaxTroubles /\ storage' \in {"absent", "failing"} /\ troubles' = troubles + 1
     \/ storage # "there" /\ storage' = "there" /\ UNCHANGED troubles
  /\ UNCHANGED <<born, onDisk, fresh, enabled, queue, cycle, reset, wake, remote, copies, forgotten, reconfigs>>

WorkerRuns ==
  \/ \E early \in BOOLEAN : BeginCycle(early)
  \/ Skip \/ EndUploads \/ SaveCycle \/ LoadReset \/ SaveReset
  \/ \E c \in Clips : Upload(c) \/ Missing(c) \/ UploadFails(c) \/ AnswerLost(c)

OffsiteNext ==
  \/ WorkerRuns \/ Sweep \/ LoseCycle \/ Mount \/ ClipFinished
  \/ \E on \in BOOLEAN : Reconfigure(on) \/ RestartWorker(on)
  \/ \E c \in Clips : ClipRewritten(c) \/ ClipAges(c) \/ ClipDeleted(c)

(* The worker and the requests run, time passes, and an upload that is     *)
(* tried again and again is some time accepted                             *)
OffsiteFairness ==
  /\ WF_offsiteVars(WorkerRuns)
  /\ \A c \in Clips : WF_offsiteVars(ClipAges(c)) /\ SF_offsiteVars(Upload(c))

OffsiteTypeOK ==
  /\ fresh \subseteq onDisk /\ onDisk \subseteq 1..born /\ remote \subseteq 1..born
  /\ copies \in [Clips -> Nat] /\ forgotten \subseteq Clips
  /\ {enabled, wake} \subseteq BOOLEAN /\ storage \in {"there", "absent", "failing"}
  /\ cycle.at \in {"rest", "upload", "save"} /\ reset.at \in {"none", "load", "save"}
  /\ \A s \in {queue, cycle.state, reset.state} :
       /\ \A i \in DOMAIN s.pending : s.pending[i].attempts < MaxRetries
       /\ s.uploaded \subseteq Clips /\ Range(s.failed) \subseteq Clips /\ Len(s.failed) <= MaxFailed

(* The queue file tells the truth: no clip has two fates in it, a clip it  *)
(* calls uploaded was uploaded, and a clip is uploaded twice only if its   *)
(* own record was lost: the answer did not come, the cycle or the file     *)
(* was not saved, a reset saved an older copy over it, or a cycle did not  *)
(* find the clip on disk or found it too young (run_once).                 *)
UploadedOnce ==
  /\ \A i, j \in DOMAIN queue.pending : queue.pending[i].clip = queue.pending[j].clip => i = j
  /\ ClipsOf(queue.pending) \cap (queue.uploaded \cup Range(queue.failed)) = {}
  /\ queue.uploaded \cap Range(queue.failed) = {}
  /\ \A c \in queue.uploaded : copies[c] > 0
  /\ \A c \in Clips \ forgotten : copies[c] <= 1

(* A clip that stays on disk is uploaded, or given up after its retries,   *)
(* although the queue may drop it whenever more clips than it holds are    *)
(* waiting (_enqueue_new_clips).                                           *)
EveryClipSettles ==
  \A c \in Clips : (c \in onDisk) ~> \/ c \in queue.uploaded \cup Range(queue.failed)
                                   \/ c \notin onDisk \/ storage # "there" \/ ~enabled

(* "bounds pending queue growth" (violated: _reset_retry_state puts the    *)
(* failed items back without looking at the limit)                         *)
QueueBounded == Len(queue.pending) <= MaxPending
=============================================================================
