---------------------------- MODULE ClipPipeline ----------------------------
(***************************************************************************)
(* What happens to a recorded clip: the recorder writes it and lists it,   *)
(* the finalizer thread queues it, a worker stamps it in place, a backfill *)
(* stamps what has no stamp, and the loop recorder, the storage cleanup    *)
(* and users delete it, while the recordings directory changes underneath. *)
(* One camera; clip n is the n-th recorded, so names are ordered by time.  *)
(* The races of starting and stopping the recorder are Recorder's.         *)
(***************************************************************************)
EXTENDS Naturals, Sequences, FiniteSets, SequencesExt

CONSTANTS
  Dirs,          \* recordings directories
  Internal,      \* the one the server starts with
  Changers,      \* threads that may change the directory
  MaxClips,      \* bound: clips recorded
  QueueMax,      \* QUEUE_MAXSIZE
  MaxEvents,     \* bound: stops, directory changes, faults, restarts, backfills and deletions
  None

Clips == 1..MaxClips
Stampers == {"queue", "backfill"}

ASSUME BoundsAssumption == /\ MaxClips \in Nat \ {0} /\ QueueMax \in Nat \ {0}
                           /\ MaxEvents \in Nat /\ Internal \in Dirs /\ None \notin Dirs

VARIABLES
  made,     \* clips begun so far
  writing,  \* the clip the recorder has open, 0 if none
  file,     \* of each clip: what its path holds
  place,    \* of each clip: the directory it was recorded in
  log,      \* clips listed in .segments.log of the directory
  sealed,   \* clips with a stamp sentinel
  age,      \* clips on disk by modification time, oldest first
  rec,      \* the recorder: "off", "on" or "stopping"
  intent,   \* _recorder_intent
  fin,      \* the finalizer thread: [pc, dir, seen]
  queue,    \* the stamp queue
  st,       \* of each stamper: [pc, clip, out]
  tmp,      \* of each clip: what <clip>.stamped.mp4 holds
  bf,       \* the backfill: [state, inv, cancel]
  dir,      \* directory of "manager", "stream" and "others"
  chg,      \* of each changer: [pc, d, again]
  events,   \* how many such events there have been
  ended,    \* clips whose stamping was given up
  touched,  \* clips that a backfill has begun to stamp
  gone,     \* clips deleted by someone
  overlap   \* two changes of directory have been in progress together

diskVars == <<file, place, log, sealed, age, tmp>>
recVars == <<made, writing, rec, intent>>
stampVars == <<queue, st>>
dirVars == <<dir, chg, overlap>>

ghosts == <<ended, touched, gone>>
vars == <<diskVars, recVars, fin, stampVars, bf, dirVars, events, ghosts>>

NoFinalizer == [pc |-> "none", dir |-> None, seen |-> {}]
NoStamp == [pc |-> "idle", clip |-> 0, out |-> "none"]
NoBackfill == [state |-> "idle", inv |-> <<>>, cancel |-> FALSE]
NoChange == [pc |-> "none", d |-> None, again |-> FALSE]

(* "open": being written; "whole" and "stamped": all of the footage; "cut":
   a stamped copy of a part of it; "torn": the output of an encoder that is
   not finished, or of two at once *)
Contents == {"none", "open", "whole", "stamped", "cut", "torn"}

TypeOK ==
  /\ made \in 0..MaxClips /\ writing \in {0, made}
  /\ file \in [Clips -> Contents] /\ place \in [Clips -> Dirs \cup {None}]
  /\ log \subseteq 1..made /\ sealed \subseteq 1..made
  /\ age \in Seq(Clips) /\ IsInjective(age) /\ ToSet(age) = {c \in Clips : file[c] # "none"}
  /\ rec \in {"off", "on", "stopping"} /\ intent \in {"wanted", "stopped"}
  /\ fin \in [pc : {"none", "sweep", "decide"}, dir : Dirs \cup {None}, seen : SUBSET Clips]
  /\ queue \in Seq(Clips) /\ Len(queue) <= QueueMax
  /\ st \in [Stampers -> [pc : {"idle", "probe", "encode", "validate", "replace", "seal"}, clip : 0..MaxClips,
                          out : {"none", "here", "unlinked", "clip"}]]
  /\ tmp \in [Clips -> {"none", "part", "partcut", "done", "donecut", "mixed"}]
  /\ bf \in [state : {"idle", "running", "cancelling"}, inv : Seq(Clips), cancel : BOOLEAN]
  /\ dir \in [{"manager", "stream", "others"} -> Dirs]
  /\ chg \in [Changers -> [pc : {"none", "stream", "restart", "sync", "others"}, d : Dirs \cup {None}, again : BOOLEAN]]

Init ==
  /\ made = 0 /\ writing = 0 /\ rec = "off" /\ intent = "stopped"
  /\ file = [c \in Clips |-> "none"] /\ place = [c \in Clips |-> None]
  /\ log = {} /\ sealed = {} /\ age = <<>> /\ tmp = [c \in Clips |-> "none"]
  /\ fin = NoFinalizer /\ queue = <<>> /\ st = [s \in Stampers |-> NoStamp] /\ bf = NoBackfill
  /\ dir = [x \in {"manager", "stream", "others"} |-> Internal]
  /\ chg = [t \in Changers |-> NoChange]
  /\ events = 0
  /\ ended = {} /\ touched = {} /\ gone = {} /\ overlap = FALSE
-----------------------------------------------------------------------------
(* the clips of a set in order: a directory listing sorted by name, and what is left
   of the clips by age.  There is one such sequence. *)
Listings(S) == {s \in [1..Cardinality(S) -> S] : ToSet(s) = S}
ByName(S) == {s \in Listings(S) : \A i, j \in DOMAIN s : i < j => s[i] < s[j]}
Older(c, o) == \E i, j \in DOMAIN age : i < j /\ age[i] = c /\ age[j] = o
ByAge(S) == {s \in Listings(S) : \A i, j \in DOMAIN s : i < j => Older(s[i], s[j])}

Eventful == events < MaxEvents /\ events' = events + 1

(* The recorder *)

(* an alive finalizer keeps its thread, and with it its directory and log *)
StartFinalizer(d) ==
  fin' = IF fin.pc # "none" THEN fin ELSE [pc |-> "sweep", dir |-> d, seen |-> {}]

(* ffmpeg is launched in directory d; whether it keeps an existing list there is
   its own affair *)
LaunchIn(d) ==
  /\ rec' = "on" /\ intent' = "wanted"
  /\ \E keep \in BOOLEAN : log' = IF keep THEN log ELSE {c \in log : place[c] # d}
  /\ ended' = ended \cup (log \ log')
  /\ StartFinalizer(d)
  /\ UNCHANGED <<made, writing, file, place, sealed, age, tmp, stampVars, bf, touched, gone>>

Changing == \E t \in Changers : chg[t].pc # "none"
Restarting == \E t \in Changers : chg[t].pc = "restart"

(* start_recorder, by the scheduler *)
StartRecorder ==
  /\ rec = "off" /\ made < MaxClips /\ ~Restarting
  /\ LaunchIn(dir["stream"])
  /\ UNCHANGED <<dirVars, events>>

(* the directory cannot be written: the fault handler moves the manager to d, whose
   callback moves the rest, before the start goes on *)
FallBack(d) ==
  /\ Eventful /\ d # dir["stream"]
  /\ dir' = [x \in DOMAIN dir |-> d]
  /\ LaunchIn(d)

StartRecorderFault ==
  /\ rec = "off" /\ made < MaxClips /\ ~Restarting
  /\ \E d \in Dirs : FallBack(d)
  /\ overlap' = (overlap \/ Changing)
  /\ UNCHANGED chg

(* ffmpeg closes the segment, lists it and opens the next one *)
Close(c) ==
  /\ file' = [file EXCEPT ![c] = IF @ = "open" THEN "whole" ELSE @]
  /\ log' = log \cup {c}

Segment ==
  /\ rec = "on" /\ made < MaxClips
  /\ made' = made + 1 /\ writing' = made + 1
  /\ LET closed == IF writing = 0 THEN file ELSE [file EXCEPT ![writing] = IF @ = "open" THEN "whole" ELSE @]
     IN  file' = [closed EXCEPT ![made + 1] = "open"]
  /\ log' = IF writing = 0 THEN log ELSE log \cup {writing}
  /\ place' = [place EXCEPT ![made + 1] = dir["stream"]]
  /\ age' = Append(age, made + 1)
  /\ UNCHANGED <<sealed, tmp, rec, intent, fin, stampVars, bf, dirVars, events, ghosts>>

(* stop_recorder pops the process first ... *)
StopRecorder ==
  /\ rec = "on" /\ Eventful
  /\ rec' = "stopping" /\ intent' = "stopped"
  /\ UNCHANGED <<diskVars, made, writing, fin, stampVars, bf, dirVars, ghosts>>

(* ... and then terminates it; ffmpeg closes its segment on the way out *)
RecorderExits ==
  /\ rec = "stopping"
  /\ rec' = "off" /\ writing' = 0
  /\ IF writing = 0 THEN UNCHANGED <<file, log>> ELSE Close(writing)
  /\ UNCHANGED <<made, intent, place, sealed, age, tmp, fin, stampVars, bf, dirVars, events, ghosts>>
-----------------------------------------------------------------------------
(* The finalizer thread and the stamp queue *)

CompletedSegmentNames(d) == {c \in log : place[c] = d}

\* mutant of Enqueue: a full queue drops the new clips, without a record
EnqueueDropsNew(q, new) ==
  [q |-> SubSeq(q \o new, 1, IF Len(q \o new) < QueueMax THEN Len(q \o new) ELSE QueueMax), dropped |-> {}]

(* enqueue, for each of the new ones in turn: a full queue loses its oldest entry *)
Enqueue(q, new) ==
  LET all == q \o new
      over == IF Len(all) > QueueMax THEN Len(all) - QueueMax ELSE 0
  IN  [q |-> SubSeq(all, over + 1, Len(all)), dropped |-> {all[i] : i \in 1..over}]

(* names that are new in the list, in order, if their clip is still there *)
EnqueueNewSegments ==
  \E new \in ByName({c \in CompletedSegmentNames(fin.dir) \ fin.seen : file[c] # "none"}) :
    LET after == Enqueue(queue, new)
    IN  queue' = after.q /\ ended' = ended \cup after.dropped

Sweep ==
  /\ fin.pc = "sweep"
  /\ EnqueueNewSegments
  /\ fin' = [fin EXCEPT !.seen = CompletedSegmentNames(fin.dir), !.pc = "decide"]
  /\ UNCHANGED <<diskVars, recVars, st, bf, dirVars, events, touched, gone>>

(* a stopped recorder ends the thread, after one last sweep; _rec_procs has no
   entry once the process is popped *)
Decide ==
  /\ fin.pc = "decide"
  /\ IF intent = "stopped"
     THEN EnqueueNewSegments /\ fin' = NoFinalizer
     ELSE fin' = [fin EXCEPT !.pc = "sweep"] /\ UNCHANGED <<queue, ended>>
  /\ UNCHANGED <<diskVars, recVars, st, bf, dirVars, events, touched, gone>>

RunWorker ==
  /\ queue # <<>> /\ st["queue"].pc = "idle"
  /\ queue' = Tail(queue)
  /\ st' = [st EXCEPT !["queue"] = [pc |-> "probe", clip |-> Head(queue), out |-> "none"]]
  /\ UNCHANGED <<diskVars, recVars, fin, bf, dirVars, events, ghosts>>
-----------------------------------------------------------------------------
(* ClipStamper.stamp, for the queue's worker and for the backfill *)

Is(s, pc) == st[s].pc = pc
Clip(s) == st[s].clip
StepTo(s, pc) == [st EXCEPT ![s].pc = pc]
Ends(s) == [st EXCEPT ![s] = NoStamp]
Others(s) == Stampers \ {s}
(* the path of the temporary file is taken from the one who writes it *)
Taken(new, c, where) == [x \in Stampers |-> IF new[x].clip = c /\ new[x].out = "here" THEN [new[x] EXCEPT !.out = where] ELSE new[x]]
Newest(c) == {Append(a, c) : a \in ByAge(ToSet(age) \ {c})}

IsStampedProbe(c) == file[c] \in {"stamped", "cut"}

(* missing clip, clip stamped before, or a new encode with -y *)
Probe(s) ==
  /\ Is(s, "probe")
  /\ LET c == Clip(s)
     IN  IF file[c] = "none" \/ IsStampedProbe(c)
         THEN /\ st' = Ends(s)
              /\ sealed' = IF file[c] = "none" THEN sealed ELSE sealed \cup {c}
              /\ UNCHANGED tmp
         ELSE /\ st' = [st EXCEPT ![s].pc = "encode", ![s].out = "here"]
              /\ tmp' = [tmp EXCEPT ![c] = IF \E o \in Others(s) : Clip(o) = c /\ Is(o, "encode") /\ st[o].out = "here" THEN "mixed"
                                           ELSE IF file[c] = "whole" THEN "part" ELSE "partcut"]
              /\ UNCHANGED sealed
  /\ UNCHANGED <<file, place, log, age, recVars, fin, queue, bf, dirVars, events, ghosts>>

(* the end of the encoder: an output at the temporary path, at the clip's (if
   another stamper has moved it there meanwhile), or nowhere *)
Encode(s) ==
  /\ Is(s, "encode")
  /\ LET c == Clip(s)
     IN  /\ tmp' = IF st[s].out # "here" THEN tmp
                   ELSE [tmp EXCEPT ![c] = CASE @ = "part" -> "done" [] @ = "partcut" -> "donecut" [] OTHER -> "mixed"]
         /\ file' = IF st[s].out = "clip" /\ file[c] = "torn" THEN [file EXCEPT ![c] = "stamped"] ELSE file
  /\ st' = StepTo(s, "validate")
  /\ UNCHANGED <<place, log, sealed, age, recVars, fin, queue, bf, dirVars, events, ghosts>>

(* a failure or a timeout: the temporary files are removed, whoever wrote them *)
EncodeFails(s) ==
  /\ Is(s, "encode") /\ Eventful
  /\ st' = Taken(Ends(s), Clip(s), "unlinked")
  /\ tmp' = [tmp EXCEPT ![Clip(s)] = "none"]
  /\ ended' = ended \cup {Clip(s)}
  /\ UNCHANGED <<file, place, log, sealed, age, recVars, fin, queue, bf, dirVars, touched, gone>>

(* ffprobe on whatever the temporary path holds now *)
Validate(s) ==
  /\ Is(s, "validate")
  /\ LET c == Clip(s)
         bad == /\ st' = Taken(Ends(s), c, "unlinked")
                /\ tmp' = [tmp EXCEPT ![c] = "none"]
                /\ ended' = ended \cup {c}
         good == st' = StepTo(s, "replace") /\ UNCHANGED <<tmp, ended>>
     IN  CASE tmp[c] = "none" -> bad
           [] tmp[c] \in {"done", "donecut"} -> good
           [] OTHER -> bad \/ good
  /\ UNCHANGED <<file, place, log, sealed, age, recVars, fin, queue, bf, dirVars, events, touched, gone>>

Installed(c) ==
  CASE tmp[c] = "done" -> "stamped"
    [] tmp[c] = "donecut" -> "cut"
    [] OTHER -> "torn"

\* mutant of Replace: the output is moved into place while it is being written
ReplaceUnvalidated(s) ==
  /\ st[s].pc \in {"encode", "replace"}
  /\ LET c == Clip(s)
     IN  /\ file' = [file EXCEPT ![c] = Installed(c)]
         /\ age' \in Newest(c)
         /\ tmp' = [tmp EXCEPT ![c] = "none"]
         /\ st' = Taken(StepTo(s, "seal"), c, "clip")
  /\ UNCHANGED <<ended, place, log, sealed, recVars, fin, queue, bf, dirVars, events, touched, gone>>

(* os.replace, whether the clip is still there or not; without a temporary file
   it raises and the attempt has failed *)
Replace(s) ==
  /\ Is(s, "replace")
  /\ LET c == Clip(s)
     IN  IF tmp[c] = "none"
         THEN /\ st' = Ends(s) /\ ended' = ended \cup {c}
              /\ UNCHANGED <<file, age, tmp>>
         ELSE /\ file' = [file EXCEPT ![c] = Installed(c)]
              /\ age' \in Newest(c)
              /\ tmp' = [tmp EXCEPT ![c] = "none"]
              /\ st' = Taken(StepTo(s, "seal"), c, "clip")
              /\ UNCHANGED ended
  /\ UNCHANGED <<place, log, sealed, recVars, fin, queue, bf, dirVars, events, touched, gone>>

Seal(s) ==
  /\ Is(s, "seal")
  /\ sealed' = sealed \cup {Clip(s)}
  /\ st' = Taken(Ends(s), Clip(s), "unlinked")
  /\ tmp' = [tmp EXCEPT ![Clip(s)] = "none"]
  /\ UNCHANGED <<file, place, log, age, recVars, fin, queue, bf, dirVars, events, ghosts>>
-----------------------------------------------------------------------------
(* TimestampBackfillService *)

UnstampedInventory == ByName({c \in Clips : file[c] # "none" /\ place[c] = dir["others"] /\ c \notin sealed})

BackfillStart ==
  /\ bf.state = "idle" /\ Eventful
  /\ \E inv \in UnstampedInventory : bf' = [state |-> "running", inv |-> inv, cancel |-> FALSE]
  /\ UNCHANGED <<diskVars, recVars, fin, stampVars, dirVars, ghosts>>

BackfillCancel ==
  /\ bf.state = "running"
  /\ bf' = [bf EXCEPT !.state = "cancelling", !.cancel = TRUE]
  /\ UNCHANGED <<diskVars, recVars, fin, stampVars, dirVars, events, ghosts>>

(* the thread takes the next clip of its inventory, or ends *)
BackfillRun ==
  /\ bf.state # "idle" /\ Is("backfill", "idle")
  /\ IF bf.inv = <<>> \/ bf.cancel
     THEN bf' = NoBackfill /\ UNCHANGED <<st, touched>>
     ELSE /\ bf' = [bf EXCEPT !.inv = Tail(@)]
          /\ st' = [st EXCEPT !["backfill"] = [pc |-> "probe", clip |-> Head(bf.inv), out |-> "none"]]
          /\ touched' = touched \cup {Head(bf.inv)}
  /\ UNCHANGED <<diskVars, recVars, fin, queue, dirVars, events, ended, gone>>
-----------------------------------------------------------------------------
(* Deletion.  The sentinel stays behind. *)

Unlink(cs) ==
  /\ Eventful
  /\ file' = [c \in Clips |-> IF c \in cs THEN "none" ELSE file[c]]
  /\ age' \in ByAge(ToSet(age) \ cs)
  /\ gone' = gone \cup cs
  /\ UNCHANGED <<place, log, sealed, recVars, fin, queue, bf, dirVars, ended, touched>>

Visible(c) == file[c] # "none" /\ place[c] = dir["manager"]

DeleteClip(c) ==
  /\ Visible(c)
  /\ Unlink({c})
  /\ UNCHANGED <<tmp, st>>

(* delete_camera_recordings, delete_all_recordings: the tree of the camera goes,
   temporary files and sentinels with it *)
DeleteCameraRecordings ==
  /\ Eventful /\ \E c \in Clips : Visible(c)
  /\ LET cs == {c \in Clips : place[c] = dir["manager"] /\ file[c] # "none"}
         all == {c \in Clips : place[c] = dir["manager"]}
     IN  /\ file' = [c \in Clips |-> IF c \in cs THEN "none" ELSE file[c]]
         /\ age' \in ByAge(ToSet(age) \ cs)
         /\ gone' = gone \cup cs
         /\ tmp' = [c \in Clips |-> IF c \in all THEN "none" ELSE tmp[c]]
         /\ st' = [s \in Stampers |-> IF Clip(s) \in all /\ st[s].out = "here" THEN [st[s] EXCEPT !.out = "unlinked"] ELSE st[s]]
         /\ sealed' = sealed \ all
         /\ log' = log \ all
  /\ UNCHANGED <<place, recVars, fin, queue, bf, dirVars, ended, touched>>

(* LoopRecorder.tick below the watermark: the oldest by modification time that
   is not live goes.  A clip that is being written is always live. *)
LoopRecorderDeletes ==
  /\ LET old == {c \in ToSet(age) : place[c] = dir["others"] /\ c # writing}
     IN  \E c \in old : (\A o \in old \ {c} : Older(c, o)) /\ Unlink({c})
  /\ UNCHANGED <<tmp, st>>

-----------------------------------------------------------------------------
(* set_recordings_dir and its callback *)

SetRecordingsDir(t, d) ==
  /\ chg[t] = NoChange /\ Eventful
  /\ dir' = [dir EXCEPT !["manager"] = d]
  /\ chg' = [chg EXCEPT ![t] = [pc |-> "stream", d |-> d, again |-> FALSE]]
  /\ overlap' = (overlap \/ Changing)
  /\ UNCHANGED <<diskVars, recVars, fin, stampVars, bf, ghosts>>

After(t) == IF chg[t].again THEN "others" ELSE "sync"

(* update_recordings_dir: a recorder that has an entry is stopped ... *)
UpdateRecordingsDir(t) ==
  /\ chg[t].pc = "stream"
  /\ dir' = [dir EXCEPT !["stream"] = chg[t].d]
  /\ IF rec = "on"
     THEN rec' = "stopping" /\ intent' = "stopped" /\ chg' = [chg EXCEPT ![t].pc = "restart"]
     ELSE chg' = [chg EXCEPT ![t].pc = After(t)] /\ UNCHANGED <<rec, intent>>
  /\ UNCHANGED <<diskVars, made, writing, fin, stampVars, bf, overlap, events, ghosts>>

(* ... and started again, in whatever directory the service has by then *)
RestartRecorder(t) ==
  /\ chg[t].pc = "restart" /\ rec # "stopping"
  /\ chg' = [chg EXCEPT ![t].pc = After(t)]
  /\ UNCHANGED overlap
  /\ \/ rec = "off" /\ LaunchIn(dir["stream"]) /\ UNCHANGED <<dir, events>>
     \/ rec = "off" /\ \E d \in Dirs : FallBack(d)
     \/ rec = "on" /\ UNCHANGED <<diskVars, recVars, fin, stampVars, bf, dir, events, ghosts>>

(* the manager's directory is read once; the streaming service follows it, if it
   differs, before the others do *)
SyncDependents(t) ==
  /\ chg[t].pc = "sync"
  /\ chg' = [chg EXCEPT ![t] = [pc |-> IF dir["stream"] # dir["manager"] THEN "stream" ELSE "others",
                                d |-> dir["manager"], again |-> TRUE]]
  /\ UNCHANGED <<diskVars, recVars, fin, stampVars, bf, dir, overlap, events, ghosts>>

SetOthers(t) ==
  /\ chg[t].pc = "others"
  /\ dir' = [dir EXCEPT !["others"] = chg[t].d]
  /\ chg' = [chg EXCEPT ![t] = NoChange]
  /\ UNCHANGED <<diskVars, recVars, fin, stampVars, bf, overlap, events, ghosts>>

(* the server's process ends, and with it its threads and ffmpeg; what is on disk
   stays, a temporary file included *)
ServerRestart ==
  /\ Eventful
  /\ file' = [c \in Clips |-> IF file[c] = "open" THEN "whole" ELSE file[c]]
  /\ writing' = 0 /\ rec' = "off" /\ intent' = "stopped"
  /\ fin' = NoFinalizer /\ queue' = <<>> /\ st' = [s \in Stampers |-> NoStamp] /\ bf' = NoBackfill
  /\ dir' = [x \in DOMAIN dir |-> dir["manager"]]
  /\ chg' = [t \in Changers |-> NoChange]
  /\ overlap' = FALSE
  /\ ended' = 1..made
  /\ UNCHANGED <<made, place, log, sealed, age, tmp, touched, gone>>
-----------------------------------------------------------------------------
Stamping(s) == Probe(s) \/ Encode(s) \/ EncodeFails(s) \/ Validate(s) \/ Replace(s) \/ Seal(s)

Change(t) == \/ \E d \in Dirs : SetRecordingsDir(t, d)
             \/ UpdateRecordingsDir(t) \/ RestartRecorder(t) \/ SyncDependents(t) \/ SetOthers(t)

Next ==
  \/ StartRecorder \/ StartRecorderFault \/ Segment \/ StopRecorder \/ RecorderExits
  \/ Sweep \/ Decide \/ RunWorker
  \/ \E s \in Stampers : Stamping(s)
  \/ BackfillStart \/ BackfillCancel \/ BackfillRun
  \/ \E c \in Clips : DeleteClip(c)
  \/ DeleteCameraRecordings \/ LoopRecorderDeletes
  \/ \E t \in Changers : Change(t)
  \/ ServerRestart

(* threads run and processes end; recording, faults, deletions and administrators
   are not owed *)
Fairness ==
  /\ WF_vars(RecorderExits) /\ WF_vars(Sweep) /\ WF_vars(Decide) /\ WF_vars(RunWorker)
  /\ \A s \in Stampers : WF_vars(Probe(s) \/ Encode(s) \/ Validate(s) \/ Replace(s) \/ Seal(s))
  /\ WF_vars(BackfillRun)
  /\ \A t \in Changers : WF_vars(UpdateRecordingsDir(t) \/ RestartRecorder(t) \/ SyncDependents(t) \/ SetOthers(t))

Spec == Init /\ [][Next]_vars /\ Fairness
-----------------------------------------------------------------------------
(* A clip that ffmpeg has closed, and that no backfill has begun to stamp, holds
   all of its footage for as long as it exists: the queue's worker replaces it only
   by a whole stamped copy, whatever fails or is deleted meanwhile
   (clip_stamper.py: "Stamp an MP4 clip in-place"). *)
FootageKept ==
  \A c \in Clips \ touched : c # writing => file[c] \in {"none", "whole", "stamped"}

(* A listed clip that a finalizer of its directory can see is stamped, unless it is
   deleted, or its stamping is given up: it was dropped from the full queue, its
   encode failed, the list was started anew, or the server restarted. *)
ListedIsStamped ==
  \A c \in Clips : (c \in log /\ fin.pc # "none" /\ fin.dir = place[c])
                     ~> (c \in sealed \/ c \in ended \/ c \in gone)

(* Between changes of directory the streaming service and the other dependents have
   the manager's directory, also after a start of the recorder has fallen back to
   another one in the middle of a change, as long as no two changes overlap. *)
DirsAgree ==
  ~Changing /\ ~overlap => dir["stream"] = dir["manager"] /\ dir["others"] = dir["manager"]

(* What holds of the clips and of the directories in every state: the queue stays
   within its bound and every thread where its code can be (TypeOK), the stamper
   loses no footage (FootageKept) and the dependents have the manager's directory
   (DirsAgree). *)
ClipInv == TypeOK /\ FootageKept /\ DirsAgree

(* Stated by the code's comments and not true of it: see the README. *)

(* streaming_service.py start_recorder: downstream code "only ever sees fully-written
   clips" *)
NoFootageLost == \A c \in Clips : c # writing => file[c] \in {"none", "whole", "stamped"}

(* recorder_service.py delete_clip: "Delete a clip and its thumbnail" *)
DeletedStaysDeleted == \A c \in gone : file[c] = "none"

(* streaming_service.py _start_finalizer: "One last sweep so we don't lose the final
   segment" *)
EveryClipStamped ==
  \A c \in Clips : c \in log ~> (c \in sealed \/ c \in ended \/ c \in gone)

(* __init__.py _apply_recording_dir_change: every dependent syncs to the effective
   path, whatever else changes it *)
DirsSettle ==
  ~Changing => dir["stream"] = dir["manager"] /\ dir["others"] = dir["manager"]
=============================================================================
