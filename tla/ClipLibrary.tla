----------------------------- MODULE ClipLibrary -----------------------------
(***************************************************************************)
(* The recordings on disk as the server lists, resolves, correlates,       *)
(* deletes and rotates them.  Two layouts are on disk: clips of the loop   *)
(* recorder lie flat in the camera's directory, older ones in a directory  *)
(* per date.  Space and time are counted in clips.  The loop recorder and  *)
(* the storage manager each work through a list they made earlier.         *)
(***************************************************************************)
EXTENDS Integers, Sequences, FiniteSets, SequencesExt

CONSTANTS
  Capacity,   \* clips the disk holds
  Marks,      \* watermarks an administrator may set: [low, hys]
  Headroom,   \* STORAGE_LOW is raised this far above the low watermark
  Reserve,    \* the storage manager cleans up below this much free space
  MaxDelete,  \* clips one cleanup deletes
  DayLength,  \* clips per day
  Old,        \* clips on disk when the server starts
  MaxTime,    \* bound: the clock
  MaxInterventions   \* bound: deletions, stamps, changes of settings and file system errors

Layouts == {"flat", "dated"}
StoredClip == [t : 0..MaxTime, layout : Layouts]

ASSUME LibraryAssumption ==
  /\ Capacity \in Nat \ {0} /\ DayLength \in Nat \ {0} /\ Headroom \in Nat /\ Reserve \in Nat
  /\ Marks \subseteq [low : Nat, hys : Nat] /\ Marks # {} /\ MaxDelete \in Nat \ {0}
  /\ MaxTime \in Nat /\ MaxInterventions \in Nat
  /\ Old \subseteq StoredClip /\ Old # {} /\ (\A c \in Old : c.t < MaxTime)
  /\ IsFiniteSet(Old) /\ Cardinality(Old) <= Capacity

VARIABLES
  disk,    \* the clips there are
  mtime,   \* of each clip: when it was last written
  now,     \* the clip being recorded now
  mark,    \* the loop recorder's watermarks
  low,     \* _storage_low_active
  risk,    \* _retention_risk_active
  loop,    \* the loop recorder's pass: [pc, todo, deleted, target, at]
  clean,   \* the storage manager's pass: [pc, todo, deleted]
  paired,  \* the camera has a row in the store
  interventions,
  rotated, \* history: the loop recorder has deleted clips since it last saw enough
           \* space, and no RETENTION_RISK has been raised since
  aborted  \* history: an error has ended such a pass since it last saw enough space

libraryVars == <<disk, mtime, now, mark, low, risk, loop, clean, paired, interventions, rotated, aborted>>

(* a pass of the loop recorder keeps the space it aims at and the time it began *)
NoTick == [pc |-> "idle", todo |-> <<>>, deleted |-> 0, target |-> 0, at |-> 0]
TickPass == [pc : {"idle", "deleting"}, todo : Seq(StoredClip), deleted : Nat, target : Nat, at : 0..MaxTime]
NoCleanup == [pc |-> "idle", todo |-> <<>>, deleted |-> 0]
CleanupPass == [pc : {"idle", "deleting"}, todo : Seq(StoredClip), deleted : 0..MaxDelete]

LibraryTypeOK ==
  /\ disk \subseteq StoredClip
  /\ mtime \in [StoredClip -> -1..MaxTime] /\ now \in 0..MaxTime
  /\ mark \in Marks /\ low \in BOOLEAN /\ risk \in BOOLEAN
  /\ loop \in TickPass /\ clean \in CleanupPass
  /\ paired \in BOOLEAN /\ rotated \in BOOLEAN /\ aborted \in BOOLEAN

LibraryInit ==
  /\ disk = Old /\ now = 1 + (CHOOSE t \in 0..MaxTime : \A c \in Old : c.t <= t /\ \E d \in Old : d.t = t)
  /\ mtime = [c \in StoredClip |-> IF c \in Old THEN c.t ELSE -1]
  /\ mark \in Marks /\ low = FALSE /\ risk = FALSE
  /\ loop = NoTick /\ clean = NoCleanup /\ paired = TRUE /\ interventions = 0
  /\ rotated = FALSE /\ aborted = FALSE
-----------------------------------------------------------------------------
(* Listing and resolving.  A clip's name carries its time, and its date as well
   if it lies flat. *)

Day(t) == t \div DayLength

HasRecordingsOnDisk == \E c \in disk : c.layout = "dated"
CameraKnown == paired \/ HasRecordingsOnDisk

ListDates == {Day(c.t) : c \in disk}
ListClips(d) == {c \in disk : Day(c.t) = d}

(* the path is asked for by date and name: under the date first, then flat *)
Resolve(d, c) == {x \in disk : x = c /\ (x.layout = "dated" => Day(x.t) = d)}
-----------------------------------------------------------------------------
(* Recording, stamping and deleting *)

Free == Capacity - Cardinality(disk)
Intervention == interventions < MaxInterventions /\ interventions' = interventions + 1
UnlinkClips(cs) == disk' = disk \ cs

Record ==
  /\ now < MaxTime /\ Free > 0
  /\ LET c == [t |-> now, layout |-> "flat"]
     IN  disk' = disk \cup {c} /\ mtime' = [mtime EXCEPT ![c] = now]
  /\ now' = now + 1
  /\ UNCHANGED <<mark, low, risk, loop, clean, paired, interventions, rotated, aborted>>

(* the stamper rewrites the file *)
Stamp(c) ==
  /\ Intervention /\ c \in disk
  /\ mtime' = [mtime EXCEPT ![c] = now]
  /\ UNCHANGED <<disk, now, mark, low, risk, loop, clean, paired, rotated, aborted>>

DeleteClipNamed(d, c) ==
  /\ Intervention /\ Resolve(d, c) # {}
  /\ UnlinkClips(Resolve(d, c))
  /\ UNCHANGED <<mtime, now, mark, low, risk, loop, clean, paired, rotated, aborted>>

(* the directory of the date *)
DeleteDate(d) ==
  /\ Intervention /\ CameraKnown
  /\ \E c \in disk : c.layout = "dated" /\ Day(c.t) = d
  /\ UnlinkClips({c \in disk : c.layout = "dated" /\ Day(c.t) = d})
  /\ UNCHANGED <<mtime, now, mark, low, risk, loop, clean, paired, rotated, aborted>>

DeleteRecordingsOfCamera ==
  /\ Intervention /\ CameraKnown /\ disk # {}
  /\ UnlinkClips(disk)
  /\ UNCHANGED <<mtime, now, mark, low, risk, loop, clean, paired, rotated, aborted>>

(* every directory that is named like a camera, whether the camera is known or not *)
DeleteAllRecordings ==
  /\ Intervention
  /\ UnlinkClips(disk)
  /\ UNCHANGED <<mtime, now, mark, low, risk, loop, clean, paired, rotated, aborted>>

RemoveCamera ==
  /\ Intervention /\ paired
  /\ paired' = FALSE
  /\ UNCHANGED <<disk, mtime, now, mark, low, risk, loop, clean, rotated, aborted>>

SetWatermarks(m) ==
  /\ Intervention /\ m # mark
  /\ mark' = m
  /\ UNCHANGED <<disk, mtime, now, low, risk, loop, clean, paired, rotated, aborted>>
-----------------------------------------------------------------------------
(* LoopRecorder.tick *)

(* the clips of a set, sorted; those with the same key in any order *)
Sorted(cs, key) ==
  {s \in [1..Cardinality(cs) -> cs] : IsInjective(s) /\ \A i, j \in DOMAIN s : i < j => key[s[i]] <= key[s[j]]}

Target == mark.low + mark.hys
IsLive(c, t) == c \notin disk \/ mtime[c] >= t - 1
SegmentsOldestFirst == Sorted(disk, mtime)

(* enough space: both alerts are armed again as they should be *)
TickEnough ==
  /\ loop.pc = "idle" /\ Free >= mark.low
  /\ low' = (Free < mark.low + Headroom) /\ risk' = FALSE /\ rotated' = FALSE /\ aborted' = FALSE
  /\ UNCHANGED <<disk, mtime, now, mark, loop, clean, paired, interventions>>

TickLow ==
  /\ loop.pc = "idle" /\ Free < mark.low
  /\ low' = TRUE
  /\ \E s \in SegmentsOldestFirst :
       loop' = [pc |-> "deleting", todo |-> s, deleted |-> 0, target |-> Target, at |-> now]
  /\ UNCHANGED <<disk, mtime, now, mark, risk, clean, paired, interventions, rotated, aborted>>

\* mutant of TickDelete: only the directories of dates are searched
TickDeleteDatedOnly ==
  /\ loop.pc = "deleting" /\ loop.todo # <<>> /\ Free < loop.target
  /\ LET c == Head(loop.todo)
         go == c \in disk /\ ~IsLive(c, loop.at) /\ c.layout = "dated"
     IN  /\ UnlinkClips(IF go THEN {c} ELSE {})
         /\ loop' = [loop EXCEPT !.todo = Tail(@), !.deleted = @ + (IF go THEN 1 ELSE 0)]
         /\ rotated' = (rotated \/ (go /\ ~risk))
  /\ UNCHANGED <<mtime, now, mark, low, risk, clean, paired, interventions, aborted>>

(* the next of the list, unless it is live or there is enough space by now; a clip
   that someone else has deleted is skipped *)
TickDelete ==
  /\ loop.pc = "deleting" /\ loop.todo # <<>> /\ Free < loop.target
  /\ LET c == Head(loop.todo)
         go == c \in disk /\ ~IsLive(c, loop.at)
     IN  /\ UnlinkClips(IF go THEN {c} ELSE {})
         /\ loop' = [loop EXCEPT !.todo = Tail(@), !.deleted = @ + (IF go THEN 1 ELSE 0)]
         /\ rotated' = (rotated \/ (go /\ ~risk))
  /\ UNCHANGED <<mtime, now, mark, low, risk, clean, paired, interventions, aborted>>

(* a clip that cannot be unlinked stays, and does not count *)
TickDeleteFails ==
  /\ Intervention
  /\ loop.pc = "deleting" /\ loop.todo # <<>> /\ Free < loop.target
  /\ Head(loop.todo) \in disk /\ ~IsLive(Head(loop.todo), loop.at)
  /\ loop' = [loop EXCEPT !.todo = Tail(@)]
  /\ UNCHANGED <<disk, mtime, now, mark, low, risk, clean, paired, rotated, aborted>>

(* the free space cannot be read: the pass ends where it is, whatever it has deleted *)
TickAborts ==
  /\ Intervention
  /\ loop.pc = "deleting" /\ loop.todo # <<>>
  /\ loop' = NoTick
  /\ aborted' = (aborted \/ rotated)
  /\ UNCHANGED <<disk, mtime, now, mark, low, risk, clean, paired, rotated>>

\* mutant of TickEnd: the alert is raised only if the pass has reached its target
TickEndQuiet ==
  /\ loop.pc = "deleting" /\ (loop.todo = <<>> \/ Free >= loop.target)
  /\ risk' = (risk \/ (loop.deleted > 0 /\ Free >= loop.target))
  /\ rotated' = (rotated /\ ~risk') /\ aborted' = (aborted /\ rotated')
  /\ loop' = NoTick
  /\ UNCHANGED <<disk, mtime, now, mark, low, clean, paired, interventions>>

(* RETENTION_RISK once, when the pass has deleted something *)
TickEnd ==
  /\ loop.pc = "deleting" /\ (loop.todo = <<>> \/ Free >= loop.target)
  /\ risk' = (risk \/ loop.deleted > 0)
  /\ rotated' = (rotated /\ loop.deleted = 0) /\ aborted' = (aborted /\ rotated')
  /\ loop' = NoTick
  /\ UNCHANGED <<disk, mtime, now, mark, low, clean, paired, interventions>>
-----------------------------------------------------------------------------
(* StorageManager.cleanup_oldest_clips: by the time in the name, dated clips only *)

NeedsCleanup == Free < Reserve
Dated == Sorted({c \in disk : c.layout = "dated"}, [c \in StoredClip |-> c.t])

CleanupBegin ==
  /\ clean.pc = "idle" /\ NeedsCleanup
  /\ \E s \in Dated : s # <<>> /\ clean' = [pc |-> "deleting", todo |-> s, deleted |-> 0]
  /\ UNCHANGED <<disk, mtime, now, mark, low, risk, loop, paired, interventions, rotated, aborted>>

CleanupDone == clean.todo = <<>> \/ clean.deleted >= MaxDelete \/ ~NeedsCleanup

(* a clip that is gone raises in stat() and does not count *)
CleanupDelete ==
  /\ clean.pc = "deleting" /\ ~CleanupDone
  /\ UnlinkClips({Head(clean.todo)})
  /\ clean' = [clean EXCEPT !.todo = Tail(@), !.deleted = @ + (IF Head(clean.todo) \in disk THEN 1 ELSE 0)]
  /\ UNCHANGED <<mtime, now, mark, low, risk, loop, paired, interventions, rotated, aborted>>

(* so does a clip that cannot be unlinked, which stays *)
CleanupFails ==
  /\ Intervention
  /\ clean.pc = "deleting" /\ ~CleanupDone /\ Head(clean.todo) \in disk
  /\ clean' = [clean EXCEPT !.todo = Tail(@)]
  /\ UNCHANGED <<disk, mtime, now, mark, low, risk, loop, paired, rotated, aborted>>

CleanupEnd ==
  /\ clean.pc = "deleting" /\ CleanupDone
  /\ clean' = NoCleanup
  /\ UNCHANGED <<disk, mtime, now, mark, low, risk, loop, paired, interventions, rotated, aborted>>
-----------------------------------------------------------------------------
LoopRecorder == TickEnough \/ TickLow \/ TickDelete \/ TickEnd
StorageManager == CleanupBegin \/ CleanupDelete \/ CleanupEnd
FileSystemErrors == TickDeleteFails \/ TickAborts \/ CleanupFails

LibraryNext ==
  \/ Record
  \/ \E c \in disk : Stamp(c)
  \/ \E d \in ListDates : DeleteDate(d) \/ \E c \in ListClips(d) : DeleteClipNamed(d, c)
  \/ DeleteRecordingsOfCamera \/ DeleteAllRecordings \/ RemoveCamera
  \/ \E m \in Marks : SetWatermarks(m)
  \/ LoopRecorder \/ StorageManager \/ FileSystemErrors

(* both daemons run for as long as the process does; errors are bounded *)
LibrarySpec == LibraryInit /\ [][LibraryNext]_libraryVars /\ WF_libraryVars(LoopRecorder) /\ WF_libraryVars(StorageManager)
-----------------------------------------------------------------------------
(* MotionClipCorrelator: the first match in the order of the directory, which is
   any.  Times in seconds; a clip lasts Duration, PreTolerance is before its start. *)
Matches(starts, e, Duration, PreTolerance) ==
  {s \in starts : e - s < Duration /\ s - e <= PreTolerance}
Covers(s, e, Duration) == s <= e /\ e < s + Duration

(* SnapshotExtractor looks under the date only *)
Extractable(c) == c \in disk /\ c.layout = "dated"
-----------------------------------------------------------------------------
(* Space below the low watermark is regained, or all that is left is being written:
   whatever users and the storage manager delete from under the loop recorder's
   list, and whatever is recorded meanwhile. *)
RetentionRecovers == Free < mark.low ~> (Free >= mark.low \/ \A c \in disk : IsLive(c, now))

(* When no pass is running, clips that the loop recorder has deleted since it last
   saw enough space have been announced by a RETENTION_RISK, whoever else has changed
   the disk or the watermarks, unless an error has ended the pass that deleted them. *)
RotationAnnounced == loop.pc = "idle" /\ rotated => aborted

(* What holds of the library in every state: types (LibraryTypeOK), and rotation is
   announced when the pass is over (tick, RotationAnnounced). *)
LibraryInv == LibraryTypeOK /\ RotationAnnounced

(* Stated by the code's comments and not true of it: see the README. *)

(* recordings_service.py delete_date: "Delete every clip for one camera on one date." *)
DateIsGone == [][\A d \in ListDates : DeleteDate(d) => d \notin ListDates']_libraryVars

(* recordings_service.py _camera_known: a removed camera with files is known *)
OrphanIsKnown == disk # {} => CameraKnown

(* loop_recorder.py: "deleting the oldest completed segments" *)
OldestFirst ==
  [][TickDelete => \A c \in disk \ disk' : \A o \in disk' : ~IsLive(o, now) => c.t < o.t]_libraryVars

(* loop_recorder.py tick: "One alert per crossing, not per deletion" *)
OneAlertPerCrossing == [][TickEnough => ~rotated]_libraryVars

(* snapshot_extractor.py extract_for_clip: "Try to produce a sibling .jpg next to the
   clip's .mp4" *)
SnapshotPossible == \A c \in disk : Extractable(c)

(* motion_clip_correlator.py: "Look up the finalised clip covering a given event
   timestamp"; clips of 180 s, 30 s of tolerance, one after the other *)
FindsCovering ==
  \A e \in 0..359 : \A s \in Matches({0, 180}, e, 180, 30) : Covers(s, e, 180)
=============================================================================
