----------------------------- MODULE ClipProofs -----------------------------
(***************************************************************************)
(* Proofs about ClipPipeline, for any clips, directories, threads that     *)
(* change the directory, queue length and bounds: that the queue's worker  *)
(* loses no footage, and that a change of the recordings directory leaves  *)
(* every dependent on the manager's.  And about ClipLibrary, for any       *)
(* capacity, watermarks and clips: LibraryInv.                             *)
(***************************************************************************)
EXTENDS ClipPipeline, ClipLibrary, FiniteSetTheorems, SequenceTheorems, WellFoundedInduction, TLAPS

(* the clips that ffmpeg has closed *)
Closed == (1..made) \ {writing}

Dependents == {"manager", "stream", "others"}
StampLabels == {"idle", "probe", "encode", "validate", "replace", "seal"}
StampRecords == [pc : StampLabels, clip : 0..MaxClips, out : {"none", "here", "unlinked", "clip"}]
TmpContents == {"none", "part", "partcut", "done", "donecut", "mixed"}
ChangeRecords == [pc : {"none", "stream", "restart", "sync", "others"}, d : Dirs \cup {None}, again : BOOLEAN]

-----------------------------------------------------------------------------
(* The types, a part for each group of variables.  What is listed, queued  *)
(* or being stamped by the queue's worker is closed.                       *)

RecordTypes ==
  /\ made \in 0..MaxClips /\ writing \in {0, made}
  /\ rec \in {"off", "on", "stopping"} /\ intent \in {"wanted", "stopped"}
  /\ rec = "off" => writing = 0

DiskTypes ==
  /\ file \in [Clips -> Contents] /\ place \in [Clips -> Dirs \cup {None}]
  /\ tmp \in [Clips -> TmpContents]
  /\ log \subseteq Closed /\ sealed \subseteq 1..made
  /\ \A c \in Clips : c > made => file[c] = "none"

AgeTypes == age \in Seq(Clips) /\ IsInjective(age) /\ ToSet(age) = {c \in Clips : file[c] # "none"}

FinTypes == fin \in [pc : {"none", "sweep", "decide"}, dir : Dirs \cup {None}, seen : SUBSET Clips]

QueueTypes ==
  /\ queue \in Seq(Clips) /\ Len(queue) <= QueueMax
  /\ \A i \in DOMAIN queue : queue[i] \in Closed

StampTypes ==
  /\ st \in [Stampers -> StampRecords]
  /\ \A s \in Stampers : ~Is(s, "idle") => Clip(s) \in 1..made
  /\ ~Is("queue", "idle") => Clip("queue") \in Closed

BackfillTypes ==
  /\ bf \in [state : {"idle", "running", "cancelling"}, inv : Seq(Clips), cancel : BOOLEAN]
  /\ \A i \in DOMAIN bf.inv : bf.inv[i] \in 1..made

DirTypes ==
  /\ dir \in [Dependents -> Dirs] /\ chg \in [Changers -> ChangeRecords] /\ overlap \in BOOLEAN
  /\ \A t \in Changers : chg[t].pc # "none" => chg[t].d \in Dirs

Types ==
  /\ RecordTypes /\ DiskTypes /\ AgeTypes /\ FinTypes /\ QueueTypes /\ StampTypes /\ BackfillTypes
  /\ DirTypes

-----------------------------------------------------------------------------
(* Footage.  Of a clip that no backfill has touched only the queue's       *)
(* worker makes a copy, and what it puts in place is a whole one.          *)

Whole(c) == file[c] \in {"none", "whole", "stamped"} \/ (c = writing /\ file[c] = "open")

(* q: the worker's record, t: what the temporary path of its clip holds *)
CopyRight(q, t) ==
  /\ q.pc = "encode" => \/ q.out = "here" /\ t = "part"
                        \/ q.out = "unlinked" /\ t = "none"
  /\ q.pc \in {"validate", "replace"} => t \in {"none", "done"}

Footage ==
  /\ \A c \in Clips \ touched : Whole(c)
  /\ ~Is("backfill", "idle") => Clip("backfill") \in touched
  /\ ~Is("queue", "idle") /\ Clip("queue") \notin touched => CopyRight(st["queue"], tmp[Clip("queue")])

-----------------------------------------------------------------------------
(* Directories.  While changes do not overlap there is one, and it knows   *)
(* the manager's directory.                                                *)

Together == dir["stream"] = dir["manager"]

ChangeRight(t) ==
  /\ chg[t].pc = "stream" => ~chg[t].again /\ chg[t].d = dir["manager"]
  /\ chg[t].pc = "restart" => ~chg[t].again /\ Together
  /\ chg[t].pc = "sync" => Together
  /\ chg[t].pc = "others" => Together /\ chg[t].d = dir["manager"]

Directories ==
  ~overlap =>
    /\ \A t, u \in Changers : chg[t].pc # "none" /\ chg[u].pc # "none" => t = u
    /\ \A t \in Changers : ChangeRight(t)
    /\ ~Changing => Together /\ dir["others"] = dir["manager"]

PipelineInv == Types /\ Footage /\ Directories

-----------------------------------------------------------------------------
(* Sequences of clips.                                                     *)

LEMMA BoundTypes == MaxClips \in Nat /\ QueueMax \in Nat /\ QueueMax > 0 /\ Internal \in Dirs
  BY BoundsAssumption

LEMMA ListingTypes ==
    ASSUME NEW S \in SUBSET Clips, NEW s \in Listings(S)
    PROVE  s \in Seq(Clips) /\ ToSet(s) = S /\ \A i \in DOMAIN s : s[i] \in S
  <1>1. IsFiniteSet(S)
    <2>1. MaxClips \in Int /\ 1 \in Int
      BY BoundTypes
    <2>2. IsFiniteSet(1..MaxClips)
      BY <2>1, FS_Interval
    <2> QED
      BY <2>2, FS_Subset DEF Clips
  <1>2. Cardinality(S) \in Nat
    BY <1>1, FS_CardinalityType
  <1>3. s \in [1..Cardinality(S) -> S] /\ ToSet(s) = S
    BY DEF Listings
  <1>4. s \in Seq(S)
    BY <1>2, <1>3
  <1> QED
    BY <1>3, <1>4

(* what is left of the clips by age has no clip twice *)
LEMMA ByAgeTypes ==
    ASSUME AgeTypes, NEW S \in SUBSET Clips, NEW s \in ByAge(S)
    PROVE  s \in Seq(Clips) /\ ToSet(s) = S /\ IsInjective(s)
  <1>1. s \in Listings(S) /\ \A i, j \in DOMAIN s : i < j => Older(s[i], s[j])
    BY DEF ByAge
  <1>2. s \in Seq(Clips) /\ ToSet(s) = S
    BY <1>1, ListingTypes
  <1>3. \A c : ~Older(c, c)
    BY DEF Older, AgeTypes, IsInjective
  <1>4. DOMAIN s = 1..Len(s) /\ Len(s) \in Nat
    BY <1>2
  <1>5. IsInjective(s)
    <2> SUFFICES ASSUME NEW i \in DOMAIN s, NEW j \in DOMAIN s, s[i] = s[j] PROVE i = j
      BY DEF IsInjective
    <2>1. i \in Int /\ j \in Int
      BY <1>4
    <2>2. ~(i < j) /\ ~(j < i)
      BY <1>1, <1>3
    <2> QED
      BY <2>1, <2>2
  <1> QED
    BY <1>2, <1>5

LEMMA AppendAge ==
    ASSUME NEW a \in Seq(Clips), IsInjective(a), NEW c \in Clips, c \notin ToSet(a)
    PROVE  /\ Append(a, c) \in Seq(Clips) /\ IsInjective(Append(a, c))
           /\ ToSet(Append(a, c)) = ToSet(a) \cup {c}
  <1> DEFINE n == Append(a, c)
  <1>1. /\ n \in Seq(Clips) /\ Len(n) = Len(a) + 1 /\ Len(a) \in Nat
        /\ DOMAIN n = 1..(Len(a) + 1) /\ DOMAIN a = 1..Len(a)
        /\ \A i \in 1..Len(a) : n[i] = a[i]
        /\ n[Len(a) + 1] = c
    OBVIOUS
  <1> HIDE DEF n
  <1>2. \A i \in DOMAIN n : i \in 1..Len(a) \/ i = Len(a) + 1
    BY <1>1
  <1>3. \A i \in 1..Len(a) : a[i] # c
    BY <1>1 DEF ToSet
  <1>4. IsInjective(n)
    BY <1>1, <1>2, <1>3 DEF IsInjective
  <1>5. ToSet(n) = ToSet(a) \cup {c}
    <2>1. \A x \in ToSet(n) : x \in ToSet(a) \cup {c}
      BY <1>1, <1>2 DEF ToSet
    <2>2. \A x \in ToSet(a) : x \in ToSet(n)
      BY <1>1 DEF ToSet
    <2>3. c \in ToSet(n)
      BY <1>1 DEF ToSet
    <2> QED
      BY <2>1, <2>2, <2>3
  <1> QED
    BY <1>1, <1>4, <1>5 DEF n

(* a clip that is replaced is the newest *)
LEMMA NewestTypes ==
    ASSUME AgeTypes, NEW c \in Clips, age' \in Newest(c),
           \A x \in Clips \ {c} : file'[x] = file[x], file'[c] # "none"
    PROVE  AgeTypes'
  <1>1. ToSet(age) \ {c} \in SUBSET Clips
    BY DEF AgeTypes
  <1>2. PICK a \in ByAge(ToSet(age) \ {c}) : age' = Append(a, c)
    BY DEF Newest
  <1>3. a \in Seq(Clips) /\ ToSet(a) = ToSet(age) \ {c} /\ IsInjective(a)
    BY <1>1, <1>2, ByAgeTypes
  <1>4. age' \in Seq(Clips) /\ IsInjective(age') /\ ToSet(age') = (ToSet(age) \ {c}) \cup {c}
    BY <1>2, <1>3, AppendAge
  <1> QED
    BY <1>4 DEF AgeTypes

(* clips are deleted *)
LEMMA DeletedTypes ==
    ASSUME AgeTypes, NEW cs, age' \in ByAge(ToSet(age) \ cs),
           \A x \in Clips : file'[x] = IF x \in cs THEN "none" ELSE file[x]
    PROVE  AgeTypes'
  <1>1. ToSet(age) \ cs \in SUBSET Clips
    BY DEF AgeTypes
  <1>2. age' \in Seq(Clips) /\ IsInjective(age') /\ ToSet(age') = ToSet(age) \ cs
    BY <1>1, ByAgeTypes
  <1> QED
    BY <1>2 DEF AgeTypes

(* the queue after new clips have been offered: its newest part *)
LEMMA EnqueueTypes ==
    ASSUME NEW q \in Seq(Clips), NEW new \in Seq(Clips), NEW K,
           \A i \in DOMAIN q : q[i] \in K, \A i \in DOMAIN new : new[i] \in K
    PROVE  /\ Enqueue(q, new).q \in Seq(Clips) /\ Len(Enqueue(q, new).q) <= QueueMax
           /\ \A i \in DOMAIN Enqueue(q, new).q : Enqueue(q, new).q[i] \in K
  <1> DEFINE all == q \o new
             over == IF Len(all) > QueueMax THEN Len(all) - QueueMax ELSE 0
  <1>1. all \in Seq(Clips) /\ Len(all) = Len(q) + Len(new) /\ Len(q) \in Nat /\ Len(new) \in Nat
    OBVIOUS
  <1>2. \A i \in 1..Len(all) : all[i] \in K
    <2> SUFFICES ASSUME NEW i \in 1..Len(all) PROVE all[i] \in K
      OBVIOUS
    <2>1. CASE i \in 1..Len(q)
      BY <2>1
    <2>2. CASE i \in Len(q) + 1 .. Len(q) + Len(new)
      <3>1. all[i] = new[i - Len(q)] /\ i - Len(q) \in 1..Len(new)
        BY <1>1, <2>2
      <3> QED
        BY <3>1
    <2> QED
      BY <1>1, <2>1, <2>2
  <1>3. Enqueue(q, new).q = SubSeq(all, over + 1, Len(all))
    BY DEF Enqueue
  <1> HIDE DEF all
  <1>4. over \in 0..Len(all) /\ Len(all) - over <= QueueMax /\ Len(all) \in Nat
    BY <1>1, BoundTypes
  <1> HIDE DEF over
  <1>5. /\ SubSeq(all, over + 1, Len(all)) \in Seq(Clips)
        /\ Len(SubSeq(all, over + 1, Len(all))) = Len(all) - over
        /\ \A i \in 1..(Len(all) - over) : SubSeq(all, over + 1, Len(all))[i] = all[over + i]
    BY <1>1, <1>4
  <1>6. \A i \in 1..(Len(all) - over) : over + i \in 1..Len(all)
    BY <1>4
  <1> QED
    BY <1>2, <1>3, <1>4, <1>5, <1>6

(* a sequence without its first member *)
LEMMA TailTypes ==
    ASSUME NEW s \in Seq(Clips), s # <<>>
    PROVE  /\ Head(s) = s[1] /\ 1 \in DOMAIN s /\ Head(s) \in Clips
           /\ Tail(s) \in Seq(Clips) /\ Len(Tail(s)) = Len(s) - 1
           /\ \A i \in DOMAIN Tail(s) : i + 1 \in DOMAIN s /\ Tail(s)[i] = s[i + 1]
  OBVIOUS

-----------------------------------------------------------------------------
(* What a step leaves alone keeps its part.                                *)

LEMMA QueueFrame == QueueTypes /\ UNCHANGED <<queue, made, writing>> => QueueTypes'
  BY DEF QueueTypes, Closed

LEMMA StampFrame == StampTypes /\ UNCHANGED <<st, made, writing>> => StampTypes'
  BY DEF StampTypes, Closed, Is, Clip

LEMMA BackfillFrame == BackfillTypes /\ UNCHANGED <<bf, made>> => BackfillTypes'
  BY DEF BackfillTypes

LEMMA DiskFrame == DiskTypes /\ UNCHANGED <<file, place, tmp, log, sealed, made, writing>> => DiskTypes'
  BY DEF DiskTypes, Closed

LEMMA AgeFrame == AgeTypes /\ UNCHANGED <<age, file>> => AgeTypes'
  BY DEF AgeTypes

LEMMA FinFrame == FinTypes /\ UNCHANGED fin => FinTypes'
  BY DEF FinTypes

LEMMA RecordFrame == RecordTypes /\ UNCHANGED recVars => RecordTypes'
  BY DEF RecordTypes, recVars

LEMMA DirFrame == DirTypes /\ UNCHANGED dirVars => DirTypes'
  BY DEF DirTypes, dirVars

LEMMA DirectoriesFrame == Directories /\ UNCHANGED dirVars => Directories'
  BY DEF Directories, dirVars, ChangeRight, Together, Changing

(* more clips touched, the same footage *)
LEMMA FootageFrame ==
    Footage /\ UNCHANGED <<file, writing, st, tmp>> /\ touched \subseteq touched' => Footage'
  BY DEF Footage, Whole, CopyRight, Is, Clip

-----------------------------------------------------------------------------
(* The recorder.                                                           *)

(* the parts that no change of directory concerns *)
ClipTypes ==
  RecordTypes /\ DiskTypes /\ AgeTypes /\ FinTypes /\ QueueTypes /\ StampTypes /\ BackfillTypes

LEMMA TypeSplit == Types <=> ClipTypes /\ DirTypes
  BY DEF Types, ClipTypes

LEMMA LaunchKeeps ==
    ASSUME ClipTypes, Footage, NEW d \in Dirs, LaunchIn(d)
    PROVE  ClipTypes' /\ Footage'
  <1> USE DEF ClipTypes
  <1>1. /\ rec' = "on" /\ intent' = "wanted" /\ log' \subseteq log
        /\ UNCHANGED <<made, writing, file, place, sealed, age, tmp, queue, st, bf, touched>>
    BY DEF LaunchIn, stampVars
  <1>2. RecordTypes'
    BY <1>1 DEF RecordTypes
  <1>3. DiskTypes'
    BY <1>1 DEF DiskTypes, Closed
  <1>4. FinTypes'
    BY DEF LaunchIn, StartFinalizer, FinTypes
  <1>5. Footage'
    BY <1>1, FootageFrame
  <1> QED
    BY <1>1, <1>2, <1>3, <1>4, <1>5, AgeFrame, QueueFrame, StampFrame, BackfillFrame

(* the segment that ffmpeg has open is closed *)
LEMMA CloseWhole ==
    ASSUME ClipTypes, Footage, NEW c \in Clips \ touched,
           c = writing => file'[c] = (IF file[c] = "open" THEN "whole" ELSE file[c]),
           c # writing => file'[c] = file[c]
    PROVE  file'[c] \in {"none", "whole", "stamped"}
  BY DEF Footage, Whole

LEMMA SegmentKeeps ==
    ASSUME ClipTypes, DirTypes, Footage, Segment
    PROVE  ClipTypes' /\ Footage'
  <1> USE DEF ClipTypes
  <1>0. made \in Nat /\ made < MaxClips /\ MaxClips \in Nat /\ made + 1 \in Clips /\ writing \in 0..made
    BY BoundTypes DEF Segment, RecordTypes, Clips
  <1>1. /\ made' = made + 1 /\ writing' = made + 1
        /\ log' \subseteq log \cup ({writing} \ {0})
        /\ place' = [place EXCEPT ![made + 1] = dir["stream"]]
        /\ age' = Append(age, made + 1)
        /\ UNCHANGED <<sealed, tmp, rec, intent, fin, queue, st, bf, touched>>
    BY DEF Segment, stampVars, ghosts
  <1>2. /\ file' \in [Clips -> Contents] /\ file'[made + 1] = "open"
        /\ \A c \in Clips \ {made + 1} :
             /\ c = writing => file'[c] = (IF file[c] = "open" THEN "whole" ELSE file[c])
             /\ c # writing => file'[c] = file[c]
    <2>1. CASE writing = 0
      BY <1>0, <2>1 DEF Segment, DiskTypes, Contents, Clips
    <2>2. CASE writing # 0
      <3>1. file' = [[file EXCEPT ![writing] = IF @ = "open" THEN "whole" ELSE @] EXCEPT ![made + 1] = "open"]
        BY <2>2 DEF Segment
      <3>2. writing \in Clips /\ file \in [Clips -> Contents]
        BY <1>0, <2>2 DEF Clips, DiskTypes
      <3> QED
        BY <1>0, <3>1, <3>2 DEF Contents
    <2> QED
      BY <2>1, <2>2
  <1>3. RecordTypes'
    BY <1>0, <1>1 DEF Segment, RecordTypes
  <1>4. \A c : c \in Closed => c \in Closed'
    BY <1>0, <1>1 DEF Closed
  <1>5. DiskTypes'
    <2>1. log' \subseteq Closed'
      BY <1>0, <1>1, <1>4 DEF DiskTypes, Closed
    <2>2. sealed' \subseteq 1..made'
      BY <1>0, <1>1 DEF DiskTypes
    <2>3. \A c \in Clips : c > made' => file'[c] = "none"
      BY <1>0, <1>1, <1>2 DEF DiskTypes, Clips
    <2>4. place' \in [Clips -> Dirs \cup {None}]
      BY <1>0, <1>1 DEF DiskTypes, DirTypes, Dependents
    <2> QED
      BY <1>1, <1>2, <2>1, <2>2, <2>3, <2>4 DEF DiskTypes
  <1>6. AgeTypes'
    <2>1. file[made + 1] = "none"
      BY <1>0 DEF DiskTypes
    <2>2. made + 1 \notin ToSet(age)
      BY <2>1 DEF AgeTypes
    <2>3. age \in Seq(Clips) /\ IsInjective(age)
      BY DEF AgeTypes
    <2>4. age' \in Seq(Clips) /\ IsInjective(age') /\ ToSet(age') = ToSet(age) \cup {made + 1}
      BY <1>0, <1>1, <2>2, <2>3, AppendAge
    <2>5. \A c \in Clips \ {made + 1} : file'[c] # "none" <=> file[c] # "none"
      BY <1>2
    <2> QED
      BY <1>0, <1>2, <2>4, <2>5 DEF AgeTypes
  <1>7. QueueTypes'
    BY <1>1, <1>4 DEF QueueTypes
  <1>8. StampTypes'
    <2>1. 1..made \subseteq 1..made'
      BY <1>0, <1>1
    <2> QED
      BY <1>1, <1>4, <2>1 DEF StampTypes, Is, Clip
  <1>9. BackfillTypes'
    <2>1. 1..made \subseteq 1..made'
      BY <1>0, <1>1
    <2> QED
      BY <1>1, <2>1 DEF BackfillTypes
  <1>10. Footage'
    <2>1. \A c \in Clips \ touched : Whole(c)'
      BY <1>1, <1>2, CloseWhole DEF Whole
    <2> QED
      BY <1>1, <2>1 DEF Footage, CopyRight, Is, Clip
  <1> QED
    BY <1>1, <1>3, <1>5, <1>6, <1>7, <1>8, <1>9, <1>10, FinFrame

LEMMA StopKeeps ==
    ASSUME ClipTypes, Footage, UNCHANGED <<diskVars, made, writing, fin, stampVars, bf, ghosts>>,
           (rec' = "stopping" /\ intent' = "stopped") \/ UNCHANGED <<rec, intent>>
    PROVE  ClipTypes' /\ Footage'
  <1> USE DEF ClipTypes
  <1>1. UNCHANGED <<file, place, log, sealed, age, tmp, made, writing, fin, queue, st, bf, touched>>
    BY DEF diskVars, stampVars, ghosts
  <1>2. RecordTypes'
    BY <1>1 DEF RecordTypes
  <1>3. Footage'
    BY <1>1, FootageFrame
  <1> QED
    BY <1>1, <1>2, <1>3, DiskFrame, AgeFrame, FinFrame, QueueFrame, StampFrame, BackfillFrame

LEMMA ExitKeeps ==
    ASSUME ClipTypes, Footage, RecorderExits
    PROVE  ClipTypes' /\ Footage'
  <1> USE DEF ClipTypes
  <1>0. made \in Nat /\ made <= MaxClips /\ writing \in 0..made /\ MaxClips \in Nat
    BY BoundTypes DEF RecordTypes
  <1>1. /\ rec' = "off" /\ writing' = 0
        /\ log' \subseteq log \cup ({writing} \ {0})
        /\ UNCHANGED <<made, intent, place, sealed, age, tmp, fin, queue, st, bf, touched>>
    BY DEF RecorderExits, Close, stampVars, ghosts
  <1>2. /\ file' \in [Clips -> Contents]
        /\ \A c \in Clips :
             /\ c = writing => file'[c] = (IF file[c] = "open" THEN "whole" ELSE file[c])
             /\ c # writing => file'[c] = file[c]
    <2>1. CASE writing = 0
      BY <1>0, <2>1 DEF RecorderExits, DiskTypes, Clips
    <2>2. CASE writing # 0
      <3>1. file' = [file EXCEPT ![writing] = IF @ = "open" THEN "whole" ELSE @]
        BY <2>2 DEF RecorderExits, Close
      <3> QED
        BY <1>0, <2>2, <3>1 DEF Clips, DiskTypes, Contents
    <2> QED
      BY <2>1, <2>2
  <1>3. RecordTypes'
    BY <1>1 DEF RecordTypes
  <1>4. \A c : c \in Closed => c \in Closed'
    BY <1>0, <1>1 DEF Closed
  <1>5. DiskTypes'
    <2>1. log' \subseteq Closed'
      BY <1>0, <1>1, <1>4 DEF DiskTypes, Closed
    <2>2. \A c \in Clips : c > made => file'[c] = "none"
      BY <1>0, <1>2 DEF DiskTypes, Clips
    <2> QED
      BY <1>1, <1>2, <2>1, <2>2 DEF DiskTypes
  <1>6. AgeTypes'
    <2>1. \A c \in Clips : file'[c] # "none" <=> file[c] # "none"
      BY <1>2
    <2> QED
      BY <1>1, <2>1 DEF AgeTypes
  <1>7. QueueTypes'
    BY <1>1, <1>4 DEF QueueTypes
  <1>8. StampTypes'
    BY <1>1, <1>4 DEF StampTypes, Is, Clip
  <1>9. Footage'
    <2>1. \A c \in Clips \ touched : Whole(c)'
      BY <1>1, <1>2, CloseWhole DEF Whole
    <2> QED
      BY <1>1, <2>1 DEF Footage, CopyRight, Is, Clip
  <1> QED
    BY <1>1, <1>3, <1>5, <1>6, <1>7, <1>8, <1>9, FinFrame, BackfillFrame

-----------------------------------------------------------------------------
(* The finalizer thread and the stamp queue.                               *)

LEMMA EnqueueKeeps ==
    ASSUME RecordTypes, DiskTypes, QueueTypes, EnqueueNewSegments, UNCHANGED <<made, writing>>
    PROVE  QueueTypes'
  <1> DEFINE S == {c \in CompletedSegmentNames(fin.dir) \ fin.seen : file[c] # "none"}
  <1>1. Closed \subseteq Clips
    BY BoundTypes DEF RecordTypes, Closed, Clips
  <1>2. S \in SUBSET Clips /\ S \subseteq Closed
    BY <1>1 DEF CompletedSegmentNames, DiskTypes
  <1>3. PICK new \in ByName(S) : queue' = Enqueue(queue, new).q
    BY DEF EnqueueNewSegments
  <1> HIDE DEF S
  <1>4. new \in Seq(Clips) /\ \A i \in DOMAIN new : new[i] \in S
    BY <1>2, <1>3, ListingTypes DEF ByName
  <1>5. queue \in Seq(Clips) /\ \A i \in DOMAIN queue : queue[i] \in Closed
    BY DEF QueueTypes
  <1>6. \A i \in DOMAIN new : new[i] \in Closed
    BY <1>2, <1>4
  <1>7. /\ queue' \in Seq(Clips) /\ Len(queue') <= QueueMax
        /\ \A i \in DOMAIN queue' : queue'[i] \in Closed
    BY <1>3, <1>4, <1>5, <1>6, EnqueueTypes
  <1> QED
    BY <1>7 DEF QueueTypes, Closed

LEMMA FinalizerKeeps ==
    ASSUME ClipTypes, Footage, Sweep \/ Decide
    PROVE  ClipTypes' /\ Footage'
  <1> USE DEF ClipTypes
  <1>1. UNCHANGED <<file, place, log, sealed, age, tmp, made, writing, rec, intent, st, bf, touched>>
    BY DEF Sweep, Decide, diskVars, recVars
  <1>2. QueueTypes'
    BY <1>1, EnqueueKeeps, QueueFrame DEF Sweep, Decide
  <1>3. CompletedSegmentNames(fin.dir) \in SUBSET Clips
    <2>1. Closed \subseteq Clips
      BY BoundTypes DEF RecordTypes, Closed, Clips
    <2> QED
      BY <2>1 DEF CompletedSegmentNames, DiskTypes
  <1>4. FinTypes'
    <2>1. CASE Sweep
      BY <1>3, <2>1 DEF Sweep, FinTypes
    <2>2. CASE Decide
      BY <2>2 DEF Decide, FinTypes, NoFinalizer
    <2> QED
      BY <2>1, <2>2
  <1>5. RecordTypes'
    BY <1>1, RecordFrame DEF recVars
  <1>6. Footage'
    BY <1>1, FootageFrame
  <1> QED
    BY <1>1, <1>2, <1>4, <1>5, <1>6, DiskFrame, AgeFrame, StampFrame, BackfillFrame

LEMMA WorkerKeeps ==
    ASSUME ClipTypes, Footage, RunWorker
    PROVE  ClipTypes' /\ Footage'
  <1> USE DEF ClipTypes
  <1>1. UNCHANGED <<file, place, log, sealed, age, tmp, made, writing, rec, intent, fin, bf, touched>>
    BY DEF RunWorker, diskVars, recVars, ghosts
  <1> DEFINE q == [pc |-> "probe", clip |-> Head(queue), out |-> "none"]
  <1>2. queue # <<>> /\ queue' = Tail(queue) /\ st' = [st EXCEPT !["queue"] = q]
    BY DEF RunWorker
  <1>3. queue \in Seq(Clips) /\ Len(queue) <= QueueMax /\ \A i \in DOMAIN queue : queue[i] \in Closed
    BY DEF QueueTypes
  <1>4. /\ Head(queue) \in Clips /\ Head(queue) \in Closed
        /\ Tail(queue) \in Seq(Clips) /\ Len(Tail(queue)) = Len(queue) - 1
        /\ \A i \in DOMAIN Tail(queue) : Tail(queue)[i] \in Closed
    BY <1>2, <1>3, TailTypes
  <1>5. QueueTypes'
    <2>1. Len(queue) \in Nat /\ QueueMax \in Nat
      BY <1>3, BoundTypes
    <2>2. Len(queue') <= QueueMax
      BY <1>2, <1>3, <1>4, <2>1
    <2> QED
      BY <1>1, <1>2, <1>4, <2>2 DEF QueueTypes, Closed
  <1>6. q \in StampRecords /\ q.pc = "probe" /\ q.clip \in Closed
    BY <1>4, BoundTypes DEF StampRecords, StampLabels, Clips
  <1> HIDE DEF q
  <1>7. st' \in [Stampers -> StampRecords] /\ st'["queue"] = q /\ st'["backfill"] = st["backfill"]
    BY <1>2, <1>6 DEF StampTypes, Stampers
  <1>8. StampTypes'
    BY <1>1, <1>6, <1>7 DEF StampTypes, Stampers, Is, Clip, Closed
  <1>9. Footage'
    BY <1>1, <1>6, <1>7 DEF Footage, Whole, CopyRight, Is, Clip
  <1>10. RecordTypes'
    BY <1>1, RecordFrame DEF recVars
  <1> QED
    BY <1>1, <1>5, <1>8, <1>9, <1>10, DiskFrame, AgeFrame, FinFrame, BackfillFrame

-----------------------------------------------------------------------------
(* ClipStamper.stamp.  The facts about a step of stamper s that the parts  *)
(* need: it ends or goes on with its clip c; of the other one it touches   *)
(* at most where its output is, and only if it has the same clip.          *)

Goes(s, c) ==
  /\ st' \in [Stampers -> StampRecords]
  /\ st'[s].pc # "idle" => st'[s].clip = c
  /\ \A o \in Stampers \ {s} :
       /\ st'[o].pc = st[o].pc /\ st'[o].clip = st[o].clip
       /\ st[o].clip # c => st'[o] = st[o]
  /\ tmp' \in [Clips -> TmpContents]
  /\ \A x \in Clips \ {c} : tmp'[x] = tmp[x]

Alone == UNCHANGED <<place, log, made, writing, rec, intent, fin, queue, bf, touched>>

LEMMA GoesTypes ==
    ASSUME StampTypes, NEW s \in Stampers, ~Is(s, "idle"), Goes(s, Clip(s)), UNCHANGED <<made, writing>>
    PROVE  StampTypes'
  <1>1. \A o \in Stampers : st'[o].pc # "idle" => st[o].pc # "idle" /\ st'[o].clip = st[o].clip
    BY DEF Goes, Is, Clip
  <1> QED
    BY <1>1 DEF StampTypes, Is, Clip, Closed, Goes, Stampers

LEMMA GoesFootage ==
    ASSUME RecordTypes, StampTypes, Footage, NEW s \in Stampers, ~Is(s, "idle"),
           NEW c \in Clips, c = Clip(s), Goes(s, c), Alone,
           \A x \in Clips \ {c} : file'[x] = file[x],
           s = "queue" /\ c \notin touched =>
             file'[c] \in {"none", "whole", "stamped"} /\ CopyRight(st'[s], tmp'[c])
    PROVE  Footage'
  <1>0. touched' = touched /\ writing' = writing
    BY DEF Alone
  <1>1. s = "backfill" => c \in touched
    BY DEF Footage
  <1>2. \A x \in Clips \ touched : Whole(x)'
    <2> SUFFICES ASSUME NEW x \in Clips \ touched PROVE Whole(x)'
      OBVIOUS
    <2>1. CASE x = c
      BY <1>1, <2>1 DEF Stampers, Whole
    <2>2. CASE x # c
      BY <1>0, <2>2 DEF Footage, Whole
    <2> QED
      BY <2>1, <2>2
  <1>3. (~Is("backfill", "idle"))' => Clip("backfill")' \in touched
    BY DEF Goes, Is, Clip, Footage, Stampers
  <1>4. (~Is("queue", "idle"))' /\ Clip("queue")' \notin touched => CopyRight(st["queue"], tmp[Clip("queue")])'
    <2>1. CASE s = "queue"
      BY <2>1 DEF Goes, Is, Clip, CopyRight
    <2>2. CASE s = "backfill"
      <3> SUFFICES ASSUME st'["queue"].pc # "idle", st'["queue"].clip \notin touched
                   PROVE  CopyRight(st["queue"], tmp[Clip("queue")])'
        BY DEF Is, Clip
      <3>1. st'["queue"].pc = st["queue"].pc /\ st'["queue"].clip = st["queue"].clip
        BY <2>2 DEF Goes, Stampers
      <3>2. st["queue"].clip # c
        BY <1>1, <2>2, <3>1
      <3>3. st'["queue"] = st["queue"]
        BY <2>2, <3>2 DEF Goes, Stampers
      <3>4. CopyRight(st["queue"], tmp[Clip("queue")])
        BY <3>1 DEF Footage, Is, Clip
      <3>5. st["queue"].clip \in Clips
        BY <3>1, BoundTypes DEF StampTypes, RecordTypes, Is, Clip, Clips, Stampers
      <3>6. tmp'[st["queue"].clip] = tmp[st["queue"].clip]
        BY <3>2, <3>5 DEF Goes
      <3> QED
        BY <3>3, <3>4, <3>6 DEF CopyRight, Clip
    <2> QED
      BY <2>1, <2>2 DEF Stampers
  <1> QED
    BY <1>0, <1>2, <1>3, <1>4 DEF Footage

(* the record of a stamper that ends or goes on, the temporary path of its clip
   being taken from the other one *)
LEMMA TakenGoes ==
    ASSUME ClipTypes, NEW s \in Stampers, NEW n \in StampRecords, NEW where \in {"unlinked", "clip"},
           NEW c \in Clips, n.pc # "idle" => n.clip = c,
           st' = Taken([st EXCEPT ![s] = n], c, where),
           NEW t \in TmpContents, tmp' = [tmp EXCEPT ![c] = t]
    PROVE  /\ Goes(s, c) /\ tmp'[c] = t
           /\ st'[s].pc = n.pc
  <1> DEFINE new == [st EXCEPT ![s] = n]
  <1>1. new \in [Stampers -> StampRecords] /\ new[s] = n /\ \A o \in Stampers \ {s} : new[o] = st[o]
    BY DEF ClipTypes, StampTypes
  <1>2. st' = [x \in Stampers |-> IF new[x].clip = c /\ new[x].out = "here"
                                  THEN [new[x] EXCEPT !.out = where] ELSE new[x]]
    BY DEF Taken
  <1> HIDE DEF new
  <1>3. \A x \in Stampers : [new[x] EXCEPT !.out = where] \in StampRecords
    BY <1>1 DEF StampRecords
  <1>4. \A x \in Stampers : /\ [new[x] EXCEPT !.out = where].pc = new[x].pc
                            /\ [new[x] EXCEPT !.out = where].clip = new[x].clip
    BY <1>1 DEF StampRecords
  <1>5. st' \in [Stampers -> StampRecords]
    BY <1>1, <1>2, <1>3
  <1>6. \A x \in Stampers : /\ st'[x].pc = new[x].pc /\ st'[x].clip = new[x].clip
                            /\ new[x].clip # c => st'[x] = new[x]
    BY <1>2, <1>4
  <1>7. tmp' \in [Clips -> TmpContents] /\ tmp'[c] = t /\ \A x \in Clips \ {c} : tmp'[x] = tmp[x]
    BY DEF ClipTypes, DiskTypes
  <1> QED
    BY <1>1, <1>5, <1>6, <1>7 DEF Goes

(* the same, without *)
LEMMA PlainGoes ==
    ASSUME ClipTypes, NEW s \in Stampers, NEW n \in StampRecords, NEW c \in Clips,
           n.pc # "idle" => n.clip = c, st' = [st EXCEPT ![s] = n],
           tmp' = tmp \/ \E t \in TmpContents : tmp' = [tmp EXCEPT ![c] = t]
    PROVE  Goes(s, c) /\ st'[s] = n
  <1>1. st' \in [Stampers -> StampRecords] /\ st'[s] = n /\ \A o \in Stampers \ {s} : st'[o] = st[o]
    BY DEF ClipTypes, StampTypes
  <1>2. tmp' \in [Clips -> TmpContents] /\ \A x \in Clips \ {c} : tmp'[x] = tmp[x]
    BY DEF ClipTypes, DiskTypes
  <1> QED
    BY <1>1, <1>2 DEF Goes

LEMMA NoStampTypes == NoStamp \in StampRecords /\ NoStamp.pc = "idle"
  BY BoundTypes DEF NoStamp, StampRecords, StampLabels

(* what a step of a stamper leaves: its types, once the disk is seen to *)
LEMMA StampingTypes ==
    ASSUME ClipTypes, NEW s \in Stampers, ~Is(s, "idle"), Goes(s, Clip(s)), Alone,
           file' \in [Clips -> Contents], sealed' \subseteq sealed \cup {Clip(s)},
           \A x \in Clips \ {Clip(s)} : file'[x] = file[x], AgeTypes'
    PROVE  ClipTypes'
  <1> USE DEF ClipTypes
  <1>1. UNCHANGED <<place, log, made, writing, rec, intent, fin, queue, bf>>
    BY DEF Alone
  <1>2. Clip(s) \in 1..made /\ made \in Nat
    BY DEF StampTypes, RecordTypes
  <1>3. DiskTypes'
    <2>1. \A x \in Clips : x > made => file'[x] = "none"
      BY <1>2 DEF DiskTypes, Clips
    <2>2. tmp' \in [Clips -> TmpContents] /\ sealed' \subseteq 1..made
      BY <1>2 DEF Goes, DiskTypes
    <2> QED
      BY <1>1, <2>1, <2>2 DEF DiskTypes, Closed
  <1>4. StampTypes'
    BY <1>1, GoesTypes
  <1>5. RecordTypes'
    BY <1>1, RecordFrame DEF recVars
  <1> QED
    BY <1>1, <1>3, <1>4, <1>5, FinFrame, QueueFrame, BackfillFrame

(* the clip that is being stamped *)
LEMMA StampedClip ==
    ASSUME ClipTypes, Footage, NEW s \in Stampers, ~Is(s, "idle")
    PROVE  /\ Clip(s) \in Clips /\ st[s] \in StampRecords /\ file \in [Clips -> Contents]
           /\ s = "queue" => Clip(s) # writing
           /\ s = "queue" /\ Clip(s) \notin touched =>
                file[Clip(s)] \in {"none", "whole", "stamped"} /\ CopyRight(st[s], tmp[Clip(s)])
  <1>1. Clip(s) \in Clips
    BY BoundTypes DEF ClipTypes, StampTypes, RecordTypes, Clips
  <1>2. st[s] \in StampRecords /\ file \in [Clips -> Contents]
    BY DEF ClipTypes, StampTypes, DiskTypes
  <1>3. s = "queue" => Clip(s) # writing
    BY DEF ClipTypes, StampTypes, Closed
  <1>4. s = "queue" /\ Clip(s) \notin touched => file[Clip(s)] \in {"none", "whole", "stamped"}
    BY <1>1, <1>3 DEF Footage, Whole
  <1>5. s = "queue" /\ Clip(s) \notin touched => CopyRight(st[s], tmp[Clip(s)])
    BY DEF Footage
  <1> QED
    BY <1>1, <1>2, <1>3, <1>4, <1>5

LEMMA ProbeKeeps ==
    ASSUME ClipTypes, Footage, NEW s \in Stampers, Probe(s)
    PROVE  ClipTypes' /\ Footage'
  <1>0. ~Is(s, "idle") /\ Alone /\ UNCHANGED <<file, age>>
    BY DEF Probe, Is, Alone, recVars, ghosts
  <1> DEFINE c == Clip(s)
  <1>1. /\ c \in Clips /\ st[s] \in StampRecords
        /\ s = "queue" /\ c \notin touched => file[c] \in {"none", "whole", "stamped"}
    BY <1>0, StampedClip
  <1>2. AgeTypes' /\ file' \in [Clips -> Contents]
    BY <1>0, AgeFrame DEF ClipTypes, DiskTypes
  <1>3. CASE file[c] = "none" \/ IsStampedProbe(c)
    <2>1. st' = [st EXCEPT ![s] = NoStamp] /\ sealed' \subseteq sealed \cup {c} /\ tmp' = tmp
      BY <1>3 DEF Probe, Ends
    <2>2. Goes(s, c) /\ st'[s].pc = "idle"
      <3> HIDE DEF c
      <3> QED
        BY <1>1, <2>1, NoStampTypes, PlainGoes
    <2>3. ClipTypes'
      BY <1>0, <1>2, <2>1, <2>2, StampingTypes
    <2>4. CopyRight(st'[s], tmp'[c])
      BY <2>2 DEF CopyRight
    <2> QED
      BY <1>0, <1>1, <2>2, <2>3, <2>4, GoesFootage DEF ClipTypes
  <1>4. CASE ~(file[c] = "none" \/ IsStampedProbe(c))
    <2> DEFINE n == [st[s] EXCEPT !.pc = "encode", !.out = "here"]
               t == IF \E o \in Others(s) : Clip(o) = c /\ Is(o, "encode") /\ st[o].out = "here" THEN "mixed"
                    ELSE IF file[c] = "whole" THEN "part" ELSE "partcut"
    <2>1. st' = [st EXCEPT ![s] = n] /\ tmp' = [tmp EXCEPT ![c] = t] /\ sealed' = sealed
      BY <1>4 DEF Probe
    <2>2. n \in StampRecords /\ n.pc = "encode" /\ n.clip = c /\ n.out = "here"
      BY <1>1 DEF StampRecords, StampLabels, Clip
    <2>3. t \in TmpContents
      BY DEF TmpContents
    <2>4. s = "queue" /\ c \notin touched => t = "part"
      <3> SUFFICES ASSUME s = "queue", c \notin touched PROVE t = "part"
        OBVIOUS
      <3>1. file[c] = "whole"
        BY <1>1, <1>4 DEF IsStampedProbe
      <3>2. \A o \in Others(s) : o = "backfill"
        BY DEF Others, Stampers
      <3>3. \A o \in Others(s) : ~(Clip(o) = c /\ Is(o, "encode"))
        BY <3>2 DEF Footage, Is
      <3> QED
        BY <3>1, <3>3
    <2> HIDE DEF n, t
    <2>5. Goes(s, c) /\ st'[s] = n
      <3> HIDE DEF c
      <3> QED
        BY <1>1, <2>1, <2>2, <2>3, PlainGoes
    <2>6. ClipTypes'
      BY <1>0, <1>2, <2>1, <2>5, StampingTypes
    <2>7. tmp'[c] = t
      BY <1>1, <2>1 DEF ClipTypes, DiskTypes
    <2>8. s = "queue" /\ c \notin touched => CopyRight(st'[s], tmp'[c])
      BY <2>2, <2>4, <2>5, <2>7 DEF CopyRight
    <2> QED
      BY <1>0, <1>1, <2>5, <2>6, <2>8, GoesFootage DEF ClipTypes
  <1> QED
    BY <1>3, <1>4

LEMMA EncodeKeeps ==
    ASSUME ClipTypes, Footage, NEW s \in Stampers, Encode(s)
    PROVE  ClipTypes' /\ Footage'
  <1>0. ~Is(s, "idle") /\ Alone /\ UNCHANGED <<sealed, age>> /\ st[s].pc = "encode"
    BY DEF Encode, Is, Alone, recVars, ghosts
  <1> DEFINE c == Clip(s)
             n == [st[s] EXCEPT !.pc = "validate"]
             t == CASE tmp[c] = "part" -> "done" [] tmp[c] = "partcut" -> "donecut" [] OTHER -> "mixed"
  <1>1. /\ c \in Clips /\ st[s] \in StampRecords /\ file \in [Clips -> Contents]
        /\ s = "queue" /\ c \notin touched =>
             file[c] \in {"none", "whole", "stamped"} /\ CopyRight(st[s], tmp[c])
    BY <1>0, StampedClip
  <1>2. st' = [st EXCEPT ![s] = n]
    BY DEF Encode, StepTo
  <1>3. n \in StampRecords /\ n.pc = "validate" /\ n.clip = c /\ n.out = st[s].out
    BY <1>1 DEF StampRecords, StampLabels, Clip
  <1>4. /\ st[s].out # "here" => tmp' = tmp
        /\ st[s].out = "here" => tmp' = [tmp EXCEPT ![c] = t]
    BY DEF Encode
  <1>5. t \in TmpContents
    BY DEF TmpContents
  <1>6. tmp \in [Clips -> TmpContents]
    BY DEF ClipTypes, DiskTypes
  <1>7. s = "queue" /\ c \notin touched => tmp'[c] \in {"none", "done"}
    BY <1>0, <1>1, <1>4, <1>6 DEF CopyRight
  <1>8. /\ file' = file \/ (file[c] = "torn" /\ file' = [file EXCEPT ![c] = "stamped"])
    BY DEF Encode
  <1>9. /\ file' \in [Clips -> Contents] /\ \A x \in Clips \ {c} : file'[x] = file[x]
        /\ \A x \in Clips : file'[x] # "none" <=> file[x] # "none"
        /\ file'[c] \in {file[c], "stamped"}
    BY <1>1, <1>8 DEF Contents
  <1>10. AgeTypes'
    BY <1>0, <1>9 DEF AgeTypes, ClipTypes
  <1> HIDE DEF n, t
  <1>11. Goes(s, c) /\ st'[s] = n
    <2>1. tmp' = tmp \/ \E x \in TmpContents : tmp' = [tmp EXCEPT ![c] = x]
      BY <1>4, <1>5
    <2> HIDE DEF c
    <2> QED
      BY <1>1, <1>2, <1>3, <2>1, PlainGoes
  <1>12. ClipTypes'
    BY <1>0, <1>9, <1>10, <1>11, StampingTypes
  <1>13. s = "queue" /\ c \notin touched => CopyRight(st'[s], tmp'[c])
    BY <1>3, <1>7, <1>11 DEF CopyRight
  <1> QED
    BY <1>0, <1>1, <1>9, <1>11, <1>12, <1>13, GoesFootage DEF ClipTypes

LEMMA CleanupGoes ==
    ASSUME ClipTypes, NEW s \in Stampers, NEW c \in Clips,
           st' = Taken([st EXCEPT ![s] = NoStamp], c, "unlinked"), tmp' = [tmp EXCEPT ![c] = "none"]
    PROVE  Goes(s, c) /\ st'[s].pc = "idle"
  <1>1. "none" \in TmpContents /\ "unlinked" \in {"unlinked", "clip"}
    BY DEF TmpContents
  <1>2. NoStamp \in StampRecords /\ NoStamp.pc = "idle" /\ (NoStamp.pc # "idle" => NoStamp.clip = c)
    BY NoStampTypes
  <1>3. Goes(s, c) /\ st'[s].pc = NoStamp.pc
    BY <1>1, <1>2, TakenGoes
  <1> QED
    BY <1>2, <1>3

(* the end of an attempt, good or bad: the temporary file goes, whoever writes it *)
LEMMA CleanupKeeps ==
    ASSUME ClipTypes, Footage, NEW s \in Stampers, ~Is(s, "idle"), Alone, UNCHANGED <<file, age>>,
           st' = Taken(Ends(s), Clip(s), "unlinked"), tmp' = [tmp EXCEPT ![Clip(s)] = "none"],
           sealed' \subseteq sealed \cup {Clip(s)}
    PROVE  ClipTypes' /\ Footage'
  <1> DEFINE c == Clip(s)
  <1>1. /\ c \in Clips
        /\ s = "queue" /\ c \notin touched => file[c] \in {"none", "whole", "stamped"}
    BY StampedClip
  <1>2. st' = Taken([st EXCEPT ![s] = NoStamp], c, "unlinked") /\ tmp' = [tmp EXCEPT ![c] = "none"]
    BY DEF Ends
  <1>3. "none" \in TmpContents
    BY DEF TmpContents
  <1>4. Goes(s, c) /\ st'[s].pc = "idle"
    <2> HIDE DEF c
    <2> QED
      BY <1>1, <1>2, <1>3, CleanupGoes
  <1>5. AgeTypes' /\ file' \in [Clips -> Contents]
    BY AgeFrame DEF ClipTypes, DiskTypes
  <1>6. ClipTypes'
    BY <1>4, <1>5, StampingTypes
  <1>7. CopyRight(st'[s], tmp'[c])
    BY <1>4 DEF CopyRight
  <1> QED
    BY <1>1, <1>4, <1>6, <1>7, GoesFootage DEF ClipTypes

LEMMA ValidateKeeps ==
    ASSUME ClipTypes, Footage, NEW s \in Stampers, Validate(s)
    PROVE  ClipTypes' /\ Footage'
  <1> DEFINE c == Clip(s)
             n == [st[s] EXCEPT !.pc = "replace"]
  <1>0. ~Is(s, "idle") /\ Alone /\ UNCHANGED <<file, age, sealed>> /\ st[s].pc = "validate"
    BY DEF Validate, Is, Alone, recVars
  <1>1. /\ c \in Clips /\ st[s] \in StampRecords
        /\ s = "queue" /\ c \notin touched =>
             file[c] \in {"none", "whole", "stamped"} /\ CopyRight(st[s], tmp[c])
    BY <1>0, StampedClip
  <1>2. CASE st' = Taken(Ends(s), c, "unlinked") /\ tmp' = [tmp EXCEPT ![c] = "none"]
    BY <1>0, <1>2, CleanupKeeps
  <1>3. CASE st' = [st EXCEPT ![s] = n] /\ tmp' = tmp
    <2>1. n \in StampRecords /\ n.pc = "replace" /\ n.clip = c
      BY <1>1 DEF StampRecords, StampLabels, Clip
    <2> HIDE DEF n
    <2>2. Goes(s, c) /\ st'[s] = n
      <3> HIDE DEF c
      <3> QED
        BY <1>1, <1>3, <2>1, PlainGoes
    <2>3. AgeTypes' /\ file' \in [Clips -> Contents]
      BY <1>0, AgeFrame DEF ClipTypes, DiskTypes
    <2>4. ClipTypes'
      BY <1>0, <2>2, <2>3, StampingTypes
    <2>5. s = "queue" /\ c \notin touched => CopyRight(st'[s], tmp'[c])
      BY <1>0, <1>1, <1>3, <2>1, <2>2 DEF CopyRight
    <2> QED
      BY <1>0, <1>1, <2>2, <2>4, <2>5, GoesFootage DEF ClipTypes
  <1>4. \/ st' = Taken(Ends(s), c, "unlinked") /\ tmp' = [tmp EXCEPT ![c] = "none"]
        \/ st' = [st EXCEPT ![s] = n] /\ tmp' = tmp
    BY DEF Validate, StepTo
  <1> QED
    BY <1>2, <1>3, <1>4

LEMMA ReplaceKeeps ==
    ASSUME ClipTypes, Footage, NEW s \in Stampers, Replace(s)
    PROVE  ClipTypes' /\ Footage'
  <1> DEFINE c == Clip(s)
             n == [st[s] EXCEPT !.pc = "seal"]
  <1>0. ~Is(s, "idle") /\ Alone /\ UNCHANGED sealed /\ st[s].pc = "replace"
    BY DEF Replace, Is, Alone, recVars
  <1>1. /\ c \in Clips /\ st[s] \in StampRecords /\ file \in [Clips -> Contents]
        /\ s = "queue" /\ c \notin touched =>
             file[c] \in {"none", "whole", "stamped"} /\ CopyRight(st[s], tmp[c])
    BY <1>0, StampedClip
  <1>2. CASE tmp[c] = "none"
    <2>1. st' = [st EXCEPT ![s] = NoStamp] /\ UNCHANGED <<file, age, tmp>>
      BY <1>2 DEF Replace, Ends
    <2>2. Goes(s, c) /\ st'[s].pc = "idle"
      <3> HIDE DEF c
      <3> QED
        BY <1>1, <2>1, NoStampTypes, PlainGoes
    <2>3. AgeTypes' /\ file' \in [Clips -> Contents]
      BY <2>1, AgeFrame DEF ClipTypes, DiskTypes
    <2>4. ClipTypes'
      BY <1>0, <2>1, <2>2, <2>3, StampingTypes
    <2>5. CopyRight(st'[s], tmp'[c])
      BY <2>2 DEF CopyRight
    <2> QED
      BY <1>0, <1>1, <2>1, <2>2, <2>4, <2>5, GoesFootage DEF ClipTypes
  <1>3. CASE tmp[c] # "none"
    <2>1. /\ file' = [file EXCEPT ![c] = Installed(c)] /\ age' \in Newest(c)
          /\ tmp' = [tmp EXCEPT ![c] = "none"] /\ st' = Taken([st EXCEPT ![s] = n], c, "clip")
      BY <1>3 DEF Replace, StepTo
    <2>2. n \in StampRecords /\ n.pc = "seal" /\ n.clip = c
      BY <1>1 DEF StampRecords, StampLabels, Clip
    <2>3. Installed(c) \in {"stamped", "cut", "torn"}
      BY DEF Installed
    <2>4. s = "queue" /\ c \notin touched => Installed(c) = "stamped"
      BY <1>0, <1>1, <1>3 DEF CopyRight, Installed
    <2>5. "none" \in TmpContents
      BY DEF TmpContents
    <2> HIDE DEF n
    <2>6. Goes(s, c) /\ st'[s].pc = "seal"
      <3> HIDE DEF c
      <3> QED
        BY <1>1, <2>1, <2>2, <2>5, TakenGoes
    <2>7. /\ file' \in [Clips -> Contents] /\ file'[c] = Installed(c)
          /\ \A x \in Clips \ {c} : file'[x] = file[x]
      BY <1>1, <2>1, <2>3 DEF Contents
    <2>8. AgeTypes'
      BY <1>1, <2>1, <2>3, <2>7, NewestTypes DEF ClipTypes
    <2>9. ClipTypes'
      BY <1>0, <2>6, <2>7, <2>8, StampingTypes
    <2>10. CopyRight(st'[s], tmp'[c])
      BY <2>6 DEF CopyRight
    <2> QED
      BY <1>0, <1>1, <2>4, <2>6, <2>7, <2>9, <2>10, GoesFootage DEF ClipTypes
  <1> QED
    BY <1>2, <1>3

LEMMA StampingKeeps ==
    ASSUME ClipTypes, Footage, NEW s \in Stampers, Stamping(s)
    PROVE  ClipTypes' /\ Footage'
  <1>1. CASE EncodeFails(s)
    <2>1. ~Is(s, "idle") /\ Alone /\ UNCHANGED <<file, age, sealed>>
      BY <1>1 DEF EncodeFails, Is, Alone, recVars
    <2>2. st' = Taken(Ends(s), Clip(s), "unlinked") /\ tmp' = [tmp EXCEPT ![Clip(s)] = "none"]
      BY <1>1 DEF EncodeFails
    <2> QED
      BY <2>1, <2>2, CleanupKeeps
  <1>2. CASE Seal(s)
    <2>1. ~Is(s, "idle") /\ Alone /\ UNCHANGED <<file, age>> /\ sealed' = sealed \cup {Clip(s)}
      BY <1>2 DEF Seal, Is, Alone, recVars, ghosts
    <2>2. st' = Taken(Ends(s), Clip(s), "unlinked") /\ tmp' = [tmp EXCEPT ![Clip(s)] = "none"]
      BY <1>2 DEF Seal
    <2> QED
      BY <2>1, <2>2, CleanupKeeps
  <1> QED
    BY <1>1, <1>2, ProbeKeeps, EncodeKeeps, ValidateKeeps, ReplaceKeeps DEF Stamping

-----------------------------------------------------------------------------
(* The backfill, and deletion.                                             *)

LEMMA BackfillKeeps ==
    ASSUME ClipTypes, Footage, BackfillStart \/ BackfillCancel \/ BackfillRun
    PROVE  ClipTypes' /\ Footage'
  <1> USE DEF ClipTypes
  <1>1. UNCHANGED <<file, place, log, sealed, age, tmp, made, writing, rec, intent, fin, queue>>
    BY DEF BackfillStart, BackfillCancel, BackfillRun, diskVars, recVars, stampVars
  <1>2. RecordTypes'
    BY <1>1, RecordFrame DEF recVars
  <1>3. DiskTypes' /\ AgeTypes' /\ FinTypes' /\ QueueTypes'
    BY <1>1, DiskFrame, AgeFrame, FinFrame, QueueFrame
  <1>4. SUFFICES BackfillTypes' /\ StampTypes' /\ Footage'
    BY <1>2, <1>3
  <1>5. CASE BackfillStart
    <2>1. UNCHANGED <<st, touched>>
      BY <1>5 DEF BackfillStart, stampVars, ghosts
    <2> DEFINE S == {c \in Clips : file[c] # "none" /\ place[c] = dir["others"] /\ c \notin sealed}
    <2>2. PICK inv \in ByName(S) : bf' = [state |-> "running", inv |-> inv, cancel |-> FALSE]
      BY <1>5 DEF BackfillStart, UnstampedInventory
    <2>3. S \in SUBSET Clips /\ \A c \in S : c \in 1..made
      BY BoundTypes DEF DiskTypes, RecordTypes, Clips
    <2> HIDE DEF S
    <2>4. inv \in Seq(Clips) /\ \A i \in DOMAIN inv : inv[i] \in 1..made
      BY <2>2, <2>3, ListingTypes DEF ByName
    <2>5. BackfillTypes'
      BY <1>1, <2>2, <2>4 DEF BackfillTypes
    <2> QED
      BY <1>1, <2>1, <2>5, StampFrame, FootageFrame
  <1>6. CASE BackfillCancel
    <2>1. UNCHANGED <<st, touched>>
      BY <1>6 DEF BackfillCancel, stampVars, ghosts
    <2>2. bf' = [bf EXCEPT !.state = "cancelling", !.cancel = TRUE]
      BY <1>6 DEF BackfillCancel
    <2>3. BackfillTypes'
      BY <1>1, <2>2 DEF BackfillTypes
    <2> QED
      BY <1>1, <2>1, <2>3, StampFrame, FootageFrame
  <1>7. CASE BackfillRun /\ (bf.inv = <<>> \/ bf.cancel)
    <2>1. bf' = NoBackfill /\ UNCHANGED <<st, touched>>
      BY <1>7 DEF BackfillRun
    <2>2. BackfillTypes'
      BY <2>1 DEF BackfillTypes, NoBackfill
    <2> QED
      BY <1>1, <2>1, <2>2, StampFrame, FootageFrame
  <1>8. CASE BackfillRun /\ ~(bf.inv = <<>> \/ bf.cancel)
    <2> DEFINE c == Head(bf.inv)
               n == [pc |-> "probe", clip |-> c, out |-> "none"]
    <2>1. /\ bf' = [bf EXCEPT !.inv = Tail(@)] /\ st' = [st EXCEPT !["backfill"] = n]
          /\ touched' = touched \cup {c} /\ bf.inv # <<>>
      BY <1>8 DEF BackfillRun
    <2>2. bf.inv \in Seq(Clips) /\ \A i \in DOMAIN bf.inv : bf.inv[i] \in 1..made
      BY DEF BackfillTypes
    <2>3. /\ c \in Clips /\ c \in 1..made /\ Tail(bf.inv) \in Seq(Clips)
          /\ \A i \in DOMAIN Tail(bf.inv) : Tail(bf.inv)[i] \in 1..made
      BY <2>1, <2>2, TailTypes
    <2> HIDE DEF c
    <2>4. BackfillTypes'
      BY <1>1, <2>1, <2>3 DEF BackfillTypes
    <2>5. n \in StampRecords /\ n.pc = "probe" /\ n.clip = c
      BY <2>3, BoundTypes DEF StampRecords, StampLabels, Clips
    <2> HIDE DEF n
    <2>6. st' \in [Stampers -> StampRecords] /\ st'["backfill"] = n /\ st'["queue"] = st["queue"]
      BY <2>1, <2>5 DEF StampTypes, Stampers
    <2>7. StampTypes'
      BY <1>1, <2>3, <2>5, <2>6 DEF StampTypes, Stampers, Is, Clip, Closed
    <2>8. Footage'
      BY <1>1, <2>1, <2>5, <2>6 DEF Footage, Whole, CopyRight, Is, Clip
    <2> QED
      BY <2>4, <2>7, <2>8
  <1> QED
    BY <1>5, <1>6, <1>7, <1>8

LEMMA UnlinkKeeps ==
    ASSUME ClipTypes, Footage, NEW cs, Unlink(cs), UNCHANGED <<tmp, st>>
    PROVE  ClipTypes' /\ Footage'
  <1> USE DEF ClipTypes
  <1>1. UNCHANGED <<place, log, sealed, tmp, made, writing, rec, intent, fin, queue, st, bf, touched>>
    BY DEF Unlink, recVars
  <1>2. /\ file' \in [Clips -> Contents]
        /\ \A x \in Clips : file'[x] = IF x \in cs THEN "none" ELSE file[x]
    BY DEF Unlink, DiskTypes, Contents
  <1>3. AgeTypes'
    BY <1>2, DeletedTypes DEF Unlink
  <1>4. DiskTypes'
    BY <1>1, <1>2 DEF DiskTypes, Closed
  <1>5. RecordTypes'
    BY <1>1, RecordFrame DEF recVars
  <1>6. Footage'
    BY <1>1, <1>2 DEF Footage, Whole, CopyRight, Is, Clip
  <1> QED
    BY <1>1, <1>3, <1>4, <1>5, <1>6, FinFrame, QueueFrame, StampFrame, BackfillFrame

LEMMA DeleteAllKeeps ==
    ASSUME ClipTypes, Footage, DeleteCameraRecordings
    PROVE  ClipTypes' /\ Footage'
  <1> USE DEF ClipTypes
  <1> DEFINE all == {c \in Clips : place[c] = dir["manager"]}
             cs == {c \in Clips : place[c] = dir["manager"] /\ file[c] # "none"}
  <1>1. /\ UNCHANGED <<place, made, writing, rec, intent, fin, queue, bf, touched>>
        /\ log' \subseteq log /\ sealed' \subseteq sealed
    BY DEF DeleteCameraRecordings, recVars
  <1>2. /\ file' = [c \in Clips |-> IF c \in cs THEN "none" ELSE file[c]]
        /\ age' \in ByAge(ToSet(age) \ cs)
        /\ tmp' = [c \in Clips |-> IF c \in all THEN "none" ELSE tmp[c]]
        /\ st' = [s \in Stampers |-> IF Clip(s) \in all /\ st[s].out = "here"
                                     THEN [st[s] EXCEPT !.out = "unlinked"] ELSE st[s]]
    BY DEF DeleteCameraRecordings
  <1> HIDE DEF all, cs
  <1>3. /\ file' \in [Clips -> Contents]
        /\ \A x \in Clips : file'[x] = IF x \in cs THEN "none" ELSE file[x]
    BY <1>2 DEF DiskTypes, Contents
  <1>4. AgeTypes'
    BY <1>2, <1>3, DeletedTypes
  <1>5. DiskTypes'
    <2>1. tmp' \in [Clips -> TmpContents]
      BY <1>2 DEF DiskTypes, TmpContents
    <2> QED
      BY <1>1, <1>3, <2>1 DEF DiskTypes, Closed
  <1>6. \A s \in Stampers : /\ [st[s] EXCEPT !.out = "unlinked"] \in StampRecords
                            /\ [st[s] EXCEPT !.out = "unlinked"].pc = st[s].pc
                            /\ [st[s] EXCEPT !.out = "unlinked"].clip = st[s].clip
                            /\ [st[s] EXCEPT !.out = "unlinked"].out = "unlinked"
    BY DEF StampTypes, StampRecords
  <1>7. /\ st' \in [Stampers -> StampRecords]
        /\ \A s \in Stampers : st'[s].pc = st[s].pc /\ st'[s].clip = st[s].clip
        /\ \A s \in Stampers : st'[s].out = IF st[s].clip \in all /\ st[s].out = "here"
                                            THEN "unlinked" ELSE st[s].out
    BY <1>2, <1>6 DEF StampTypes, Clip
  <1>8. StampTypes'
    BY <1>1, <1>7 DEF StampTypes, Is, Clip, Closed, Stampers
  <1>9. RecordTypes'
    BY <1>1, RecordFrame DEF recVars
  <1>10. Footage'
    <2>1. \A c \in Clips \ touched : Whole(c)'
      BY <1>1, <1>3 DEF Footage, Whole
    <2>2. (~Is("backfill", "idle"))' => Clip("backfill")' \in touched
      BY <1>7 DEF Footage, Is, Clip, Stampers
    <2>3. ASSUME st'["queue"].pc # "idle", st'["queue"].clip \notin touched
          PROVE  CopyRight(st'["queue"], tmp'[st'["queue"].clip])
      <3> DEFINE c == st["queue"].clip
      <3>1. st["queue"].pc # "idle" /\ c \notin touched /\ st'["queue"].clip = c
        BY <1>7, <2>3 DEF Stampers
      <3>2. CopyRight(st["queue"], tmp[c])
        BY <3>1 DEF Footage, Is, Clip
      <3>3. c \in Clips
        BY <3>1, BoundTypes DEF StampTypes, RecordTypes, Is, Clip, Clips, Stampers
      <3>4. tmp'[c] = IF c \in all THEN "none" ELSE tmp[c]
        BY <1>2, <3>3
      <3> HIDE DEF c
      <3>5. /\ st'["queue"].pc = st["queue"].pc
            /\ st'["queue"].out = IF c \in all /\ st["queue"].out = "here" THEN "unlinked" ELSE st["queue"].out
        BY <1>7 DEF Stampers, c
      <3> QED
        BY <3>1, <3>2, <3>4, <3>5 DEF CopyRight
    <2> QED
      BY <1>1, <2>1, <2>2, <2>3 DEF Footage, Is, Clip, CopyRight
  <1> QED
    BY <1>1, <1>4, <1>5, <1>8, <1>9, <1>10, FinFrame, QueueFrame, BackfillFrame

LEMMA RestartKeeps ==
    ASSUME ClipTypes, Footage, ServerRestart
    PROVE  ClipTypes' /\ Footage'
  <1> USE DEF ClipTypes
  <1>1. /\ UNCHANGED <<made, place, log, sealed, age, tmp, touched>>
        /\ writing' = 0 /\ rec' = "off" /\ intent' = "stopped"
        /\ fin' = NoFinalizer /\ queue' = <<>> /\ bf' = NoBackfill
    BY DEF ServerRestart
  <1>2. \A s \in Stampers : st'[s] = NoStamp
    BY DEF ServerRestart
  <1>3. st' \in [Stampers -> StampRecords]
    BY NoStampTypes DEF ServerRestart
  <1>4. /\ file' \in [Clips -> Contents]
        /\ \A c \in Clips : file'[c] = IF file[c] = "open" THEN "whole" ELSE file[c]
    BY DEF ServerRestart, DiskTypes, Contents
  <1>5. RecordTypes'
    BY <1>1 DEF RecordTypes
  <1>6. DiskTypes'
    <2>1. made \in Nat
      BY DEF RecordTypes
    <2>2. log' \subseteq Closed'
      BY <1>1, <2>1 DEF DiskTypes, Closed
    <2> QED
      BY <1>1, <1>4, <2>2 DEF DiskTypes
  <1>7. AgeTypes'
    BY <1>1, <1>4 DEF AgeTypes
  <1>8. FinTypes' /\ QueueTypes' /\ BackfillTypes'
    BY <1>1, BoundTypes DEF FinTypes, NoFinalizer, QueueTypes, BackfillTypes, NoBackfill
  <1>9. StampTypes'
    BY <1>2, <1>3, NoStampTypes DEF StampTypes, Is, Clip, Stampers
  <1>10. Footage'
    BY <1>1, <1>2, <1>4, NoStampTypes DEF Footage, Whole, Is, Clip, Stampers
  <1> QED
    BY <1>5, <1>6, <1>7, <1>8, <1>9, <1>10

(* the clips and the stamping, whatever the step *)
LEMMA ClipsKept ==
    ASSUME ClipTypes, DirTypes, Footage, [Next]_vars
    PROVE  ClipTypes' /\ Footage'
  <1>1. dir["stream"] \in Dirs
    BY DEF DirTypes, Dependents
  <1>2. ASSUME NEW d \in Dirs, LaunchIn(d) PROVE ClipTypes' /\ Footage'
    BY <1>2, LaunchKeeps
  <1>3. CASE StartRecorder
    BY <1>1, <1>2, <1>3 DEF StartRecorder
  <1>4. CASE StartRecorderFault
    BY <1>2, <1>4 DEF StartRecorderFault, FallBack
  <1>5. CASE StopRecorder
    BY <1>5, StopKeeps DEF StopRecorder
  <1>6. ASSUME NEW c \in Clips, DeleteClip(c) PROVE ClipTypes' /\ Footage'
    BY <1>6, UnlinkKeeps DEF DeleteClip
  <1>7. CASE LoopRecorderDeletes
    BY <1>7, UnlinkKeeps DEF LoopRecorderDeletes
  <1>8. ASSUME NEW t \in Changers, Change(t) PROVE ClipTypes' /\ Footage'
    <2>1. CASE UNCHANGED <<diskVars, made, writing, fin, stampVars, bf, ghosts>> /\
               ((rec' = "stopping" /\ intent' = "stopped") \/ UNCHANGED <<rec, intent>>)
      BY <2>1, StopKeeps
    <2>2. CASE RestartRecorder(t)
      BY <1>1, <1>2, <2>1, <2>2 DEF RestartRecorder, FallBack, recVars
    <2> QED
      BY <1>8, <2>1, <2>2 DEF Change, SetRecordingsDir, UpdateRecordingsDir, SyncDependents, SetOthers, recVars
  <1>9. CASE UNCHANGED vars
    BY <1>9, StopKeeps DEF vars, recVars
  <1> QED
    BY <1>3, <1>4, <1>5, <1>6, <1>7, <1>8, <1>9, SegmentKeeps, ExitKeeps, FinalizerKeeps, WorkerKeeps,
       StampingKeeps, BackfillKeeps, DeleteAllKeeps, RestartKeeps DEF Next

-----------------------------------------------------------------------------
(* The directories.                                                        *)

LEMMA FallBackKeeps ==
    ASSUME DirTypes, Directories, StartRecorderFault
    PROVE  DirTypes' /\ Directories'
  <1>1. PICK d \in Dirs : dir' = [x \in DOMAIN dir |-> d]
    BY DEF StartRecorderFault, FallBack
  <1>2. chg' = chg /\ overlap' = (overlap \/ Changing)
    BY DEF StartRecorderFault
  <1>3. \A x \in Dependents : dir'[x] = d
    BY <1>1 DEF DirTypes
  <1>4. DirTypes'
    BY <1>1, <1>2 DEF DirTypes, Changing
  <1>5. Directories'
    BY <1>2, <1>3 DEF Directories, Changing, ChangeRight, Together, Dependents
  <1> QED
    BY <1>4, <1>5

LEMMA ChangeKeeps ==
    ASSUME DirTypes, Directories, NEW t \in Changers, Change(t)
    PROVE  DirTypes' /\ Directories'
  <1>0. chg[t] \in ChangeRecords /\ dir \in [Dependents -> Dirs] /\ chg \in [Changers -> ChangeRecords]
    BY DEF DirTypes
  <1>1. ASSUME NEW d \in Dirs, SetRecordingsDir(t, d) PROVE DirTypes' /\ Directories'
    <2> DEFINE n == [pc |-> "stream", d |-> d, again |-> FALSE]
    <2>1. /\ chg[t].pc = "none" /\ dir' = [dir EXCEPT !["manager"] = d]
          /\ chg' = [chg EXCEPT ![t] = n] /\ overlap' = (overlap \/ Changing)
      BY <1>1 DEF SetRecordingsDir, NoChange
    <2>2. n \in ChangeRecords /\ n.pc = "stream" /\ n.d = d /\ n.d \in Dirs /\ ~n.again
      BY DEF ChangeRecords
    <2> HIDE DEF n
    <2>3. chg'[t] = n /\ \A u \in Changers \ {t} : chg'[u] = chg[u]
      BY <1>0, <2>1
    <2>4. DirTypes'
      BY <1>0, <2>1, <2>2, <2>3 DEF DirTypes, Changing
    <2>5. Directories'
      <3> SUFFICES ASSUME ~overlap' PROVE Directories'
        BY DEF Directories
      <3>1. ~overlap /\ \A u \in Changers : chg[u].pc = "none"
        BY <2>1 DEF Changing
      <3>2. Changing'
        BY <2>2, <2>3 DEF Changing
      <3>3. dir'["manager"] = d
        BY <1>0, <2>1 DEF Dependents
      <3>4. \A u \in Changers : ChangeRight(u)'
        BY <2>2, <2>3, <3>1, <3>3 DEF ChangeRight
      <3>5. \A u \in Changers : chg'[u].pc # "none" => u = t
        BY <2>3, <3>1
      <3> QED
        BY <3>2, <3>4, <3>5 DEF Directories
    <2> QED
      BY <2>4, <2>5
  <1>2. ASSUME chg[t].pc # "none", overlap' = overlap,
               NEW n \in ChangeRecords, chg' = [chg EXCEPT ![t] = n], dir' \in [Dependents -> Dirs],
               n.pc # "none" => n.d \in Dirs,
               ~overlap => /\ n.pc = "stream" => ~n.again /\ n.d = dir'["manager"]
                           /\ n.pc = "restart" => ~n.again /\ dir'["stream"] = dir'["manager"]
                           /\ n.pc = "sync" => dir'["stream"] = dir'["manager"]
                           /\ n.pc = "others" => dir'["stream"] = dir'["manager"] /\ n.d = dir'["manager"]
                           /\ n.pc = "none" => /\ dir'["stream"] = dir'["manager"]
                                               /\ dir'["others"] = dir'["manager"]
        PROVE  DirTypes' /\ Directories'
    <2>1. chg'[t] = n /\ \A u \in Changers \ {t} : chg'[u] = chg[u]
      BY <1>0, <1>2
    <2>2. DirTypes'
      BY <1>0, <1>2, <2>1 DEF DirTypes
    <2>3. Directories'
      <3> SUFFICES ASSUME ~overlap PROVE Directories'
        BY <1>2 DEF Directories
      <3>1. \A u \in Changers \ {t} : chg'[u].pc = "none"
        BY <1>2, <2>1 DEF Directories
      <3>2. \A u \in Changers : ChangeRight(u)'
        BY <1>2, <2>1, <3>1 DEF ChangeRight, Together
      <3>3. ~Changing' => dir'["stream"] = dir'["manager"] /\ dir'["others"] = dir'["manager"]
        BY <1>2, <2>1 DEF Changing
      <3>4. \A u \in Changers : chg'[u].pc # "none" => u = t
        BY <3>1
      <3> QED
        BY <3>2, <3>3, <3>4 DEF Directories, Together
    <2> QED
      BY <2>2, <2>3
  <1>3. ~overlap => ChangeRight(t)
    BY DEF Directories
  <1>4. ASSUME NEW pc \in {"none", "stream", "restart", "sync", "others"}
        PROVE  /\ [chg[t] EXCEPT !.pc = pc] \in ChangeRecords
               /\ [chg[t] EXCEPT !.pc = pc].pc = pc
               /\ [chg[t] EXCEPT !.pc = pc].d = chg[t].d
               /\ [chg[t] EXCEPT !.pc = pc].again = chg[t].again
    BY <1>0 DEF ChangeRecords
  <1>5. After(t) \in {"sync", "others"} /\ (~chg[t].again => After(t) = "sync")
    BY DEF After
  <1>6. CASE UpdateRecordingsDir(t)
    <2> DEFINE pc == IF rec = "on" THEN "restart" ELSE After(t)
               n == [chg[t] EXCEPT !.pc = pc]
    <2>1. /\ chg[t].pc = "stream" /\ dir' = [dir EXCEPT !["stream"] = chg[t].d] /\ overlap' = overlap
          /\ chg' = [chg EXCEPT ![t] = n]
      BY <1>6 DEF UpdateRecordingsDir
    <2>2. pc \in {"restart", "sync", "others"} /\ (~chg[t].again => pc \in {"restart", "sync"})
      BY <1>5
    <2> HIDE DEF pc
    <2>3. n \in ChangeRecords /\ n.pc = pc /\ n.d = chg[t].d /\ n.again = chg[t].again
      BY <1>4, <2>2
    <2> HIDE DEF n
    <2>4. chg[t].d \in Dirs
      BY <2>1 DEF DirTypes
    <2>5. /\ dir' \in [Dependents -> Dirs] /\ dir'["stream"] = chg[t].d /\ dir'["manager"] = dir["manager"]
      BY <1>0, <2>1, <2>4 DEF Dependents
    <2>6. ~overlap => ~chg[t].again /\ chg[t].d = dir["manager"]
      BY <1>3, <2>1 DEF ChangeRight
    <2>7. n.pc \in {"restart", "sync", "others"} /\ (~overlap => n.pc # "others" /\ ~n.again)
      BY <2>2, <2>3, <2>6
    <2> QED
      BY <1>2, <2>1, <2>3, <2>4, <2>5, <2>6, <2>7
  <1>7. CASE RestartRecorder(t)
    <2> DEFINE n == [chg[t] EXCEPT !.pc = After(t)]
    <2>1. /\ chg[t].pc = "restart" /\ chg' = [chg EXCEPT ![t] = n] /\ overlap' = overlap
          /\ dir' = dir \/ \E d \in Dirs : dir' = [x \in DOMAIN dir |-> d]
      BY <1>7 DEF RestartRecorder, FallBack
    <2>2. n \in ChangeRecords /\ n.pc = After(t) /\ n.d = chg[t].d /\ n.again = chg[t].again
      BY <1>4, <1>5
    <2> HIDE DEF n
    <2>3. /\ dir' \in [Dependents -> Dirs]
          /\ dir["stream"] = dir["manager"] => dir'["stream"] = dir'["manager"]
      BY <1>0, <2>1 DEF Dependents
    <2>4. ~overlap => ~chg[t].again /\ dir["stream"] = dir["manager"]
      BY <1>3, <2>1 DEF ChangeRight, Together
    <2>5. n.pc \in {"sync", "others"} /\ (~overlap => n.pc = "sync")
      BY <1>5, <2>2, <2>4
    <2>6. n.d \in Dirs
      BY <2>1, <2>2 DEF DirTypes
    <2> QED
      BY <1>2, <2>1, <2>2, <2>3, <2>4, <2>5, <2>6
  <1>8. CASE SyncDependents(t)
    <2> DEFINE n == [pc |-> IF dir["stream"] # dir["manager"] THEN "stream" ELSE "others",
                     d |-> dir["manager"], again |-> TRUE]
    <2>1. chg[t].pc = "sync" /\ chg' = [chg EXCEPT ![t] = n] /\ UNCHANGED <<dir, overlap>>
      BY <1>8 DEF SyncDependents
    <2>2. dir["manager"] \in Dirs
      BY <1>0 DEF Dependents
    <2>3. /\ n \in ChangeRecords /\ n.d = dir["manager"]
          /\ n.pc = IF dir["stream"] # dir["manager"] THEN "stream" ELSE "others"
      BY <2>2 DEF ChangeRecords
    <2> HIDE DEF n
    <2>4. ~overlap => dir["stream"] = dir["manager"]
      BY <1>3, <2>1 DEF ChangeRight, Together
    <2>5. n.pc \in {"stream", "others"} /\ (~overlap => n.pc = "others")
      BY <2>3, <2>4
    <2> QED
      BY <1>0, <1>2, <2>1, <2>2, <2>3, <2>4, <2>5
  <1>9. CASE SetOthers(t)
    <2>1. /\ chg[t].pc = "others" /\ dir' = [dir EXCEPT !["others"] = chg[t].d]
          /\ chg' = [chg EXCEPT ![t] = NoChange] /\ overlap' = overlap
      BY <1>9 DEF SetOthers
    <2>2. NoChange \in ChangeRecords /\ NoChange.pc = "none"
      BY DEF NoChange, ChangeRecords
    <2>3. chg[t].d \in Dirs
      BY <2>1 DEF DirTypes
    <2>4. /\ dir' \in [Dependents -> Dirs] /\ dir'["others"] = chg[t].d
          /\ dir'["manager"] = dir["manager"] /\ dir'["stream"] = dir["stream"]
      BY <1>0, <2>1, <2>3 DEF Dependents
    <2>5. ~overlap => dir["stream"] = dir["manager"] /\ chg[t].d = dir["manager"]
      BY <1>3, <2>1 DEF ChangeRight, Together
    <2> QED
      BY <1>2, <2>1, <2>2, <2>4, <2>5
  <1> QED
    BY <1>1, <1>6, <1>7, <1>8, <1>9 DEF Change

LEMMA DirectoriesKept ==
    ASSUME DirTypes, Directories, [Next]_vars
    PROVE  DirTypes' /\ Directories'
  <1>1. CASE UNCHANGED dirVars
    BY <1>1, DirFrame, DirectoriesFrame
  <1>2. ASSUME NEW t \in Changers, Change(t) PROVE DirTypes' /\ Directories'
    BY <1>2, ChangeKeeps
  <1>3. CASE StartRecorderFault
    BY <1>3, FallBackKeeps
  <1>4. CASE ServerRestart
    <2>1. /\ dir' = [x \in DOMAIN dir |-> dir["manager"]] /\ overlap' = FALSE
          /\ chg' = [t \in Changers |-> NoChange]
      BY <1>4 DEF ServerRestart
    <2>2. NoChange \in ChangeRecords /\ NoChange.pc = "none"
      BY DEF NoChange, ChangeRecords
    <2>3. dir' \in [Dependents -> Dirs] /\ \A x \in Dependents : dir'[x] = dir["manager"]
      BY <2>1 DEF DirTypes, Dependents
    <2>4. \A t \in Changers : chg'[t].pc = "none"
      BY <2>1, <2>2
    <2>5. DirTypes'
      BY <2>1, <2>2, <2>3, <2>4 DEF DirTypes
    <2>6. Directories'
      BY <2>3, <2>4 DEF Directories, ChangeRight, Together, Dependents
    <2> QED
      BY <2>5, <2>6
  <1> QED
    BY <1>1, <1>2, <1>3, <1>4 DEF Next, vars, StartRecorder, Segment, StopRecorder, RecorderExits, Sweep, Decide,
       RunWorker, Stamping, Probe, Encode, EncodeFails, Validate, Replace, Seal, BackfillStart, BackfillCancel,
       BackfillRun, DeleteClip, Unlink, DeleteCameraRecordings, LoopRecorderDeletes

-----------------------------------------------------------------------------
LEMMA InitPipeline == Init => PipelineInv
  <1> SUFFICES ASSUME Init PROVE PipelineInv
    OBVIOUS
  <1>1. RecordTypes
    BY BoundTypes DEF Init, RecordTypes
  <1>2. DiskTypes
    BY DEF Init, DiskTypes, Closed, Contents, TmpContents
  <1>3. AgeTypes
    BY DEF Init, AgeTypes, IsInjective, ToSet
  <1>4. FinTypes /\ QueueTypes /\ BackfillTypes
    BY BoundTypes DEF Init, FinTypes, NoFinalizer, QueueTypes, BackfillTypes, NoBackfill
  <1>5. StampTypes
    BY NoStampTypes DEF Init, StampTypes, Is, Stampers
  <1>6. NoChange \in ChangeRecords /\ NoChange.pc = "none"
    BY DEF NoChange, ChangeRecords
  <1>7. DirTypes
    BY <1>6, BoundTypes DEF Init, DirTypes, Dependents
  <1>8. Footage
    BY NoStampTypes DEF Init, Footage, Whole, Is, Stampers
  <1>9. Directories
    BY <1>6 DEF Init, Directories, ChangeRight, Together
  <1> QED
    BY <1>1, <1>2, <1>3, <1>4, <1>5, <1>7, <1>8, <1>9 DEF PipelineInv, Types

LEMMA PipelineHolds == PipelineInv /\ [Next]_vars => PipelineInv'
  BY ClipsKept, DirectoriesKept, TypeSplit DEF PipelineInv, Types, ClipTypes

LEMMA PipelineGivesClips == PipelineInv => ClipInv
  <1> SUFFICES ASSUME PipelineInv PROVE ClipInv
    OBVIOUS
  <1>1. TypeOK
    <2>1. Closed \subseteq 1..made
      BY DEF Closed
    <2> QED
      BY <2>1 DEF PipelineInv, Types, RecordTypes, DiskTypes, AgeTypes, FinTypes, QueueTypes, StampTypes,
         StampRecords, StampLabels, BackfillTypes, DirTypes, Dependents, ChangeRecords, TmpContents, TypeOK
  <1>2. FootageKept
    BY DEF PipelineInv, Footage, Whole, FootageKept
  <1>3. DirsAgree
    BY DEF PipelineInv, Directories, Together, DirsAgree
  <1> QED
    BY <1>1, <1>2, <1>3 DEF ClipInv

(* A clip that ffmpeg has closed keeps its footage unless a backfill touched it,
   the stamp queue stays within its bound, and between changes that do not overlap
   every service has the manager's recordings directory, for any number of clips,
   directories, changers, deletions, faults and restarts (clip_stamper.py stamp,
   clip_stamp_queue.py enqueue, _apply_recording_dir_change). *)
THEOREM ClipsKeepFootage == Spec => []ClipInv
  BY InitPipeline, PipelineHolds, PipelineGivesClips, PTL DEF Spec

-----------------------------------------------------------------------------
(* The library on disk.  What is rotated and not yet announced was deleted *)
(* by the pass that is running, or an error has ended the pass.            *)
LibraryIInv ==
  /\ LibraryTypeOK /\ IsFiniteSet(disk)
  /\ rotated => aborted \/ (loop.pc = "deleting" /\ loop.deleted > 0)

LEMMA LibraryNumbers ==
    /\ Capacity \in Nat \ {0} /\ MaxTime \in Nat /\ MaxDelete \in Nat \ {0} /\ DayLength \in Nat \ {0} /\ Headroom \in Nat
    /\ \A m \in Marks : m.low \in Nat /\ m.hys \in Nat
  BY LibraryAssumption

LEMMA DiskNumbers ==
    ASSUME LibraryIInv
    PROVE  Cardinality(disk) \in Nat /\ Free \in Int /\ mark.low \in Nat /\ Target \in Nat
  BY FS_CardinalityType, LibraryNumbers DEF LibraryIInv, LibraryTypeOK, Free, Target

(* The newest of the clips that are there when the server starts.          *)
LEMMA NewestOld ==
    \E t \in 0..(MaxTime - 1) : \A c \in Old : c.t <= t /\ \E d \in Old : d.t = t
  <1> DEFINE T == {n \in Nat : \E c \in Old : n = MaxTime - c.t}
  <1>1. MaxTime \in Nat /\ Old # {} /\ \A c \in Old : c.t \in 0..(MaxTime - 1)
    BY LibraryAssumption DEF StoredClip
  <1>2. T \subseteq Nat /\ T # {}
    <2> PICK c \in Old : TRUE
      BY <1>1
    <2>1. MaxTime - c.t \in Nat
      BY <1>1
    <2> QED
      BY <2>1
  <1>3. PICK n \in T : \A k \in T : ~(<<k, n>> \in OpToRel(<, Nat))
    BY <1>2, NatLessThanWellFounded, WFMin
  <1>4. PICK d \in Old : n = MaxTime - d.t
    OBVIOUS
  <1>5. ASSUME NEW c \in Old PROVE c.t <= d.t
    <2>1. MaxTime - c.t \in T
      BY <1>1
    <2>2. ~(MaxTime - c.t < n)
      BY <1>2, <1>3, <2>1 DEF OpToRel
    <2> QED
      BY <1>1, <1>4, <2>2
  <1> QED
    BY <1>1, <1>5

LEMMA LibraryStarts == LibraryInit => LibraryIInv
  <1> SUFFICES ASSUME LibraryInit PROVE LibraryIInv
    OBVIOUS
  <1> USE LibraryNumbers
  <1>1. now \in 0..MaxTime
    <2> DEFINE LastOld(t) == \A c \in Old : c.t <= t /\ \E d \in Old : d.t = t
               k == CHOOSE t \in 0..MaxTime : LastOld(t)
    <2>1. PICK m \in 0..(MaxTime - 1) : LastOld(m)
      BY NewestOld
    <2>2. k \in 0..MaxTime /\ LastOld(k)
      BY <2>1
    <2>3. PICK d \in Old : d.t = k
      BY <2>2, LibraryAssumption
    <2>4. k < MaxTime
      BY <2>3, LibraryAssumption
    <2>5. now = 1 + k
      BY DEF LibraryInit
    <2> QED
      BY <2>2, <2>4, <2>5
  <1>2. NoTick \in TickPass /\ NoTick.deleted = 0 /\ NoTick.todo = <<>> /\ NoCleanup \in CleanupPass
    BY DEF NoTick, TickPass, NoCleanup, CleanupPass
  <1>3. mtime \in [StoredClip -> -1..MaxTime]
    BY LibraryAssumption DEF LibraryInit, StoredClip
  <1>4. disk \subseteq StoredClip /\ IsFiniteSet(disk)
    BY LibraryAssumption DEF LibraryInit
  <1>5. LibraryTypeOK
    BY <1>1, <1>2, <1>3, <1>4 DEF LibraryInit, LibraryTypeOK
  <1> QED
    BY <1>2, <1>4, <1>5 DEF LibraryInit, LibraryIInv

LEMMA LibraryStutters == LibraryIInv /\ UNCHANGED libraryVars => LibraryIInv'
  BY DEF LibraryIInv, LibraryTypeOK, libraryVars

(* Clips go, one by one or many at once.                                   *)
LEMMA ClipsGo ==
    ASSUME LibraryIInv, NEW cs, UnlinkClips(cs)
    PROVE  disk' \subseteq StoredClip /\ IsFiniteSet(disk')
  <1>1. disk' \subseteq disk /\ disk \subseteq StoredClip /\ IsFiniteSet(disk)
    BY DEF UnlinkClips, LibraryIInv, LibraryTypeOK
  <1> QED
    BY <1>1, FS_Subset

(* What users delete, without a pass taking part.                          *)
LEMMA UserDeletes ==
    ASSUME LibraryIInv, NEW cs, UnlinkClips(cs), UNCHANGED <<mtime, now, mark, low, risk, loop, clean, paired, rotated, aborted>>
    PROVE  LibraryIInv'
  <1>1. disk' \subseteq StoredClip /\ IsFiniteSet(disk')
    BY ClipsGo
  <1> QED
    BY <1>1 DEF LibraryIInv, LibraryTypeOK

LEMMA RecordStep == ASSUME LibraryIInv, Record PROVE LibraryIInv'
  <1> DEFINE c == [t |-> now, layout |-> "flat"]
  <1>1. now \in 0..MaxTime /\ now' \in 0..MaxTime /\ disk' = disk \cup {c} /\ mtime' = [mtime EXCEPT ![c] = now]
        /\ UNCHANGED <<mark, low, risk, loop, clean, paired, interventions, rotated, aborted>>
    BY LibraryNumbers DEF Record, LibraryIInv, LibraryTypeOK
  <1>2. c \in StoredClip
    BY <1>1 DEF StoredClip, Layouts
  <1> HIDE DEF c
  <1>3. IsFiniteSet(disk')
    BY <1>1, FS_AddElement DEF LibraryIInv
  <1>4. mtime' \in [StoredClip -> -1..MaxTime] /\ disk' \subseteq StoredClip
    BY <1>1, <1>2, LibraryNumbers DEF LibraryIInv, LibraryTypeOK
  <1> QED
    BY <1>1, <1>3, <1>4 DEF LibraryIInv, LibraryTypeOK

LEMMA StampStep == ASSUME LibraryIInv, NEW c \in disk, Stamp(c) PROVE LibraryIInv'
  <1>1. mtime' \in [StoredClip -> -1..MaxTime]
    BY LibraryNumbers DEF Stamp, LibraryIInv, LibraryTypeOK
  <1> QED
    BY <1>1 DEF Stamp, LibraryIInv, LibraryTypeOK

(* A listing is a sequence of clips.                                       *)
LEMMA SortedTypes ==
    ASSUME NEW cs \in SUBSET StoredClip, IsFiniteSet(cs), NEW key, NEW s \in Sorted(cs, key)
    PROVE  s \in Seq(StoredClip)
  <1>1. Cardinality(cs) \in Nat
    BY FS_CardinalityType
  <1>2. s \in [1..Cardinality(cs) -> cs]
    BY DEF Sorted
  <1> QED
    BY <1>1, <1>2

LEMMA TickLowStep == ASSUME LibraryIInv, TickLow PROVE LibraryIInv'
  <1>1. PICK s \in Sorted(disk, mtime) :
          loop' = [pc |-> "deleting", todo |-> s, deleted |-> 0, target |-> Target, at |-> now]
    BY DEF TickLow, SegmentsOldestFirst
  <1>2. s \in Seq(StoredClip)
    BY SortedTypes DEF LibraryIInv, LibraryTypeOK
  <1>3. Target \in Nat /\ now \in 0..MaxTime
    BY DiskNumbers DEF LibraryIInv, LibraryTypeOK
  <1>4. loop' \in TickPass /\ loop'.deleted = 0 /\ loop'.todo = s
    BY <1>1, <1>2, <1>3, LibraryNumbers DEF TickPass
  <1>5. rotated => aborted
    BY DEF TickLow, LibraryIInv
  <1>6. low' = TRUE /\ UNCHANGED <<disk, mtime, now, mark, risk, clean, paired, rotated, aborted>>
    BY DEF TickLow
  <1> QED
    BY <1>4, <1>5, <1>6 DEF LibraryIInv, LibraryTypeOK

LEMMA TickDeleteStep == ASSUME LibraryIInv, TickDelete PROVE LibraryIInv'
  <1> DEFINE c == Head(loop.todo)
             go == c \in disk /\ ~IsLive(c, loop.at)
             n == IF go THEN 1 ELSE 0
  <1>1. /\ loop.pc = "deleting" /\ loop.todo # <<>> /\ UnlinkClips(IF go THEN {c} ELSE {})
        /\ loop' = [loop EXCEPT !.todo = Tail(@), !.deleted = @ + n] /\ rotated' = (rotated \/ (go /\ ~risk))
        /\ UNCHANGED <<mtime, now, mark, low, risk, clean, paired, aborted>>
    BY DEF TickDelete
  <1>2. disk' \subseteq StoredClip /\ IsFiniteSet(disk')
    BY <1>1, ClipsGo
  <1>3. loop \in TickPass /\ rotated \in BOOLEAN
    BY DEF LibraryIInv, LibraryTypeOK
  <1>4. loop.todo \in Seq(StoredClip) /\ loop.deleted \in Nat
    BY <1>3 DEF TickPass
  <1>5. Tail(loop.todo) \in Seq(StoredClip)
    BY <1>1, <1>4, HeadTailProperties
  <1>6. n \in {0, 1} /\ (go => n = 1)
    OBVIOUS
  <1> HIDE DEF go, n
  <1>7. loop' = [loop EXCEPT !.todo = Tail(loop.todo), !.deleted = loop.deleted + n]
    BY <1>1
  <1>8. loop.deleted + n \in Nat
    BY <1>4, <1>6
  <1>9. loop' \in TickPass /\ loop'.pc = "deleting" /\ loop'.todo = Tail(loop.todo) /\ loop'.deleted = loop.deleted + n
    BY <1>1, <1>3, <1>5, <1>7, <1>8 DEF TickPass
  <1>10. rotated' \in BOOLEAN
    BY <1>1
  <1>11. rotated' => aborted' \/ loop'.deleted > 0
    <2>1. CASE rotated
      <3>1. aborted \/ loop.deleted > 0
        BY <2>1 DEF LibraryIInv
      <3> QED
        BY <1>1, <1>4, <1>6, <1>9, <3>1
    <2>2. CASE go
      BY <1>4, <1>6, <1>9, <2>2
    <2> QED
      BY <1>1, <2>1, <2>2
  <1> QED
    BY <1>1, <1>2, <1>9, <1>10, <1>11 DEF LibraryIInv, LibraryTypeOK

LEMMA TickOtherStep == ASSUME LibraryIInv, TickEnough \/ TickEnd PROVE LibraryIInv'
  <1>1. NoTick \in TickPass
    BY LibraryNumbers DEF NoTick, TickPass
  <1>2. CASE TickEnough
    <2>1. low' \in BOOLEAN /\ risk' = FALSE /\ rotated' = FALSE /\ aborted' = FALSE
          /\ UNCHANGED <<disk, mtime, now, mark, loop, clean, paired>>
      BY <1>2 DEF TickEnough
    <2> QED
      BY <2>1 DEF LibraryIInv, LibraryTypeOK
  <1>3. CASE TickEnd
    <2>1. risk' \in BOOLEAN /\ rotated' \in BOOLEAN /\ aborted' \in BOOLEAN /\ loop' = NoTick
          /\ UNCHANGED <<disk, mtime, now, mark, low, clean, paired>>
      BY <1>3 DEF TickEnd
    <2>2. rotated' => aborted'
      <3>1. loop.deleted \in Nat
        BY DEF LibraryIInv, LibraryTypeOK, TickPass
      <3>2. (rotated' <=> rotated /\ loop.deleted = 0) /\ (aborted' <=> aborted /\ rotated')
        BY <1>3 DEF TickEnd
      <3> QED
        BY <3>1, <3>2 DEF LibraryIInv
    <2> QED
      BY <1>1, <2>1, <2>2 DEF LibraryIInv, LibraryTypeOK
  <1> QED
    BY <1>2, <1>3

LEMMA CleanupStep == ASSUME LibraryIInv, StorageManager PROVE LibraryIInv'
  <1>1. CASE CleanupBegin
    <2> DEFINE cs == {c \in disk : c.layout = "dated"}
               key == [c \in StoredClip |-> c.t]
    <2>1. PICK s \in Sorted(cs, key) : clean' = [pc |-> "deleting", todo |-> s, deleted |-> 0]
      BY <1>1 DEF CleanupBegin, Dated
    <2>2. cs \subseteq StoredClip /\ IsFiniteSet(cs)
      <3>1. cs \subseteq disk /\ IsFiniteSet(disk) /\ disk \subseteq StoredClip
        BY DEF LibraryIInv, LibraryTypeOK
      <3> QED
        BY <3>1, FS_Subset
    <2> HIDE DEF cs, key
    <2>3. s \in Seq(StoredClip)
      BY <2>2, SortedTypes
    <2>4. clean' \in CleanupPass
      BY <2>1, <2>3, LibraryNumbers DEF CleanupPass
    <2> QED
      BY <1>1, <2>4 DEF CleanupBegin, LibraryIInv, LibraryTypeOK
  <1>2. CASE CleanupDelete
    <2> DEFINE n == IF Head(clean.todo) \in disk THEN 1 ELSE 0
    <2>1. /\ clean.todo # <<>> /\ ~(clean.deleted >= MaxDelete) /\ UnlinkClips({Head(clean.todo)})
          /\ clean' = [clean EXCEPT !.todo = Tail(clean.todo), !.deleted = clean.deleted + n]
          /\ UNCHANGED <<mtime, now, mark, low, risk, loop, paired, rotated, aborted>>
      BY <1>2 DEF CleanupDelete, CleanupDone
    <2>2. disk' \subseteq StoredClip /\ IsFiniteSet(disk')
      BY <2>1, ClipsGo
    <2>3. clean \in CleanupPass /\ clean.todo \in Seq(StoredClip) /\ clean.deleted \in 0..MaxDelete
      BY DEF LibraryIInv, LibraryTypeOK, CleanupPass
    <2>4. Tail(clean.todo) \in Seq(StoredClip)
      BY <2>1, <2>3, HeadTailProperties
    <2>5. clean.deleted + n \in 0..MaxDelete
      BY <2>1, <2>3, LibraryNumbers
    <2> HIDE DEF n
    <2>6. clean' \in CleanupPass
      BY <2>1, <2>3, <2>4, <2>5 DEF CleanupPass
    <2> QED
      BY <2>1, <2>2, <2>6 DEF LibraryIInv, LibraryTypeOK
  <1>3. CASE CleanupEnd
    <2>1. NoCleanup \in CleanupPass
      BY LibraryNumbers DEF NoCleanup, CleanupPass
    <2> QED
      BY <1>3, <2>1 DEF CleanupEnd, LibraryIInv, LibraryTypeOK
  <1> QED
    BY <1>1, <1>2, <1>3 DEF StorageManager

(* The file system fails a pass of either daemon.                          *)
LEMMA ErrorStep == ASSUME LibraryIInv, FileSystemErrors PROVE LibraryIInv'
  <1>1. CASE TickDeleteFails
    <2>1. /\ loop.pc = "deleting" /\ loop.todo # <<>> /\ loop' = [loop EXCEPT !.todo = Tail(loop.todo)]
          /\ UNCHANGED <<disk, mtime, now, mark, low, risk, clean, paired, rotated, aborted>>
      BY <1>1 DEF TickDeleteFails
    <2>2. loop \in TickPass /\ Tail(loop.todo) \in Seq(StoredClip)
      BY <2>1, HeadTailProperties DEF LibraryIInv, LibraryTypeOK, TickPass
    <2>3. loop' \in TickPass /\ loop'.pc = loop.pc /\ loop'.deleted = loop.deleted
      BY <2>1, <2>2 DEF TickPass
    <2> QED
      BY <2>1, <2>3 DEF LibraryIInv, LibraryTypeOK
  <1>2. CASE TickAborts
    <2>1. NoTick \in TickPass
      BY LibraryNumbers DEF NoTick, TickPass
    <2>2. loop' = NoTick /\ UNCHANGED <<disk, mtime, now, mark, low, risk, clean, paired, rotated>>
      BY <1>2 DEF TickAborts
    <2>3. aborted' \in BOOLEAN /\ (rotated' => aborted')
      BY <1>2 DEF TickAborts
    <2> QED
      BY <2>1, <2>2, <2>3 DEF LibraryIInv, LibraryTypeOK
  <1>3. CASE CleanupFails
    <2>1. /\ clean.todo # <<>> /\ clean' = [clean EXCEPT !.todo = Tail(clean.todo)]
          /\ UNCHANGED <<disk, mtime, now, mark, low, risk, loop, paired, rotated, aborted>>
      BY <1>3 DEF CleanupFails, CleanupDone
    <2>2. clean \in CleanupPass /\ Tail(clean.todo) \in Seq(StoredClip)
      BY <2>1, HeadTailProperties DEF LibraryIInv, LibraryTypeOK, CleanupPass
    <2>3. clean' \in CleanupPass
      BY <2>1, <2>2 DEF CleanupPass
    <2> QED
      BY <2>1, <2>3 DEF LibraryIInv, LibraryTypeOK
  <1> QED
    BY <1>1, <1>2, <1>3 DEF FileSystemErrors

LEMMA LibraryStep == ASSUME LibraryIInv, LibraryNext PROVE LibraryIInv'
  <1>1. ASSUME NEW c \in disk, Stamp(c) PROVE LibraryIInv'
    BY <1>1, StampStep
  <1>2. ASSUME NEW d \in ListDates, DeleteDate(d) PROVE LibraryIInv'
    BY <1>2, UserDeletes DEF DeleteDate
  <1>9. ASSUME NEW d \in ListDates, NEW c \in ListClips(d), DeleteClipNamed(d, c) PROVE LibraryIInv'
    BY <1>9, UserDeletes DEF DeleteClipNamed
  <1>3. CASE DeleteRecordingsOfCamera \/ DeleteAllRecordings
    BY <1>3, UserDeletes DEF DeleteRecordingsOfCamera, DeleteAllRecordings
  <1>4. CASE RemoveCamera
    BY <1>4 DEF RemoveCamera, LibraryIInv, LibraryTypeOK
  <1>5. ASSUME NEW m \in Marks, SetWatermarks(m) PROVE LibraryIInv'
    BY <1>5 DEF SetWatermarks, LibraryIInv, LibraryTypeOK
  <1>6. CASE LoopRecorder
    BY <1>6, TickLowStep, TickDeleteStep, TickOtherStep DEF LoopRecorder
  <1>7. CASE StorageManager
    BY <1>7, CleanupStep
  <1>8. CASE Record
    BY <1>8, RecordStep
  <1> QED
    BY <1>1, <1>2, <1>3, <1>4, <1>5, <1>6, <1>7, <1>8, <1>9, ErrorStep DEF LibraryNext

(* In every reachable state, for every capacity, watermark, reserve and    *)
(* stock of clips: what the loop recorder has deleted is announced when no *)
(* pass is running, whoever deletes from under it and whichever unlink     *)
(* fails, unless the free space could not be read in the middle of a pass  *)
(* (tick, RETENTION_RISK).                                                 *)
THEOREM LibraryIsRight == LibrarySpec => []LibraryInv
  <1>1. LibraryIInv /\ [LibraryNext]_libraryVars => LibraryIInv'
    BY LibraryStep, LibraryStutters
  <1>2. LibraryIInv => LibraryInv
    BY DEF LibraryIInv, LibraryInv, RotationAnnounced
  <1> QED
    BY <1>1, <1>2, LibraryStarts, PTL DEF LibrarySpec
=============================================================================
