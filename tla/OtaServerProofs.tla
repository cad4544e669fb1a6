--------------------------- MODULE OtaServerProofs ---------------------------
(***************************************************************************)
(* Proofs about OtaServer, for any versions, bundles, request threads,     *)
(* push workers and bounds: that requests which do not overlap keep the    *)
(* server's install and a camera's push apart, and that the server never   *)
(* boots an older release.                                                 *)
(***************************************************************************)
EXTENDS OtaServer, FiniteSetTheorems, TLAPS

-----------------------------------------------------------------------------
(* The types, a part for each group of variables, with what the program    *)
(* counter of a request says about its other fields.                       *)

ServerStates == {None, "idle", "staged", "installing", "installed", "error", "rebooting"}
RequestLabels ==
  {"none", "stage", "import", "verify", "install", "swupdate", "ended", "camera", "custom", "push"}
RequestScopes == {None, "common", "custom", "done", "failed"}
CameraStates == CameraBusyStates \cup {None, "idle", "staged", "installed", "error"}
PushLabels == {"none", "preflight", "upload", "poll", "succeeded", "failed"}
Scopes == {None, "common", "custom"}

ReqRecords == [pc : RequestLabels, b : Bundles \cup {None}, v : Versions \cup {0}, scope : RequestScopes]
PushRecords == [pc : PushLabels, v : Versions \cup {0}, scope : Scopes, seen : BOOLEAN]

(* a directory has one file of a name *)
NamesDiffer(s) == \A i, j \in DOMAIN s : s[i].name = s[j].name => i = j

ServerTypes ==
  /\ sst \in ServerStates
  /\ staging \in Seq(Bundles) /\ NamesDiffer(staging)
  /\ current \in Versions /\ standby \in Versions
  /\ ticker \in [Reqs -> {"off", "wait", "due"}]

CarriesRight(q) ==
  /\ q.pc \in {"stage", "import", "verify", "install", "swupdate"} => q.b \in Bundles
  /\ q.pc \in {"camera", "custom", "push"} => q.v \in Versions
  /\ q.pc = "push" => q.scope \in Scopes

ReqTypes ==
  /\ req \in [Reqs -> ReqRecords]
  /\ \A r \in Reqs : CarriesRight(req[r])

CameraTypes ==
  /\ cst \in [state : CameraStates, target : Versions \cup {0}, scope : Scopes]
  /\ library \subseteq Versions /\ custom \in Versions \cup {None} /\ known \in Versions

PushTypes == push \in [Workers -> PushRecords]

FirmwareTypes == FirmwareTypeOK

Types == ServerTypes /\ ReqTypes /\ CameraTypes /\ PushTypes /\ FirmwareTypes

-----------------------------------------------------------------------------
(* What holds while requests wait for each other (InOrder), and while no   *)
(* refused push has reset the status (~released).                          *)

(* there is one request at a time *)
OneRequest == InOrder => \A r, o \in Reqs : ~At(r, "none") /\ ~At(o, "none") => r = o

(* a push under way shows in the camera's status *)
PushesShow ==
  InOrder /\ ~released =>
    \A w \in Workers : push[w].pc \in {"preflight", "upload", "poll"} => CameraBusy

(* beside a worker, a request does no more than fill the staging directory *)
PushAlone ==
  InOrder /\ ~released =>
    \A w \in Workers : push[w].pc # "none" =>
      /\ \A r \in Reqs : req[r].pc \in {"none", "stage", "import", "verify"}
      /\ \A x \in Workers : push[x].pc # "none" => x = w

(* the release to boot, and one on its way to be it, is no older one; the
   bundle that was picked is still what its path holds *)
NothingOlder ==
  InOrder =>
    /\ ~Blocked(current, standby)
    /\ \A r \in Reqs : req[r].pc \in {"install", "swupdate"} => ~Blocked(current, req[r].b.v)
    /\ \A r \in Reqs : At(r, "install") =>
         \A i \in DOMAIN staging : staging[i].name = req[r].b.name => staging[i] = req[r].b

ServerInv == Types /\ OneRequest /\ PushesShow /\ PushAlone /\ NothingOlder

-----------------------------------------------------------------------------
(* Operators on the staging directory.                                     *)

(* the newest file goes *)
LEMMA FrontOfStaging ==
    ASSUME NEW s \in Seq(Bundles), s # <<>>, NamesDiffer(s)
    PROVE  Front(s) \in Seq(Bundles) /\ NamesDiffer(Front(s)) /\ Last(s) \in Bundles
  BY DEF Front, Last, NamesDiffer

(* the file of that name goes *)
LEMMA WithoutStaging ==
    ASSUME NEW n, staging \in Seq(Bundles), NamesDiffer(staging)
    PROVE  /\ Without(n) \in Seq(Bundles) /\ NamesDiffer(Without(n))
           /\ \A i \in DOMAIN Without(n) : Without(n)[i].name # n
  <1>1. CASE AtPath(n) = {}
    BY <1>1 DEF Without, AtPath
  <1>2. CASE AtPath(n) # {}
    <2> DEFINE k == CHOOSE i \in AtPath(n) : TRUE
    <2>1. k \in 1..Len(staging) /\ staging[k].name = n
      BY <1>2 DEF AtPath
    <2>2. Without(n) = SubSeq(staging, 1, k - 1) \o SubSeq(staging, k + 1, Len(staging))
      BY <1>2 DEF Without, RemoveAt
    <2> HIDE DEF k
    <2> DEFINE front == SubSeq(staging, 1, k - 1)
               back == SubSeq(staging, k + 1, Len(staging))
    <2>3. /\ front \in Seq(Bundles) /\ Len(front) = k - 1
          /\ \A i \in 1..(k - 1) : front[i] = staging[i]
      BY <2>1
    <2>4. /\ back \in Seq(Bundles) /\ Len(back) = Len(staging) - k
          /\ \A i \in 1..(Len(staging) - k) : back[i] = staging[i + k]
      BY <2>1
    <2>5. Without(n) = front \o back
      BY <2>2
    <2> HIDE DEF front, back
    <2>6. Without(n) \in Seq(Bundles) /\ Len(Without(n)) = Len(staging) - 1
      <3>1. front \o back \in Seq(Bundles) /\ Len(front \o back) = Len(front) + Len(back)
        BY <2>3, <2>4
      <3>2. Len(staging) \in Nat /\ k \in Int
        BY <2>1
      <3> QED
        BY <2>3, <2>4, <2>5, <3>1, <3>2
    <2>7. ASSUME NEW i \in DOMAIN Without(n)
          PROVE  /\ i \in 1..(Len(staging) - 1)
                 /\ i < k => Without(n)[i] = staging[i]
                 /\ i >= k => Without(n)[i] = staging[i + 1]
      <3>1. i \in 1..(Len(staging) - 1)
        BY <2>6
      <3>2. ASSUME i < k PROVE Without(n)[i] = staging[i]
        <4>1. i \in 1..Len(front)
          BY <2>1, <2>3, <3>1, <3>2
        <4>2. Without(n)[i] = front[i]
          BY <2>3, <2>4, <2>5, <4>1
        <4> QED
          BY <2>1, <2>3, <3>1, <3>2, <4>1, <4>2
      <3>3. ASSUME i >= k PROVE Without(n)[i] = staging[i + 1]
        <4>1. i - Len(front) \in 1..Len(back) /\ i \in Len(front) + 1 .. Len(front) + Len(back)
          BY <2>1, <2>3, <2>4, <3>1, <3>3
        <4>2. Without(n)[i] = back[i - Len(front)]
          BY <2>3, <2>4, <2>5, <4>1
        <4>3. (i - Len(front)) + k = i + 1
          BY <2>1, <2>3, <3>1
        <4> QED
          BY <2>1, <2>3, <2>4, <3>1, <3>3, <4>1, <4>2, <4>3
      <3>4. i < k => Without(n)[i] = staging[i]
        BY <3>2
      <3>5. i >= k => Without(n)[i] = staging[i + 1]
        BY <3>3
      <3> QED
        BY <3>1, <3>4, <3>5
    <2>8. \A i \in DOMAIN Without(n) : Without(n)[i].name # n
      <3> SUFFICES ASSUME NEW i \in DOMAIN Without(n) PROVE Without(n)[i].name # n
        OBVIOUS
      <3>1. i \in Int /\ k \in Int
        BY <2>1, <2>7
      <3>2. CASE i < k
        BY <2>1, <2>7, <3>1, <3>2 DEF NamesDiffer
      <3>3. CASE i >= k
        BY <2>1, <2>7, <3>1, <3>3 DEF NamesDiffer
      <3> QED
        BY <3>1, <3>2, <3>3
    <2>9. NamesDiffer(Without(n))
      <3> DEFINE of(i) == IF i < k THEN i ELSE i + 1
      <3> SUFFICES ASSUME NEW i \in DOMAIN Without(n), NEW j \in DOMAIN Without(n),
                          Without(n)[i].name = Without(n)[j].name
                   PROVE  i = j
        BY DEF NamesDiffer
      <3>1. i \in Int /\ j \in Int /\ k \in Int
        BY <2>1, <2>7
      <3>2. of(i) \in DOMAIN staging /\ Without(n)[i] = staging[of(i)]
        BY <2>1, <2>7, <3>1
      <3>3. of(j) \in DOMAIN staging /\ Without(n)[j] = staging[of(j)]
        BY <2>1, <2>7, <3>1
      <3>4. of(i) = of(j)
        BY <3>2, <3>3 DEF NamesDiffer
      <3> QED
        BY <3>1, <3>4
    <2> QED
      BY <2>6, <2>8, <2>9
  <1> QED
    BY <1>1, <1>2

LEMMA AppendStaging ==
    ASSUME NEW s \in Seq(Bundles), NEW b \in Bundles, NamesDiffer(s),
           \A i \in DOMAIN s : s[i].name # b.name
    PROVE  Append(s, b) \in Seq(Bundles) /\ NamesDiffer(Append(s, b))
  BY DEF NamesDiffer

(* the policy refuses nothing that is the running release *)
LEMMA SameIsFine == \A v : ~Blocked(v, v)
  BY DEF Blocked, Classify

-----------------------------------------------------------------------------
(* Types: what a step leaves alone keeps its types.                        *)

LEMMA ServerFrame == ServerTypes /\ UNCHANGED serverVars => ServerTypes'
  BY DEF ServerTypes, serverVars

LEMMA CameraFrame == CameraTypes /\ UNCHANGED <<cst, library, custom, known>> => CameraTypes'
  BY DEF CameraTypes

LEMMA FirmwareFrame == FirmwareTypes /\ UNCHANGED firmwareVars => FirmwareTypes'
  BY DEF FirmwareTypes, FirmwareTypeOK, firmwareVars

LEMMA ReqFrame == ReqTypes /\ UNCHANGED req => ReqTypes'
  BY DEF ReqTypes

LEMMA PushFrame == PushTypes /\ UNCHANGED push => PushTypes'
  BY DEF PushTypes

(* a request moves on: its record is replaced *)
LEMMA ReqMoves ==
    ASSUME ReqTypes, NEW r \in Reqs, NEW q \in ReqRecords, CarriesRight(q),
           req' = [req EXCEPT ![r] = q]
    PROVE  ReqTypes'
  <1>1. req' \in [Reqs -> ReqRecords]
    BY DEF ReqTypes
  <1>2. \A o \in Reqs : req'[o] = IF o = r THEN q ELSE req[o]
    BY DEF ReqTypes
  <1> QED
    BY <1>1, <1>2 DEF ReqTypes

LEMMA ReqGoes ==
    ASSUME ReqTypes, NEW r \in Reqs, NEW pc \in {"stage", "import", "verify", "install", "swupdate"},
           NEW b \in Bundles, Goto(r, pc, b, None)
    PROVE  ReqTypes'
  <1> DEFINE q == [pc |-> pc, b |-> b, v |-> 0, scope |-> None]
  <1>1. q \in ReqRecords /\ CarriesRight(q)
    BY DEF ReqRecords, RequestLabels, RequestScopes, CarriesRight
  <1>2. req' = [req EXCEPT ![r] = q]
    BY DEF Goto
  <1> QED
    BY <1>1, <1>2, ReqMoves

LEMMA ReqCarries ==
    ASSUME ReqTypes, NEW r \in Reqs, NEW pc \in {"camera", "custom", "push"},
           NEW v \in Versions, NEW scope \in Scopes, Carry(r, pc, v, scope)
    PROVE  ReqTypes'
  <1> DEFINE q == [pc |-> pc, b |-> None, v |-> v, scope |-> scope]
  <1>1. q \in ReqRecords /\ CarriesRight(q)
    BY DEF ReqRecords, RequestLabels, RequestScopes, CarriesRight, Scopes
  <1>2. req' = [req EXCEPT ![r] = q]
    BY DEF Carry
  <1> QED
    BY <1>1, <1>2, ReqMoves

LEMMA ReqDone ==
    ASSUME ReqTypes, NEW r \in Reqs, Done(r)
    PROVE  ReqTypes'
  <1>1. Idle \in ReqRecords /\ CarriesRight(Idle)
    BY DEF Idle, ReqRecords, RequestLabels, RequestScopes, CarriesRight
  <1>2. req' = [req EXCEPT ![r] = Idle]
    BY DEF Done
  <1> QED
    BY <1>1, <1>2, ReqMoves

LEMMA CameraSet ==
    ASSUME CameraTypes, NEW state \in CameraStates, NEW target \in Versions \cup {0}, NEW scope \in Scopes,
           SetCamera(state, target, scope), library' \subseteq Versions,
           custom' \in Versions \cup {None}, known' = known
    PROVE  CameraTypes'
  BY DEF CameraTypes, SetCamera

(* a status field is written *)
LEMMA CameraField ==
    ASSUME CameraTypes, NEW state \in CameraStates,
           cst' = [cst EXCEPT !.state = state], library' = library,
           custom' \in Versions \cup {None}, known' = known
    PROVE  CameraTypes'
  BY DEF CameraTypes

LEMMA PushMoves ==
    ASSUME PushTypes, NEW w \in Workers, NEW pc \in PushLabels, PushTo(w, pc)
    PROVE  PushTypes'
  <1>1. [push[w] EXCEPT !.pc = pc] \in PushRecords
    BY DEF PushTypes, PushRecords
  <1>2. push' = [push EXCEPT ![w] = [push[w] EXCEPT !.pc = pc]]
    BY DEF PushTo
  <1> QED
    BY <1>1, <1>2 DEF PushTypes

LEMMA PushBegins ==
    ASSUME PushTypes, NEW v \in Versions, NEW scope \in Scopes, StartPush(v, scope)
    PROVE  PushTypes'
  <1> DEFINE p == [pc |-> "preflight", v |-> v, scope |-> scope, seen |-> FALSE]
  <1>1. p \in PushRecords
    BY DEF PushRecords, PushLabels
  <1>2. PICK w \in Workers : push' = [push EXCEPT ![w] = p]
    BY DEF StartPush
  <1> QED
    BY <1>1, <1>2 DEF PushTypes

-----------------------------------------------------------------------------
(* Types, an action at a time.                                             *)

LEMMA InitTypes == Init => Types
  <1> SUFFICES ASSUME Init PROVE Types
    OBVIOUS
  <1>1. ServerTypes
    <2>1. \A b \in Bundles : <<b>> \in Seq(Bundles) /\ NamesDiffer(<<b>>)
      BY DEF NamesDiffer
    <2>2. <<>> \in Seq(Bundles) /\ NamesDiffer(<<>>)
      BY DEF NamesDiffer
    <2>3. staging \in Seq(Bundles) /\ NamesDiffer(staging)
      BY <2>1, <2>2, UpdateAssumption DEF Init
    <2> QED
      BY <2>3 DEF Init, ServerTypes, ServerStates
  <1>2. ReqTypes
    BY DEF Init, ReqTypes, Idle, ReqRecords, RequestLabels, RequestScopes, CarriesRight
  <1>3. CameraTypes
    <2>1. cst \in [state : CameraStates, target : Versions \cup {0}, scope : Scopes]
      BY DEF Init, NoEntry, CameraStates, Scopes
    <2> QED
      BY <2>1, UpdateAssumption DEF Init, FirmwareInit, CameraTypes
  <1>4. PushTypes
    BY DEF Init, PushTypes, NoPush, PushRecords, PushLabels, Scopes
  <1>5. FirmwareTypes
    BY VersionsAssumption DEF Init, FirmwareInit, FirmwareTypes, FirmwareTypeOK
  <1> QED
    BY <1>1, <1>2, <1>3, <1>4, <1>5 DEF Types

LEMMA LibraryPicks ==
    ASSUME CameraTypes
    PROVE  BestCameraBundle \in Versions \cup {None} /\ LatestCameraBundle \in Versions \cup {None}
  <1>1. ASSUME NEW S \in SUBSET Versions, S # {}
        PROVE  (CHOOSE v \in S : \A o \in S : o <= v) \in S
    BY <1>1, UpdateAssumption
  <1>2. {v \in library : Offerable(known, v)} \in SUBSET Versions /\ library \in SUBSET Versions
    BY DEF CameraTypes
  <1>3. BestCameraBundle \in Versions \cup {None}
    BY <1>1, <1>2 DEF BestCameraBundle
  <1>4. LatestCameraBundle \in Versions \cup {None}
    BY <1>1, <1>2 DEF LatestCameraBundle
  <1> QED
    BY <1>3, <1>4

LEMMA RequestTypes ==
    ASSUME Types, NEW r \in Reqs, Request(r)
    PROVE  Types'
  <1> USE DEF Types
  <1>1. ASSUME NEW b \in Bundles, UploadServerImage(r, b) PROVE Types'
    BY <1>1, ServerFrame, CameraFrame, PushFrame, FirmwareFrame, ReqGoes DEF UploadServerImage, cameraVars
  <1>2. ASSUME NEW b \in Bundles, ImportFromUsb(r, b) PROVE Types'
    BY <1>2, ServerFrame, CameraFrame, PushFrame, FirmwareFrame, ReqGoes DEF ImportFromUsb, cameraVars
  <1>3. CASE InstallServerImage(r)
    <2>1. CameraTypes' /\ PushTypes' /\ FirmwareTypes'
      BY <1>3, CameraFrame, PushFrame, FirmwareFrame DEF InstallServerImage, cameraVars
    <2>2. /\ staging \in Seq(Bundles) /\ staging # <<>> /\ NamesDiffer(staging)
          /\ UNCHANGED <<current, standby, ticker, rebooting>>
      BY <1>3 DEF InstallServerImage, ServerTypes
    <2>3. Front(staging) \in Seq(Bundles) /\ NamesDiffer(Front(staging)) /\ Last(staging) \in Bundles
      BY <2>2, FrontOfStaging
    <2>4. CASE ServerPolicy(current, Last(staging).v) = "downgrade"
      <3>1. staging' = Front(staging) /\ sst' = "idle" /\ UNCHANGED req
        BY <1>3, <2>4 DEF InstallServerImage
      <3> QED
        BY <2>1, <2>2, <2>3, <3>1, ReqFrame DEF ServerTypes, ServerStates
    <2>5. CASE ServerPolicy(current, Last(staging).v) # "downgrade"
      <3>1. Goto(r, "install", Last(staging), None) /\ UNCHANGED <<staging, sst>>
        BY <1>3, <2>5 DEF InstallServerImage
      <3>2. ReqTypes'
        BY <2>3, <3>1, ReqGoes
      <3> QED
        BY <2>1, <2>2, <3>1, <3>2, ServerFrame DEF serverVars
    <2> QED
      BY <2>4, <2>5
  <1>4. ASSUME NEW v \in Versions, UploadCameraImage(r, v) PROVE Types'
    <2>1. None \in Scopes
      BY DEF Scopes
    <2> QED
      BY <1>4, <2>1, ServerFrame, CameraFrame, PushFrame, FirmwareFrame, ReqCarries DEF UploadCameraImage, cameraVars
  <1>5. ASSUME NEW v \in Versions, UploadCameraLibrary(r, v) PROVE Types'
    <2>1. CameraTypes'
      BY <1>5 DEF UploadCameraLibrary, CameraTypes
    <2> QED
      BY <1>5, <2>1, ServerFrame, PushFrame, FirmwareFrame, ReqFrame DEF UploadCameraLibrary
  <1>6. ASSUME NEW v \in Versions, UploadCameraCustom(r, v) PROVE Types'
    <2>1. None \in Scopes
      BY DEF Scopes
    <2>2. ReqTypes'
      BY <1>6, <2>1, ReqFrame, ReqCarries DEF UploadCameraCustom
    <2>3. CameraTypes'
      BY <1>6 DEF UploadCameraCustom, CameraTypes
    <2> QED
      BY <1>6, <2>2, <2>3, ServerFrame, PushFrame, FirmwareFrame DEF UploadCameraCustom
  <1>7. CASE DiscardCameraCustom(r)
    <2>1. "idle" \in CameraStates /\ None \in Scopes
      BY DEF CameraStates, Scopes
    <2>2. SetCamera("idle", 0, None) /\ custom' = None /\ library' \subseteq Versions /\ known' = known
      BY <1>7 DEF DiscardCameraCustom, CameraTypes
    <2>3. CameraTypes'
      BY <2>1, <2>2, CameraSet
    <2> QED
      BY <1>7, <2>3, ServerFrame, PushFrame, FirmwareFrame, ReqFrame DEF DiscardCameraCustom
  <1>8. CASE PushAllEligible(r)
    <2> DEFINE v == LatestCameraBundle
    <2>1. v \in Versions
      BY <1>8, LibraryPicks DEF PushAllEligible
    <2>2. /\ SetCamera("uploading", v, "common") /\ StartPush(v, "common")
          /\ UNCHANGED <<serverVars, library, custom, known, req, firmwareVars>>
      BY <1>8 DEF PushAllEligible
    <2> HIDE DEF v
    <2>3. "uploading" \in CameraStates /\ "common" \in Scopes
      BY DEF CameraStates, CameraBusyStates, Scopes
    <2>4. library' \subseteq Versions /\ custom' \in Versions \cup {None} /\ known' = known
      BY <2>2 DEF CameraTypes
    <2>5. CameraTypes'
      BY <2>1, <2>2, <2>3, <2>4, CameraSet
    <2>6. PushTypes'
      BY <2>1, <2>2, <2>3, PushBegins
    <2> QED
      BY <2>2, <2>5, <2>6, ServerFrame, ReqFrame, FirmwareFrame
  <1>9. CASE GetStatus(r)
    <2>1. ReqTypes' /\ PushTypes' /\ FirmwareTypes'
      BY <1>9, ReqFrame, PushFrame, FirmwareFrame DEF GetStatus
    <2>2. CameraTypes'
      <3>1. \/ cst' = [state |-> "idle", target |-> 0, scope |-> None]
            \/ cst' = cst
        BY <1>9 DEF GetStatus
      <3>2. custom' \in {None, custom} /\ UNCHANGED <<library, known>>
        BY <1>9 DEF GetStatus
      <3>3. cst' \in [state : CameraStates, target : Versions \cup {0}, scope : Scopes]
        BY <3>1 DEF CameraTypes, CameraStates, Scopes
      <3> QED
        BY <3>2, <3>3 DEF CameraTypes
    <2>3. \/ staging' = staging
          \/ staging # <<>> /\ staging' = Front(staging)
      BY <1>9 DEF GetStatus
    <2>4. sst' \in {sst, "idle"} /\ UNCHANGED <<current, standby, ticker>>
      BY <1>9 DEF GetStatus
    <2>5. staging \in Seq(Bundles) /\ NamesDiffer(staging)
      BY DEF ServerTypes
    <2>6. staging' \in Seq(Bundles) /\ NamesDiffer(staging')
      BY <2>3, <2>5, FrontOfStaging
    <2>7. ServerTypes'
      BY <2>4, <2>6 DEF ServerTypes, ServerStates
    <2> QED
      BY <2>1, <2>2, <2>7
  <1>10. ASSUME NEW scope \in {"common", "custom"}, PushCamera(r, scope) PROVE Types'
    <2> DEFINE v == IF scope = "custom" THEN custom ELSE BestCameraBundle
    <2>1. v \in Versions
      BY <1>10, LibraryPicks DEF PushCamera, CameraTypes
    <2>2. UNCHANGED <<serverVars, library, known, push, firmwareVars>>
      BY <1>10 DEF PushCamera
    <2>3. \/ cst' = [cst EXCEPT !.state = "idle"] /\ custom' = None /\ UNCHANGED req
          \/ Carry(r, "push", v, scope) /\ UNCHANGED <<cst, custom>>
      BY <1>10 DEF PushCamera
    <2> HIDE DEF v
    <2>4. scope \in Scopes /\ "idle" \in CameraStates
      BY DEF Scopes, CameraStates
    <2>5. CameraTypes' /\ ReqTypes'
      <3>1. CASE cst' = [cst EXCEPT !.state = "idle"] /\ custom' = None /\ UNCHANGED req
        BY <2>2, <2>4, <3>1, CameraField, ReqFrame
      <3>2. CASE Carry(r, "push", v, scope) /\ UNCHANGED <<cst, custom>>
        BY <2>1, <2>2, <2>4, <3>2, CameraFrame, ReqCarries
      <3> QED
        BY <2>3, <3>1, <3>2
    <2> QED
      BY <2>2, <2>5, ServerFrame, PushFrame, FirmwareFrame
  <1> QED
    BY <1>1, <1>2, <1>3, <1>4, <1>5, <1>6, <1>7, <1>8, <1>9, <1>10 DEF Request

LEMMA RequestStepTypes ==
    ASSUME Types, NEW r \in Reqs, RequestStep(r)
    PROVE  Types'
  <1> USE DEF Types
  <1>0. req[r] \in ReqRecords /\ CarriesRight(req[r])
    BY DEF ReqTypes
  <1>1. CASE StageBundle(r)
    <2> DEFINE b == req[r].b
    <2>1. b \in Bundles /\ staging \in Seq(Bundles) /\ NamesDiffer(staging)
      BY <1>0, <1>1 DEF StageBundle, CarriesRight, ServerTypes
    <2>2. UNCHANGED <<current, standby, ticker, rebooting, cameraVars, firmwareVars>>
      BY <1>1 DEF StageBundle
    <2>3. \/ Done(r) /\ UNCHANGED <<sst, staging>>
          \/ staging' = Append(Without(b.name), b) /\ sst' = "staged" /\ Goto(r, "verify", b, None)
      BY <1>1 DEF StageBundle
    <2> HIDE DEF b
    <2>4. Append(Without(b.name), b) \in Seq(Bundles) /\ NamesDiffer(Append(Without(b.name), b))
      BY <2>1, WithoutStaging, AppendStaging
    <2>5. ReqTypes' /\ ServerTypes'
      BY <2>1, <2>2, <2>3, <2>4, ReqDone, ReqGoes DEF ServerTypes, ServerStates
    <2> QED
      BY <2>2, <2>5, CameraFrame, PushFrame, FirmwareFrame DEF cameraVars
  <1>2. CASE VerifyBundle(r)
    <2>1. UNCHANGED <<sst, current, standby, ticker, rebooting, cameraVars, firmwareVars>> /\ Done(r)
      BY <1>2 DEF VerifyBundle
    <2>2. staging' = staging \/ staging' = <<>>
      BY <1>2 DEF VerifyBundle
    <2>3. ServerTypes'
      <3>1. <<>> \in Seq(Bundles) /\ NamesDiffer(<<>>)
        BY DEF NamesDiffer
      <3>2. staging' \in Seq(Bundles) /\ NamesDiffer(staging')
        BY <2>2, <3>1 DEF ServerTypes
      <3> QED
        BY <2>1, <3>2 DEF ServerTypes
    <2> QED
      BY <2>1, <2>3, ReqDone, CameraFrame, PushFrame, FirmwareFrame DEF cameraVars
  <1>3. CASE InstallBundle(r)
    <2>1. UNCHANGED <<staging, current, standby, rebooting, cameraVars, firmwareVars>>
      BY <1>3 DEF InstallBundle
    <2>2. CASE Done(r) /\ UNCHANGED <<sst, ticker>>
      BY <2>1, <2>2, ServerFrame, ReqDone, CameraFrame, PushFrame, FirmwareFrame DEF cameraVars, serverVars
    <2>3. ASSUME NEW i \in AtPath(req[r].b.name), Goto(r, "swupdate", staging[i], None),
                 sst' = "installing", ticker' = [ticker EXCEPT ![r] = "wait"]
          PROVE  Types'
      <3>1. staging[i] \in Bundles
        BY DEF AtPath, ServerTypes
      <3>2. ReqTypes'
        BY <2>3, <3>1, ReqGoes
      <3>3. ServerTypes'
        BY <2>1, <2>3 DEF ServerTypes, ServerStates
      <3> QED
        BY <2>1, <3>2, <3>3, CameraFrame, PushFrame, FirmwareFrame DEF cameraVars
    <2> QED
      BY <1>3, <2>2, <2>3 DEF InstallBundle
  <1>4. CASE SwupdateReturns(r)
    <2>1. req[r].b \in Bundles
      BY <1>0, <1>4 DEF SwupdateReturns, At, CarriesRight
    <2>2. req[r].b.v \in Versions
      BY <2>1, UpdateAssumption
    <2>3. UNCHANGED <<staging, current, ticker, rebooting, cameraVars, firmwareVars>>
      BY <1>4 DEF SwupdateReturns
    <2>4. sst' \in {"installed", "error"} /\ standby' \in {standby, req[r].b.v}
      BY <1>4 DEF SwupdateReturns
    <2>5. \E scope \in {"done", "failed"} : Goto(r, "ended", None, scope)
      BY <1>4 DEF SwupdateReturns
    <2>6. ReqTypes'
      <3>1. PICK scope \in {"done", "failed"} :
               req' = [req EXCEPT ![r] = [pc |-> "ended", b |-> None, v |-> 0, scope |-> scope]]
        BY <2>5 DEF Goto
      <3> DEFINE q == [pc |-> "ended", b |-> None, v |-> 0, scope |-> scope]
      <3>2. q \in ReqRecords /\ CarriesRight(q)
        BY DEF ReqRecords, RequestLabels, RequestScopes, CarriesRight
      <3>3. req' = [req EXCEPT ![r] = q]
        BY <3>1
      <3> QED
        BY <3>2, <3>3, ReqMoves
    <2>7. ServerTypes'
      BY <2>2, <2>3, <2>4 DEF ServerTypes, ServerStates
    <2> QED
      BY <2>3, <2>6, <2>7, CameraFrame, PushFrame, FirmwareFrame DEF cameraVars
  <1>5. CASE InstallReturns(r)
    <2>1. UNCHANGED <<current, standby, cameraVars, firmwareVars>> /\ Done(r)
      BY <1>5 DEF InstallReturns
    <2>2. /\ sst' \in {sst, "rebooting"} /\ staging' \in {staging, <<>>}
          /\ ticker' = [ticker EXCEPT ![r] = "off"]
      BY <1>5 DEF InstallReturns
    <2>3. ServerTypes'
      <3>1. <<>> \in Seq(Bundles) /\ NamesDiffer(<<>>)
        BY DEF NamesDiffer
      <3>2. staging' \in Seq(Bundles) /\ NamesDiffer(staging')
        BY <2>2, <3>1 DEF ServerTypes
      <3> QED
        BY <2>1, <2>2, <3>2 DEF ServerTypes, ServerStates
    <2> QED
      BY <2>1, <2>3, ReqDone, CameraFrame, PushFrame, FirmwareFrame DEF cameraVars
  <1>6. CASE CameraImageStored(r)
    <2>1. req[r].v \in Versions
      BY <1>0, <1>6 DEF CameraImageStored, At, CarriesRight
    <2>2. UNCHANGED <<serverVars, custom, known, push, firmwareVars>> /\ Done(r)
      BY <1>6 DEF CameraImageStored
    <2>3. CameraTypes'
      BY <1>6, <2>1 DEF CameraImageStored, CameraTypes, CameraStates
    <2> QED
      BY <2>2, <2>3, ServerFrame, ReqDone, PushFrame, FirmwareFrame
  <1>7. CASE CameraCustomStored(r)
    <2>1. req[r].v \in Versions
      BY <1>0, <1>7 DEF CameraCustomStored, At, CarriesRight
    <2>2. UNCHANGED <<serverVars, library, known, push, firmwareVars>> /\ Done(r)
      BY <1>7 DEF CameraCustomStored
    <2>3. "staged" \in CameraStates /\ "custom" \in Scopes
      BY DEF CameraStates, Scopes
    <2>4. SetCamera("staged", req[r].v, "custom") /\ custom' = req[r].v /\ library' \subseteq Versions
      BY <1>7, <2>2 DEF CameraCustomStored, CameraTypes
    <2>5. CameraTypes'
      BY <2>1, <2>2, <2>3, <2>4, CameraSet
    <2> QED
      BY <2>2, <2>5, ServerFrame, ReqDone, PushFrame, FirmwareFrame
  <1>8. CASE PushStarts(r)
    <2>1. req[r].v \in Versions /\ req[r].scope \in Scopes
      BY <1>0, <1>8 DEF PushStarts, At, CarriesRight
    <2>2. UNCHANGED <<serverVars, library, custom, known, firmwareVars>> /\ Done(r)
      BY <1>8 DEF PushStarts
    <2>3. SetCamera("uploading", req[r].v, req[r].scope) /\ StartPush(req[r].v, req[r].scope)
      BY <1>8 DEF PushStarts
    <2>4. "uploading" \in CameraStates /\ library' \subseteq Versions /\ custom' \in Versions \cup {None}
      BY <2>2 DEF CameraStates, CameraBusyStates, CameraTypes
    <2>5. CameraTypes' /\ PushTypes'
      BY <2>1, <2>2, <2>3, <2>4, CameraSet, PushBegins
    <2> QED
      BY <2>2, <2>5, ServerFrame, ReqDone, FirmwareFrame
  <1> QED
    BY <1>1, <1>2, <1>3, <1>4, <1>5, <1>6, <1>7, <1>8 DEF RequestStep

LEMMA TickTypes ==
    ASSUME Types, NEW r \in Reqs, Tick(r)
    PROVE  Types'
  <1>1. UNCHANGED <<staging, current, standby, rebooting, req, cameraVars, firmwareVars>>
    BY DEF Tick, TickerWakes, TickerWrites
  <1>2. ServerTypes'
    BY <1>1 DEF Types, Tick, TickerWakes, TickerWrites, ServerTypes, ServerStates
  <1> QED
    BY <1>1, <1>2, ReqFrame, CameraFrame, PushFrame, FirmwareFrame DEF Types, cameraVars

LEMMA WorkerTypes ==
    ASSUME Types, NEW w \in Workers, WorkerStep(w)
    PROVE  Types'
  <1> USE DEF Types
  <1>1. /\ CameraTypes /\ PushTypes /\ push[w].v \in Versions \cup {0} /\ push[w].scope \in Scopes
        /\ library \subseteq Versions /\ custom \in Versions \cup {None}
    BY DEF PushTypes, PushRecords, CameraTypes
  <1>2. PushQuiet
    BY DEF WorkerStep, Preflight, UploadBundle, PollInstall, PollTimesOut, PushEnds
  <1>3. ServerTypes' /\ ReqTypes' /\ library' = library /\ library' \subseteq Versions /\ known' = known
    BY <1>1, <1>2, ServerFrame, ReqFrame DEF PushQuiet
  <1>4. {"uploading", "installing", "rebooting", "installed", "error"} \subseteq CameraStates
    BY DEF CameraStates, CameraBusyStates
  <1>5. {"upload", "poll", "succeeded", "failed"} \subseteq PushLabels
    BY DEF PushLabels
  <1>6. CASE Preflight(w)
    <2>1. CameraTypes'
      BY <1>1, <1>3, <1>4, <1>6, CameraSet DEF Preflight
    <2>2. PushTypes'
      BY <1>1, <1>5, <1>6, PushMoves DEF Preflight
    <2> QED
      BY <1>3, <1>6, <2>1, <2>2, FirmwareFrame DEF Preflight
  <1>7. CASE UploadBundle(w)
    <2>1. CameraTypes'
      BY <1>1, <1>3, <1>4, <1>7, CameraSet, CameraFrame DEF UploadBundle
    <2>2. PushTypes'
      BY <1>1, <1>5, <1>7, PushMoves DEF UploadBundle
    <2>3. FirmwareTypes'
      BY <1>7 DEF UploadBundle, FirmwareTypes, FirmwareTypeOK, firmwareVars
    <2> QED
      BY <1>3, <2>1, <2>2, <2>3
  <1>8. CASE PollInstall(w)
    <2>1. UNCHANGED <<custom, firmwareVars>>
      BY <1>8 DEF PollInstall
    <2>2. \/ \E s \in CameraStates : SetCamera(s, push[w].v, push[w].scope)
          \/ \E s \in CameraStates : cst' = [cst EXCEPT !.state = s]
      <3>1. cst = [cst EXCEPT !.state = cst.state] /\ cst.state \in CameraStates
        BY DEF CameraTypes
      <3> QED
        BY <1>4, <1>8, <3>1 DEF PollInstall
    <2>3. CameraTypes'
      BY <1>1, <1>3, <2>1, <2>2, CameraSet, CameraField
    <2>4. PushTypes'
      <3>1. CASE push' = [push EXCEPT ![w].seen = TRUE]
        BY <3>1 DEF PushTypes, PushRecords
      <3>2. CASE \/ UNCHANGED push
                 \/ PushTo(w, "succeeded")
                 \/ PushTo(w, "failed")
        BY <1>1, <1>5, <3>2, PushMoves, PushFrame
      <3> QED
        BY <1>8, <3>1, <3>2 DEF PollInstall
    <2> QED
      BY <1>3, <2>1, <2>3, <2>4, FirmwareFrame
  <1>9. CASE PollTimesOut(w)
    <2>1. PushTypes'
      BY <1>1, <1>5, <1>9, PushMoves DEF PollTimesOut
    <2> QED
      BY <1>3, <1>9, <2>1, CameraFrame, FirmwareFrame DEF PollTimesOut
  <1>10. CASE PushEnds(w)
    <2>1. NoPush \in PushRecords
      BY DEF NoPush, PushRecords, PushLabels, Scopes
    <2>2. push' = [push EXCEPT ![w] = NoPush] /\ UNCHANGED firmwareVars
      BY <1>10 DEF PushEnds
    <2>3. PushTypes'
      BY <2>1, <2>2 DEF PushTypes
    <2>4. custom' \in Versions \cup {None}
      BY <1>1, <1>10 DEF PushEnds
    <2>5. CameraTypes'
      BY <1>1, <1>3, <1>4, <1>10, <2>4, CameraSet, CameraField DEF PushEnds
    <2> QED
      BY <1>3, <2>2, <2>3, <2>5, FirmwareFrame
  <1> QED
    BY <1>6, <1>7, <1>8, <1>9, <1>10 DEF WorkerStep

LEMMA WorldTypes ==
    ASSUME Types, ScheduledReboot \/ ServerRestarts \/ CameraMoves \/ CameraHeartbeat
    PROVE  Types'
  <1> USE DEF Types
  <1>1. CASE ScheduledReboot \/ ServerRestarts
    <2>1. Forget /\ current' \in {current, standby}
      BY <1>1 DEF ScheduledReboot, ServerRestarts
    <2>2. ServerTypes'
      BY <2>1 DEF Forget, ServerTypes, ServerStates
    <2>3. ReqTypes'
      BY <2>1 DEF Forget, ReqTypes, Idle, ReqRecords, RequestLabels, RequestScopes, CarriesRight
    <2>4. CameraTypes'
      <3>1. NoEntry \in [state : CameraStates, target : Versions \cup {0}, scope : Scopes]
        BY DEF NoEntry, CameraStates, Scopes
      <3> QED
        BY <2>1, <3>1 DEF Forget, CameraTypes
    <2>5. PushTypes'
      BY <2>1 DEF Forget, PushTypes, NoPush, PushRecords, PushLabels, Scopes
    <2>6. FirmwareTypes'
      BY <2>1, FirmwareFrame DEF Forget
    <2> QED
      BY <2>2, <2>3, <2>4, <2>5, <2>6
  <1>2. CASE CameraMoves
    <2>1. UNCHANGED <<serverVars, cst, library, custom, known, push, req>>
      BY <1>2 DEF CameraMoves, cameraVars
    <2>2. FirmwareTypes'
      <3>1. CASE Report
        BY <3>1 DEF Report, FirmwareTypes, FirmwareTypeOK
      <3>2. CASE Install
        BY <3>2 DEF Install, FirmwareTypes, FirmwareTypeOK
      <3>3. CASE Restart
        BY <3>3 DEF Restart, FirmwareTypes, FirmwareTypeOK
      <3>4. CASE Overwrite
        BY <3>4 DEF Overwrite, FirmwareTypes, FirmwareTypeOK
      <3> QED
        BY <1>2, <3>1, <3>2, <3>3, <3>4 DEF CameraMoves, FirmwareNext
    <2> QED
      BY <2>1, <2>2, ServerFrame, CameraFrame, PushFrame, ReqFrame
  <1>3. CASE CameraHeartbeat
    <2>1. CameraTypes'
      BY <1>3 DEF CameraHeartbeat, CameraTypes, FirmwareTypes, FirmwareTypeOK
    <2> QED
      BY <1>3, <2>1, ServerFrame, PushFrame, ReqFrame, FirmwareFrame DEF CameraHeartbeat
  <1> QED
    BY <1>1, <1>2, <1>3

-----------------------------------------------------------------------------
(* Order.  The facts about a step that the parts below need, whichever     *)
(* action it is.                                                           *)

Orderly == OneRequest /\ PushesShow /\ PushAlone /\ NothingOlder

Ended == {"succeeded", "failed"}
Filling == {"none", "stage", "import", "verify"}

OthersWait(r) == \A o \in Reqs \ {r} : req'[o] = req[o]

(* what r goes on to install is no older release, and is what its path holds *)
Installs(r) ==
  /\ req'[r].pc \in {"install", "swupdate"} => ~Blocked(current', req'[r].b.v)
  /\ req'[r].pc = "install" =>
       \A i \in DOMAIN staging' : staging'[i].name = req'[r].b.name => staging'[i] = req'[r].b

(* a request that begins in order begins alone *)
LEMMA BeginsAlone ==
    ASSUME NEW r \in Reqs, Starts(r), ~overlapped'
    PROVE  /\ ~overlapped
           /\ \A o \in Reqs : At(o, "none")
           /\ \A w \in Workers : push[w].pc \notin Ended
  BY DEF Starts, Ended

(* a request begins, or is answered at once; no worker starts *)
LEMMA BeginOrder ==
    ASSUME Types, Orderly, NEW r \in Reqs, Starts(r), OthersWait(r), push' = push,
           released \/ (CameraBusy /\ ~CameraBusy') => released',
           req'[r].pc \in Filling \/ ~CameraBusy,
           ~Blocked(current, standby) => ~Blocked(current', standby'), Installs(r)
    PROVE  Orderly'
  <1>1. OneRequest'
    BY BeginsAlone DEF OneRequest, InOrder, OthersWait, At
  <1>2. PushesShow'
    BY BeginsAlone DEF Orderly, PushesShow, InOrder
  <1>3. PushAlone'
    <2> SUFFICES ASSUME ~overlapped', ~released', NEW w \in Workers, push[w].pc # "none"
                 PROVE  /\ \A o \in Reqs : req'[o].pc \in {"none", "stage", "import", "verify"}
                        /\ \A x \in Workers : push[x].pc # "none" => x = w
      BY DEF PushAlone, InOrder
    <2>1. ~overlapped /\ ~released /\ push[w].pc \notin Ended
      BY BeginsAlone
    <2>2. push[w].pc \in {"preflight", "upload", "poll"}
      BY <2>1 DEF Types, PushTypes, PushRecords, PushLabels, Ended
    <2>3. CameraBusy
      BY <2>1, <2>2 DEF Orderly, PushesShow, InOrder
    <2>4. \A o \in Reqs : req'[o].pc \in Filling
      BY <2>3, BeginsAlone DEF OthersWait, At, Filling
    <2> QED
      BY <2>1, <2>4 DEF Orderly, PushAlone, InOrder, Filling
  <1>4. NothingOlder'
    <2> SUFFICES ASSUME ~overlapped'
                 PROVE  /\ ~Blocked(current', standby')
                        /\ \A o \in Reqs : req'[o].pc \in {"install", "swupdate"} => ~Blocked(current', req'[o].b.v)
                        /\ \A o \in Reqs : req'[o].pc = "install" =>
                             \A i \in DOMAIN staging' : staging'[i].name = req'[o].b.name => staging'[i] = req'[o].b
      BY DEF NothingOlder, InOrder, At
    <2>1. ~overlapped /\ \A o \in Reqs \ {r} : req'[o].pc = "none"
      BY BeginsAlone DEF OthersWait, At
    <2>2. ~Blocked(current', standby')
      BY <2>1 DEF Orderly, NothingOlder, InOrder
    <2> QED
      BY <2>1, <2>2 DEF Installs
  <1> QED
    BY <1>1, <1>2, <1>3, <1>4 DEF Orderly

(* a request goes on; no worker starts *)
LEMMA StepOrder ==
    ASSUME Types, Orderly, NEW r \in Reqs, ~At(r, "none"), OthersWait(r), push' = push,
           UNCHANGED <<overlapped, released>>,
           req[r].pc \in Filling => req'[r].pc \in Filling /\ cst' = cst,
           InOrder => ~Blocked(current', standby'), InOrder => Installs(r)
    PROVE  Orderly'
  <1>1. OneRequest'
    BY DEF Orderly, OneRequest, InOrder, OthersWait, At
  <1>2. PushesShow'
    BY DEF Orderly, PushesShow, PushAlone, InOrder, CameraBusy, Filling
  <1>3. PushAlone'
    BY DEF Orderly, PushAlone, InOrder, OthersWait, Filling
  <1>4. NothingOlder'
    <2> SUFFICES ASSUME ~overlapped
                 PROVE  /\ ~Blocked(current', standby')
                        /\ \A o \in Reqs : req'[o].pc \in {"install", "swupdate"} => ~Blocked(current', req'[o].b.v)
                        /\ \A o \in Reqs : req'[o].pc = "install" =>
                             \A i \in DOMAIN staging' : staging'[i].name = req'[o].b.name => staging'[i] = req'[o].b
      BY DEF NothingOlder, InOrder, At
    <2>1. \A o \in Reqs \ {r} : req'[o].pc = "none"
      BY DEF Orderly, OneRequest, InOrder, OthersWait, At
    <2> QED
      BY <2>1 DEF Installs, InOrder
  <1> QED
    BY <1>1, <1>2, <1>3, <1>4 DEF Orderly

(* a worker starts: the status says so from then on, and nothing else is under way *)
LEMMA PushBeginOrder ==
    ASSUME Types, Orderly, NEW v, NEW scope, StartPush(v, scope), CameraBusy',
           overlapped => overlapped', released => released', UNCHANGED <<staging, current, standby>>,
           \A r \in Reqs : req'[r] = req[r] \/ req'[r].pc = "none",
           ~overlapped' /\ ~released' =>
             /\ \A r \in Reqs : req'[r].pc = "none"
             /\ \A w \in Workers : push[w].pc = "none"
    PROVE  Orderly'
  <1> PICK w \in Workers : push' = [push EXCEPT ![w] = [pc |-> "preflight", v |-> v, scope |-> scope, seen |-> FALSE]]
    BY DEF StartPush
  <1>0. \A x \in Workers \ {w} : push'[x] = push[x]
    BY DEF Types, PushTypes
  <1>1. OneRequest'
    BY DEF Orderly, OneRequest, InOrder, At
  <1>2. PushesShow'
    BY DEF PushesShow
  <1>3. PushAlone'
    BY <1>0 DEF PushAlone, InOrder
  <1>4. NothingOlder'
    BY DEF Orderly, NothingOlder, InOrder, At
  <1> QED
    BY <1>1, <1>2, <1>3, <1>4 DEF Orderly

(* a worker goes on: it shows in the status for as long as it works *)
LEMMA WorkOrder ==
    ASSUME Types, Orderly, NEW w \in Workers, push[w].pc # "none",
           \A x \in Workers \ {w} : push'[x] = push[x],
           push'[w].pc \in {"preflight", "upload", "poll"} =>
             CameraBusy' \/ (cst' = cst /\ push[w].pc \in {"preflight", "upload", "poll"}),
           UNCHANGED <<staging, current, standby, req, overlapped, released>>
    PROVE  Orderly'
  <1>1. OneRequest'
    BY DEF Orderly, OneRequest, InOrder, At
  <1>2. PushesShow'
    <2> SUFFICES ASSUME ~overlapped, ~released, NEW x \in Workers, push'[x].pc \in {"preflight", "upload", "poll"}
                 PROVE  CameraBusy'
      BY DEF PushesShow, InOrder
    <2>1. push[x].pc # "none"
      BY DEF Types, PushTypes
    <2>2. x = w
      BY <2>1 DEF Orderly, PushAlone, InOrder
    <2> QED
      BY <2>2 DEF Orderly, PushesShow, InOrder, CameraBusy
  <1>3. PushAlone'
    BY DEF Orderly, PushAlone, InOrder
  <1>4. NothingOlder'
    BY DEF Orderly, NothingOlder, InOrder, At
  <1> QED
    BY <1>1, <1>2, <1>3, <1>4 DEF Orderly

(* a step of none of them *)
LEMMA FrameOrder ==
    ASSUME Orderly, UNCHANGED <<staging, current, standby, req, cst, push, overlapped, released>>
    PROVE  Orderly'
  BY DEF Orderly, OneRequest, PushesShow, PushAlone, NothingOlder, InOrder, At, CameraBusy

-----------------------------------------------------------------------------
(* Order, an action at a time.                                             *)

(* the record of a request thread after its step *)
LEMMA ReqAfter ==
    ASSUME Types, NEW r \in Reqs, NEW q, req' = [req EXCEPT ![r] = q]
    PROVE  OthersWait(r) /\ req'[r] = q
  BY DEF Types, ReqTypes, OthersWait

LEMMA IdleAfter ==
    ASSUME Types, NEW r \in Reqs, Done(r)
    PROVE  OthersWait(r) /\ req'[r].pc = "none"
  <1> DEFINE q == Idle
  <1>1. req' = [req EXCEPT ![r] = q]
    BY DEF Done
  <1>2. q.pc = "none"
    BY DEF Idle
  <1> HIDE DEF q
  <1>3. OthersWait(r) /\ req'[r] = q
    BY <1>1, ReqAfter
  <1> QED
    BY <1>2, <1>3

LEMMA GotoAfter ==
    ASSUME Types, NEW r \in Reqs, NEW pc, NEW b, NEW scope, Goto(r, pc, b, scope)
    PROVE  OthersWait(r) /\ req'[r].pc = pc /\ req'[r].b = b
  <1> DEFINE q == [pc |-> pc, b |-> b, v |-> 0, scope |-> scope]
  <1>1. req' = [req EXCEPT ![r] = q]
    BY DEF Goto
  <1>2. q.pc = pc /\ q.b = b
    OBVIOUS
  <1> HIDE DEF q
  <1>3. OthersWait(r) /\ req'[r] = q
    BY <1>1, ReqAfter
  <1> QED
    BY <1>2, <1>3

LEMMA CarryAfter ==
    ASSUME Types, NEW r \in Reqs, NEW pc, NEW v, NEW scope, Carry(r, pc, v, scope)
    PROVE  OthersWait(r) /\ req'[r].pc = pc
  <1> DEFINE q == [pc |-> pc, b |-> None, v |-> v, scope |-> scope]
  <1>1. req' = [req EXCEPT ![r] = q]
    BY DEF Carry
  <1>2. q.pc = pc
    OBVIOUS
  <1> HIDE DEF q
  <1>3. OthersWait(r) /\ req'[r] = q
    BY <1>1, ReqAfter
  <1> QED
    BY <1>2, <1>3

LEMMA RequestOrder ==
    ASSUME Types, Orderly, NEW r \in Reqs, Request(r)
    PROVE  Orderly'
  <1>1. ASSUME NEW b \in Bundles, UploadServerImage(r, b) \/ ImportFromUsb(r, b) PROVE Orderly'
    <2>1. /\ Starts(r) /\ released' = released
          /\ \E pc \in {"stage", "import"} : Goto(r, pc, b, None)
          /\ UNCHANGED <<staging, current, standby, cst, push>>
      BY <1>1 DEF UploadServerImage, ImportFromUsb, Begin, serverVars, cameraVars
    <2>2. OthersWait(r) /\ req'[r].pc \in {"stage", "import"}
      BY <2>1, GotoAfter
    <2>3. Installs(r) /\ req'[r].pc \in Filling
      BY <2>2 DEF Installs, Filling
    <2>4. CameraBusy' = CameraBusy
      BY <2>1 DEF CameraBusy
    <2> QED
      BY <2>1, <2>2, <2>3, <2>4, BeginOrder
  <1>2. CASE InstallServerImage(r)
    <2> DEFINE b == Last(staging)
    <2>1. /\ Starts(r) /\ released' = released /\ ~CameraBusy
          /\ UNCHANGED <<current, standby, cst, push>>
      BY <1>2 DEF InstallServerImage, Begin, cameraVars
    <2>2. staging \in Seq(Bundles) /\ staging # <<>> /\ NamesDiffer(staging)
      BY <1>2 DEF InstallServerImage, Types, ServerTypes
    <2>3. CameraBusy' = CameraBusy
      BY <2>1 DEF CameraBusy
    <2>4. OthersWait(r) /\ Installs(r)
      <3>1. CASE ServerPolicy(current, b.v) = "downgrade"
        <4>1. UNCHANGED req
          BY <1>2, <3>1 DEF InstallServerImage
        <4>2. At(r, "none")
          BY <2>1 DEF Starts
        <4> QED
          BY <4>1, <4>2 DEF OthersWait, Installs, At
      <3>2. CASE ServerPolicy(current, b.v) # "downgrade"
        <4>1. Goto(r, "install", b, None) /\ staging' = staging
          BY <1>2, <3>2 DEF InstallServerImage
        <4>2. OthersWait(r) /\ req'[r].pc = "install" /\ req'[r].b = b
          BY <4>1, GotoAfter
        <4>3. ~Blocked(current, b.v)
          BY <3>2 DEF ServerPolicy, Blocked
        <4>4. \A i \in DOMAIN staging : staging[i].name = b.name => staging[i] = b
          BY <2>2 DEF NamesDiffer, Last
        <4> HIDE DEF b
        <4> QED
          BY <2>1, <4>1, <4>2, <4>3, <4>4 DEF Installs
      <3> QED
        BY <3>1, <3>2
    <2> QED
      BY <2>1, <2>3, <2>4, BeginOrder
  <1>3. ASSUME NEW v \in Versions, UploadCameraImage(r, v) PROVE Orderly'
    <2>1. /\ Starts(r) /\ released' = released /\ ~CameraBusy /\ Carry(r, "camera", v, None)
          /\ UNCHANGED <<staging, current, standby, cst, push>>
      BY <1>3 DEF UploadCameraImage, Begin, serverVars, cameraVars
    <2>2. OthersWait(r) /\ req'[r].pc = "camera"
      BY <2>1, CarryAfter
    <2>3. Installs(r) /\ CameraBusy' = CameraBusy
      BY <2>1, <2>2 DEF Installs, CameraBusy
    <2> QED
      BY <2>1, <2>2, <2>3, BeginOrder
  <1>4. ASSUME NEW v \in Versions, UploadCameraLibrary(r, v) PROVE Orderly'
    <2>1. /\ Starts(r) /\ released' = released
          /\ UNCHANGED <<staging, current, standby, cst, push, req>>
      BY <1>4 DEF UploadCameraLibrary, Begin, serverVars
    <2>2. OthersWait(r) /\ req'[r].pc = "none"
      BY <2>1 DEF OthersWait, Starts, At
    <2>3. Installs(r) /\ CameraBusy' = CameraBusy /\ req'[r].pc \in Filling
      BY <2>1, <2>2 DEF Installs, CameraBusy, Filling
    <2> QED
      BY <2>1, <2>2, <2>3, BeginOrder
  <1>5. ASSUME NEW v \in Versions, UploadCameraCustom(r, v) PROVE Orderly'
    <2>1. /\ Starts(r) /\ released' = released /\ ~CameraBusy
          /\ UNCHANGED <<staging, current, standby, cst, push>>
          /\ Carry(r, "custom", v, None) \/ UNCHANGED req
      BY <1>5 DEF UploadCameraCustom, Begin, serverVars
    <2>2. OthersWait(r) /\ req'[r].pc \in {"custom", "none"}
      BY <2>1, CarryAfter DEF OthersWait, Starts, At
    <2>3. Installs(r) /\ CameraBusy' = CameraBusy
      BY <2>1, <2>2 DEF Installs, CameraBusy
    <2> QED
      BY <2>1, <2>2, <2>3, BeginOrder
  <1>6. CASE DiscardCameraCustom(r)
    <2>1. /\ Starts(r) /\ released' = released /\ ~CameraBusy
          /\ UNCHANGED <<staging, current, standby, push, req>>
      BY <1>6 DEF DiscardCameraCustom, Begin, serverVars
    <2>2. OthersWait(r) /\ req'[r].pc = "none"
      BY <2>1 DEF OthersWait, Starts, At
    <2>3. Installs(r)
      BY <2>2 DEF Installs
    <2> QED
      BY <2>1, <2>2, <2>3, BeginOrder
  <1>7. CASE PushAllEligible(r)
    <2>1. /\ Starts(r) /\ released' = released /\ ~CameraBusy
          /\ UNCHANGED <<staging, current, standby, req>>
          /\ StartPush(LatestCameraBundle, "common")
          /\ SetCamera("uploading", LatestCameraBundle, "common")
      BY <1>7 DEF PushAllEligible, Begin, serverVars
    <2>2. CameraBusy'
      BY <2>1 DEF SetCamera, CameraBusy, CameraBusyStates
    <2>3. ASSUME ~overlapped', ~released'
          PROVE  /\ \A o \in Reqs : req'[o].pc = "none"
                 /\ \A w \in Workers : push[w].pc = "none"
      <3>1. ~overlapped /\ ~released /\ \A w \in Workers : push[w].pc \notin Ended
        BY <2>1, <2>3, BeginsAlone
      <3>2. \A w \in Workers : push[w].pc \notin {"preflight", "upload", "poll"}
        BY <2>1, <3>1 DEF Orderly, PushesShow, InOrder
      <3> QED
        BY <2>1, <2>3, <3>1, <3>2, BeginsAlone DEF At, Types, PushTypes, PushRecords, PushLabels, Ended
    <2>4. overlapped => overlapped'
      BY <2>1 DEF Starts
    <2> QED
      BY <2>1, <2>2, <2>3, <2>4, PushBeginOrder
  <1>8. CASE GetStatus(r)
    <2>1. /\ Starts(r) /\ released' = released
          /\ UNCHANGED <<current, standby, push, req>>
      BY <1>8 DEF GetStatus, Begin
    <2>2. OthersWait(r) /\ req'[r].pc = "none"
      BY <2>1 DEF OthersWait, Starts, At
    <2>3. cst.state = "installed" \/ cst' = cst
      BY <1>8 DEF GetStatus
    <2>4. CameraBusy => CameraBusy'
      BY <2>3 DEF CameraBusy, CameraBusyStates
    <2>5. Installs(r) /\ req'[r].pc \in Filling
      BY <2>2 DEF Installs, Filling
    <2> QED
      BY <2>1, <2>2, <2>4, <2>5, BeginOrder
  <1>9. ASSUME NEW scope \in {"common", "custom"}, PushCamera(r, scope) PROVE Orderly'
    <2>1. Starts(r) /\ UNCHANGED <<staging, current, standby, push>>
      BY <1>9 DEF PushCamera, serverVars
    <2>2. \/ UNCHANGED req /\ released' = (released \/ CameraBusy)
          \/ \E v : /\ Carry(r, "push", v, scope) /\ ~CameraBusy
                    /\ UNCHANGED <<cst, released>>
      BY <1>9 DEF PushCamera
    <2>3. released \/ (CameraBusy /\ ~CameraBusy') => released'
      BY <2>2
    <2>4. CASE UNCHANGED req
      <3>1. OthersWait(r)
        BY <2>4 DEF OthersWait
      <3>2. req'[r].pc = "none"
        BY <2>1, <2>4 DEF Starts, At
      <3>3. Installs(r) /\ req'[r].pc \in Filling
        BY <3>2 DEF Installs, Filling
      <3> QED
        BY <2>1, <2>3, <3>1, <3>3, BeginOrder
    <2>5. ASSUME NEW v, Carry(r, "push", v, scope), ~CameraBusy PROVE Orderly'
      <3>1. OthersWait(r) /\ req'[r].pc = "push"
        BY <2>5, CarryAfter
      <3>2. Installs(r)
        BY <3>1 DEF Installs
      <3> QED
        BY <2>1, <2>3, <2>5, <3>1, <3>2, BeginOrder
    <2> QED
      BY <2>2, <2>4, <2>5
  <1> QED
    BY <1>1, <1>2, <1>3, <1>4, <1>5, <1>6, <1>7, <1>8, <1>9 DEF Request

LEMMA RequestStepOrder ==
    ASSUME Types, Orderly, NEW r \in Reqs, RequestStep(r)
    PROVE  Orderly'
  <1>0. InOrder => ~Blocked(current, standby)
    BY DEF Orderly, NothingOlder
  <1>1. CASE StageBundle(r)
    <2>1. /\ ~At(r, "none") /\ UNCHANGED <<current, standby, cst, push, overlapped, released>>
          /\ Done(r) \/ Goto(r, "verify", req[r].b, None)
      BY <1>1 DEF StageBundle, At, cameraVars, bounds
    <2>2. OthersWait(r) /\ req'[r].pc \in {"none", "verify"}
      BY <2>1, IdleAfter, GotoAfter
    <2>3. Installs(r) /\ req'[r].pc \in Filling
      BY <2>2 DEF Installs, Filling
    <2> QED
      BY <1>0, <2>1, <2>2, <2>3, StepOrder
  <1>2. CASE VerifyBundle(r)
    <2>1. ~At(r, "none") /\ Done(r) /\ UNCHANGED <<current, standby, cst, push, overlapped, released>>
      BY <1>2 DEF VerifyBundle, At, cameraVars, bounds
    <2>2. OthersWait(r) /\ req'[r].pc = "none"
      BY <2>1, IdleAfter
    <2>3. Installs(r) /\ req'[r].pc \in Filling
      BY <2>2 DEF Installs, Filling
    <2> QED
      BY <1>0, <2>1, <2>2, <2>3, StepOrder
  <1>3. CASE InstallBundle(r)
    <2>1. At(r, "install") /\ UNCHANGED <<staging, current, standby, cst, push, overlapped, released>>
      BY <1>3 DEF InstallBundle, cameraVars, bounds
    <2>2. ~At(r, "none") /\ req[r].pc \notin Filling
      BY <2>1 DEF At, Filling
    <2>3. CASE Done(r)
      <3>1. OthersWait(r) /\ req'[r].pc = "none"
        BY <2>3, IdleAfter
      <3>2. Installs(r)
        BY <3>1 DEF Installs
      <3> QED
        BY <1>0, <2>1, <2>2, <3>1, <3>2, StepOrder
    <2>4. ASSUME NEW i \in AtPath(req[r].b.name), Goto(r, "swupdate", staging[i], None) PROVE Orderly'
      <3>1. OthersWait(r) /\ req'[r].pc = "swupdate" /\ req'[r].b = staging[i]
        BY <2>4, GotoAfter
      <3>2. InOrder => staging[i] = req[r].b /\ ~Blocked(current, req[r].b.v)
        BY <2>1 DEF Orderly, NothingOlder, AtPath, At
      <3>3. InOrder => Installs(r)
        BY <2>1, <3>1, <3>2 DEF Installs
      <3> QED
        BY <1>0, <2>1, <2>2, <3>1, <3>3, StepOrder
    <2> QED
      BY <1>3, <2>3, <2>4 DEF InstallBundle
  <1>4. CASE SwupdateReturns(r)
    <2>1. At(r, "swupdate") /\ UNCHANGED <<staging, current, cst, push, overlapped, released>>
      BY <1>4 DEF SwupdateReturns, cameraVars, bounds
    <2>2. /\ standby' \in {standby, req[r].b.v}
          /\ \E scope \in {"done", "failed"} : Goto(r, "ended", None, scope)
      BY <1>4 DEF SwupdateReturns
    <2>3. ~At(r, "none") /\ req[r].pc \notin Filling
      BY <2>1 DEF At, Filling
    <2>4. OthersWait(r) /\ req'[r].pc = "ended"
      BY <2>2, GotoAfter
    <2>5. InOrder => ~Blocked(current', standby')
      BY <1>0, <2>1, <2>2 DEF Orderly, NothingOlder, At
    <2>6. Installs(r)
      BY <2>4 DEF Installs
    <2> QED
      BY <2>1, <2>3, <2>4, <2>5, <2>6, StepOrder
  <1>5. CASE InstallReturns(r)
    <2>1. At(r, "ended") /\ Done(r) /\ UNCHANGED <<current, standby, cst, push, overlapped, released>>
      BY <1>5 DEF InstallReturns, cameraVars, bounds
    <2>2. ~At(r, "none") /\ req[r].pc \notin Filling
      BY <2>1 DEF At, Filling
    <2>3. OthersWait(r) /\ req'[r].pc = "none"
      BY <2>1, IdleAfter
    <2>4. Installs(r)
      BY <2>3 DEF Installs
    <2> QED
      BY <1>0, <2>1, <2>2, <2>3, <2>4, StepOrder
  <1>6. CASE CameraImageStored(r) \/ CameraCustomStored(r)
    <2>1. /\ At(r, "camera") \/ At(r, "custom")
          /\ Done(r) /\ UNCHANGED <<staging, current, standby, push, overlapped, released>>
      BY <1>6 DEF CameraImageStored, CameraCustomStored, serverVars, bounds
    <2>2. ~At(r, "none") /\ req[r].pc \notin Filling
      BY <2>1 DEF At, Filling
    <2>3. OthersWait(r) /\ req'[r].pc = "none"
      BY <2>1, IdleAfter
    <2>4. Installs(r)
      BY <2>3 DEF Installs
    <2> QED
      BY <1>0, <2>1, <2>2, <2>3, <2>4, StepOrder
  <1>7. CASE PushStarts(r)
    <2>1. /\ At(r, "push") /\ Done(r) /\ UNCHANGED <<staging, current, standby, overlapped, released>>
          /\ StartPush(req[r].v, req[r].scope) /\ SetCamera("uploading", req[r].v, req[r].scope)
      BY <1>7 DEF PushStarts, serverVars, bounds
    <2>2. OthersWait(r) /\ req'[r].pc = "none"
      BY <2>1, IdleAfter
    <2>3. CameraBusy'
      BY <2>1 DEF SetCamera, CameraBusy, CameraBusyStates
    <2>4. \A o \in Reqs : req'[o] = req[o] \/ req'[o].pc = "none"
      BY <2>2 DEF OthersWait
    <2>5. ASSUME ~overlapped', ~released'
          PROVE  /\ \A o \in Reqs : req'[o].pc = "none"
                 /\ \A w \in Workers : push[w].pc = "none"
      <3>1. \A w \in Workers : push[w].pc = "none"
        BY <2>1, <2>5 DEF Orderly, PushAlone, InOrder, At
      <3>2. \A o \in Reqs \ {r} : At(o, "none")
        BY <2>1, <2>5 DEF Orderly, OneRequest, InOrder, At
      <3> QED
        BY <2>2, <3>1, <3>2 DEF OthersWait, At
    <2> QED
      BY <2>1, <2>3, <2>4, <2>5, PushBeginOrder
  <1> QED
    BY <1>1, <1>2, <1>3, <1>4, <1>5, <1>6, <1>7 DEF RequestStep

LEMMA WorkerOrder ==
    ASSUME Types, Orderly, NEW w \in Workers, WorkerStep(w)
    PROVE  Orderly'
  <1>1. push[w].pc # "none"
    BY DEF WorkerStep, Preflight, UploadBundle, PollInstall, PollTimesOut, PushEnds
  <1>2. UNCHANGED <<staging, current, standby, req, overlapped, released>>
    BY DEF WorkerStep, Preflight, UploadBundle, PollInstall, PollTimesOut, PushEnds, PushQuiet, serverVars, bounds
  <1>3. \A x \in Workers \ {w} : push'[x] = push[x]
    <2>1. push' = push \/ \E p : push' = [push EXCEPT ![w] = p]
      BY DEF WorkerStep, Preflight, UploadBundle, PollInstall, PollTimesOut, PushEnds, PushTo
    <2> QED
      BY <2>1 DEF Types, PushTypes
  <1>4. push'[w].pc \in {"preflight", "upload", "poll"} =>
          CameraBusy' \/ (cst' = cst /\ push[w].pc \in {"preflight", "upload", "poll"})
    <2>0. \A pc : PushTo(w, pc) => push'[w].pc = pc
      BY DEF Types, PushTypes, PushRecords, PushTo
    <2>1. CASE Preflight(w)
      BY <2>1 DEF Preflight, SetCamera, CameraBusy, CameraBusyStates
    <2>2. CASE UploadBundle(w)
      BY <2>0, <2>2 DEF UploadBundle, SetCamera, CameraBusy, CameraBusyStates
    <2>3. CASE PollInstall(w)
      <3>1. CASE phase = "gone" /\ cst' = [cst EXCEPT !.state = IF push[w].seen THEN "rebooting" ELSE @]
        <4>1. CASE push[w].seen
          BY <3>1, <4>1 DEF CameraBusy, CameraBusyStates, Types, CameraTypes
        <4>2. CASE ~push[w].seen
          <5>1. cst' = cst
            BY <3>1, <4>2 DEF Types, CameraTypes
          <5> QED
            BY <2>3, <5>1 DEF PollInstall
        <4> QED
          BY <4>1, <4>2
      <3>2. CASE PushTo(w, "succeeded") \/ PushTo(w, "failed")
        BY <2>0, <3>2
      <3>3. CASE \E s \in {"installing", "rebooting"} : SetCamera(s, push[w].v, push[w].scope)
        BY <3>3 DEF SetCamera, CameraBusy, CameraBusyStates
      <3> QED
        BY <2>3, <3>1, <3>2, <3>3 DEF PollInstall
    <2>4. CASE PollTimesOut(w)
      BY <2>0, <2>4 DEF PollTimesOut
    <2>5. CASE PushEnds(w)
      BY <2>5 DEF PushEnds, NoPush, Types, PushTypes
    <2> QED
      BY <2>1, <2>2, <2>3, <2>4, <2>5 DEF WorkerStep
  <1> QED
    BY <1>1, <1>2, <1>3, <1>4, WorkOrder

LEMMA WorldOrder ==
    ASSUME Types, Orderly, ScheduledReboot \/ ServerRestarts \/ CameraMoves \/ CameraHeartbeat
    PROVE  Orderly'
  <1>1. CASE ScheduledReboot \/ ServerRestarts
    <2>1. /\ Forget /\ standby' = standby /\ overlapped' = overlapped
          /\ current' = standby \/ current' = current
      BY <1>1 DEF ScheduledReboot, ServerRestarts, Forget
    <2>2. \A r \in Reqs : req'[r].pc = "none"
      BY <2>1 DEF Forget, Idle
    <2>3. \A w \in Workers : push'[w].pc = "none"
      BY <2>1 DEF Forget, NoPush
    <2>4. InOrder => ~Blocked(current', standby')
      BY <2>1, SameIsFine DEF Orderly, NothingOlder
    <2> QED
      BY <2>1, <2>2, <2>3, <2>4
      DEF Orderly, OneRequest, PushesShow, PushAlone, NothingOlder, InOrder, At
  <1>2. CASE CameraMoves
    BY <1>2, FrameOrder DEF CameraMoves, serverVars, cameraVars, bounds
  <1>3. CASE CameraHeartbeat
    BY <1>3, FrameOrder DEF CameraHeartbeat, serverVars, bounds
  <1> QED
    BY <1>1, <1>2, <1>3

LEMMA InitOrder == Init => Orderly
  BY SameIsFine DEF Init, Idle, NoPush, Orderly, OneRequest, PushesShow, PushAlone, NothingOlder, At

LEMMA ServerInvHolds == ServerInv /\ [Next]_vars => ServerInv'
  <1> SUFFICES ASSUME Types, Orderly, [Next]_vars PROVE Types' /\ Orderly'
    BY DEF ServerInv, Orderly
  <1>1. ASSUME NEW r \in Reqs, Request(r) PROVE Types' /\ Orderly'
    BY <1>1, RequestTypes, RequestOrder
  <1>2. ASSUME NEW r \in Reqs, RequestStep(r) PROVE Types' /\ Orderly'
    BY <1>2, RequestStepTypes, RequestStepOrder
  <1>3. ASSUME NEW r \in Reqs, Tick(r) PROVE Types' /\ Orderly'
    <2>1. UNCHANGED <<staging, current, standby, req, cst, push, overlapped, released>>
      BY <1>3 DEF Tick, TickerWakes, TickerWrites, cameraVars, bounds
    <2> QED
      BY <1>3, <2>1, TickTypes, FrameOrder
  <1>4. ASSUME NEW w \in Workers, WorkerStep(w) PROVE Types' /\ Orderly'
    BY <1>4, WorkerTypes, WorkerOrder
  <1>5. CASE ScheduledReboot \/ ServerRestarts \/ CameraMoves \/ CameraHeartbeat
    BY <1>5, WorldTypes, WorldOrder
  <1>6. CASE UNCHANGED vars
    <2>1. UNCHANGED <<serverVars, cst, library, custom, known, push, req, overlapped, released, firmwareVars>>
      BY <1>6 DEF vars, cameraVars, bounds
    <2>2. UNCHANGED <<staging, current, standby>>
      BY <2>1 DEF serverVars
    <2>3. Types'
      BY <2>1, ServerFrame, CameraFrame, PushFrame, ReqFrame, FirmwareFrame DEF Types
    <2> QED
      BY <2>1, <2>2, <2>3, FrameOrder
  <1> QED
    BY <1>1, <1>2, <1>3, <1>4, <1>5, <1>6 DEF Next

-----------------------------------------------------------------------------
(* A set of which any two members are the same has at most one. *)
LEMMA AtMostOne ==
    ASSUME NEW S, \A x, y \in S : x = y
    PROVE  Cardinality(S) \in {0, 1}
  <1>1. CASE S = {}
    BY <1>1, FS_EmptySet
  <1>2. CASE S # {}
    <2>1. PICK x : x \in S
      BY <1>2
    <2>2. S = {x}
      BY <2>1
    <2> QED
      BY <2>2, FS_Singleton
  <1> QED
    BY <1>1, <1>2

LEMMA InvGivesUpdater == ServerInv => UpdaterInv
  <1> SUFFICES ASSUME ServerInv PROVE UpdaterInv
    OBVIOUS
  <1>1. TypeOK
    <2>1. IsInjective(staging)
      BY DEF ServerInv, Types, ServerTypes, NamesDiffer, IsInjective
    <2> QED
      BY <2>1 DEF ServerInv, Types, ServerTypes, ServerStates, ReqTypes, ReqRecords, RequestLabels,
        RequestScopes, CameraTypes, CameraStates, PushTypes, PushRecords, PushLabels, Scopes,
        FirmwareTypes, TypeOK
  <1>2. ASSUME InOrder, ~released PROVE OneUpdater
    <2>1. CASE Pushing = {}
      <3>1. \A r, o \in Installing : r = o
        BY <1>2 DEF ServerInv, OneRequest, Installing, At
      <3>2. Cardinality(Installing) \in {0, 1}
        BY <3>1, AtMostOne
      <3>3. Cardinality(Pushing) = 0
        BY <2>1, FS_EmptySet
      <3> QED
        BY <3>2, <3>3 DEF OneUpdater
    <2>2. CASE Pushing # {}
      <3>1. PICK w \in Workers : push[w].pc # "none"
        BY <2>2 DEF Pushing
      <3>2. Installing = {}
        BY <1>2, <3>1 DEF ServerInv, PushAlone, Installing, At
      <3>3. \A x, y \in Pushing : x = y
        BY <1>2 DEF ServerInv, PushAlone, Pushing
      <3>4. Cardinality(Pushing) \in {0, 1}
        BY <3>3, AtMostOne
      <3>5. Cardinality(Installing) = 0
        BY <3>2, FS_EmptySet
      <3> QED
        BY <3>4, <3>5 DEF OneUpdater
    <2> QED
      BY <2>1, <2>2
  <1> QED
    BY <1>1, <1>2 DEF UpdaterInv, OneUpdaterInOrder

LEMMA InvGivesNoOlder == ServerInv /\ [Next]_vars => (InOrder => ~Blocked(current, current'))
  <1> SUFFICES ASSUME ServerInv, [Next]_vars, InOrder PROVE ~Blocked(current, current')
    OBVIOUS
  <1>1. current' = current \/ current' = standby
    BY DEF Next, Request, RequestStep, Tick, WorkerStep, vars, serverVars, PushQuiet,
      UploadServerImage, ImportFromUsb, InstallServerImage, UploadCameraImage, UploadCameraLibrary,
      UploadCameraCustom, DiscardCameraCustom, PushAllEligible, GetStatus, PushCamera,
      StageBundle, VerifyBundle, InstallBundle, SwupdateReturns, InstallReturns,
      CameraImageStored, CameraCustomStored, PushStarts, TickerWakes, TickerWrites,
      Preflight, UploadBundle, PollInstall, PollTimesOut, PushEnds,
      ScheduledReboot, ServerRestarts, CameraMoves, CameraHeartbeat
  <1> QED
    BY <1>1, SameIsFine DEF ServerInv, NothingOlder

(* The updater is well typed, and while requests wait for each other (and no
   refused push has reset the status) there is one install or one push at a time,
   for any number of request threads, workers and bundles: the checks of is_busy,
   _start_install and push_camera_update are enough though a push outlives the
   request that started it. *)
THEOREM OneUpdateAtATime == Spec => []UpdaterInv
  <1>1. Init => ServerInv
    BY InitTypes, InitOrder DEF ServerInv, Orderly
  <1> QED
    BY <1>1, ServerInvHolds, InvGivesUpdater, PTL DEF Spec

(* While requests wait for each other the server never boots a release older
   than the one it runs, whichever way the bundle came in: the policy is asked when the install is requested, and
   the path still holds that bundle when swupdate reads it. *)
THEOREM ServerOnlyGoesForward == Spec => ServerNeverOlder
  <1>1. Init => ServerInv
    BY InitTypes, InitOrder DEF ServerInv, Orderly
  <1>2. ServerInv /\ [Next]_vars => [InOrder => ~Blocked(current, current')]_vars
    BY InvGivesNoOlder
  <1> QED
    BY <1>1, <1>2, ServerInvHolds, PTL DEF Spec, ServerNeverOlder

=============================================================================
