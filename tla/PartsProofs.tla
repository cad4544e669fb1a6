----------------------------- MODULE PartsProofs -----------------------------
(***************************************************************************)
(* Proofs about the specifications that put independent parts side by      *)
(* side: what the server does on its own account (UpkeepInv,               *)
(* ImportAtomic), the parts of an appliance (ApplianceInv, KillIsEarned),  *)
(* and the motion events with the alert centre (EventsInv,                 *)
(* NothingNotifiedTwice).  Each part has its own inductive invariant,      *)
(* which a step of another part leaves alone.                              *)
(***************************************************************************)
EXTENDS MCUpkeep, MCAppliance, MCEvents, Integers, FiniteSetTheorems, SequenceTheorems,
        WellFoundedInduction, TLAPS

-----------------------------------------------------------------------------
(* The webhooks                                                            *)
Hooks == [made : BOOLEAN, on : BOOLEAN, wants : SUBSET Classes, failures : Nat, degraded : BOOLEAN]
SettingsFiles == [hook : [Dests -> Hooks], rest : 0..MaxRequests]
Wishes == [hook : [Dests -> [made : BOOLEAN, on : BOOLEAN, wants : SUBSET Classes]], rest : 0..MaxRequests]
RestEdits == [kind : {"rest"}, to : {"none"}, at : {"save"}, seen : SettingsFiles, new : 0..MaxRequests]
HookEdits == [kind : {"create", "delete", "enable", "update", "mark"}, to : Dests, at : {"clean", "save"},
              seen : SettingsFiles, new : Hooks]
DeliveryTasks == [to : Dests, class : Classes]
Posts == [at : {"idle", "lock", "send", "mark", "log"}, to : Dests \cup {"none"},
          class : Classes \cup {"none", "test"}, test : BOOLEAN, left : Int, ok : BOOLEAN,
          again : BOOLEAN, alarm : BOOLEAN]

HookTypes ==
  /\ settings \in SettingsFiles /\ asked \in Wishes /\ overlaid \in BOOLEAN /\ crashed \in BOOLEAN
  /\ editing \in Threads \cup {"free"} /\ sending \in [Dests -> Threads \cup {"free"}]
  /\ edit \in [Threads -> {NoEdit} \cup RestEdits \cup HookEdits]
  /\ post \in [Threads -> Posts] /\ \A t \in Threads : post[t].at # "idle" => post[t].to \in Dests
  /\ tasks \in Seq(DeliveryTasks)
  /\ failing \in [Dests -> Nat] /\ alarms \in [Dests -> Nat] /\ minted \subseteq Dests
  /\ requests \in 0..MaxRequests

(* Who holds which lock: a change of a destination holds _settings_lock, a *)
(* delivery from its second look on the lock of its destination.           *)
LocksRight ==
  \A t \in Threads :
    /\ edit[t].at = "save" /\ edit[t].kind # "rest" => editing = t
    /\ post[t].at \in {"send", "mark", "log"} => sending[post[t].to] = t
    /\ post[t].alarm => post[t].at = "log"
    /\ edit[t].kind = "mark" => post[t].at = "mark" /\ edit[t].to = post[t].to
    /\ edit[t].kind \notin {"none", "mark"} => post[t].at = "idle"
    /\ edit[t].at = "clean" => edit[t].kind = "update"

(* What a change is about to save, from what it has read; p is the         *)
(* delivery of its thread.                                                 *)
EditShape(e, p, ids) ==
  e.at = "save" =>
    /\ e.kind = "create" => e.to \in ids /\ e.new.made /\ e.new.failures = 0 /\ ~e.new.degraded
    /\ e.kind = "delete" => ~e.new.made
    /\ e.kind \in {"enable", "update"} => /\ e.seen.hook[e.to].made /\ e.new.made
                                          /\ e.new.failures = e.seen.hook[e.to].failures
                                          /\ e.new.degraded = e.seen.hook[e.to].degraded
    /\ e.kind = "mark" => e.seen.hook[e.to].made /\ e.new = Marked(e.seen.hook[e.to], p.ok)
EditFresh(e) ==
  e.at = "save" /\ e.kind # "rest" =>
    e.seen = settings /\ (e.kind = "update" => e.new.on = settings.hook[e.to].on)
EditsRight ==
  \A t \in Threads : EditShape(edit[t], post[t], minted) /\ (~overlaid => EditFresh(edit[t]))

(* A destination whose creation is not saved is unknown to everybody.      *)
Unborn(d) == d \notin minted \/ \E t \in Threads : edit[t].kind = "create" /\ edit[t].to = d
BirthRight ==
  ~overlaid => \A d \in Dests : Unborn(d) =>
    /\ ~settings.hook[d].made /\ failing[d] = 0
    /\ \A t \in Threads : post[t].at # "idle" => post[t].to # d

(* The counters in the file are those of the outage, and an outage that    *)
(* has reached the threshold was told, or is about to be.                  *)
Counted ==
  ~overlaid => \A d \in Dests : settings.hook[d].made =>
    /\ settings.hook[d].failures = failing[d]
    /\ settings.hook[d].degraded <=> failing[d] >= DegradedAfter
Rings(d) == \E t \in Threads : post[t].to = d /\ post[t].alarm
Told ==
  ~overlaid => \A d \in Dests :
    /\ alarms[d] <= 1 /\ (alarms[d] = 1 => ~Rings(d))
    /\ alarms[d] = 1 \/ Rings(d) => failing[d] >= DegradedAfter
    /\ ~crashed /\ failing[d] >= DegradedAfter => alarms[d] = 1 \/ Rings(d)

HookIInv == HookTypes /\ LocksRight /\ EditsRight /\ AsAsked /\ BirthRight /\ Counted /\ Told

LEMMA HookNumbers ==
    /\ Retries \in Nat /\ MaxEvents \in Nat /\ MaxRequests \in Nat /\ DegradedAfter \in Nat /\ DegradedAfter > 0
    /\ "free" \notin Threads
  BY HookBounds DEF Threads

LEMMA NoHookType ==
    NoHook \in Hooks /\ ~NoHook.made /\ NoHook.failures = 0 /\ ~NoHook.degraded
  BY DEF NoHook, Hooks

LEMMA NoPostType ==
    NoPost \in Posts /\ NoPost.at = "idle" /\ ~NoPost.alarm
  BY DEF NoPost, Posts

LEMMA EditKinds ==
    ASSUME HookTypes, NEW t \in Threads
    PROVE  /\ edit[t] \in {NoEdit} \cup RestEdits \cup HookEdits
           /\ edit[t].kind = "none" <=> edit[t] = NoEdit
           /\ edit[t].at = "none" <=> edit[t] = NoEdit
           /\ edit[t].kind = "rest" <=> edit[t] \in RestEdits
           /\ edit[t] # NoEdit /\ edit[t].kind # "rest" => edit[t] \in HookEdits
           /\ NoEdit.kind = "none" /\ NoEdit.at = "none"
  <1>1. edit[t] \in {NoEdit} \cup RestEdits \cup HookEdits
    BY DEF HookTypes
  <1>2. NoEdit.kind = "none" /\ NoEdit.at = "none"
    BY DEF NoEdit
  <1>3. \A e \in RestEdits : e.kind = "rest" /\ e.at = "save"
    BY DEF RestEdits
  <1>4. \A e \in HookEdits : e.kind \in {"create", "delete", "enable", "update", "mark"} /\ e.at \in {"clean", "save"}
    BY DEF HookEdits
  <1> QED
    BY <1>1, <1>2, <1>3, <1>4

LEMMA MarkedType ==
    ASSUME NEW h \in Hooks, NEW ok \in BOOLEAN
    PROVE  /\ Marked(h, ok) \in Hooks /\ Choice(Marked(h, ok)) = Choice(h) /\ Marked(h, ok).made = h.made
           /\ Marked(h, ok).failures = IF ok THEN 0 ELSE h.failures + 1
           /\ Marked(h, ok).degraded <=> ~ok /\ (h.degraded \/ h.failures + 1 >= DegradedAfter)
  <1>1. h.failures \in Nat /\ h.degraded \in BOOLEAN
    BY DEF Hooks
  <1> DEFINE f == IF ok THEN 0 ELSE h.failures + 1
             g == ~ok /\ (h.degraded \/ h.failures + 1 >= DegradedAfter)
  <1>2. f \in Nat /\ g \in BOOLEAN
    BY <1>1
  <1>3. Marked(h, ok) = [h EXCEPT !.failures = f, !.degraded = g]
    BY DEF Marked
  <1> HIDE DEF f, g
  <1>4. Marked(h, ok) \in Hooks /\ Marked(h, ok).made = h.made /\ Marked(h, ok).on = h.on
        /\ Marked(h, ok).wants = h.wants /\ Marked(h, ok).failures = f /\ Marked(h, ok).degraded = g
    BY <1>2, <1>3 DEF Hooks
  <1> QED
    BY <1>4 DEF Choice, f, g

LEMMA HookInitRight == HookInit => HookIInv
  <1> SUFFICES ASSUME HookInit PROVE HookIInv
    OBVIOUS
  <1>1. settings = [hook |-> [d \in Dests |-> NoHook], rest |-> 0] /\ editing = "free"
        /\ edit = [t \in Threads |-> NoEdit] /\ tasks = <<>> /\ post = [t \in Threads |-> NoPost]
        /\ sending = [d \in Dests |-> "free"]
        /\ asked = [hook |-> [d \in Dests |-> Choice(NoHook)], rest |-> 0]
        /\ overlaid = FALSE /\ failing = [d \in Dests |-> 0] /\ alarms = [d \in Dests |-> 0]
        /\ crashed = FALSE /\ minted = {} /\ requests = 0
    BY DEF HookInit
  <1>2. settings \in SettingsFiles /\ \A d \in Dests : settings.hook[d] = NoHook
    <2>1. [d \in Dests |-> NoHook] \in [Dests -> Hooks]
      BY NoHookType
    <2> QED
      BY <1>1, <2>1, HookNumbers DEF SettingsFiles
  <1>3. asked \in Wishes /\ asked.rest = settings.rest /\ \A d \in Dests : asked.hook[d] = Choice(NoHook)
    <2>1. Choice(NoHook) \in [made : BOOLEAN, on : BOOLEAN, wants : SUBSET Classes]
      BY DEF Choice, NoHook
    <2>2. [d \in Dests |-> Choice(NoHook)] \in [Dests -> [made : BOOLEAN, on : BOOLEAN, wants : SUBSET Classes]]
      BY <2>1
    <2> QED
      BY <1>1, <2>2, HookNumbers DEF Wishes
  <1>4. \A t \in Threads : edit[t] = NoEdit /\ post[t] = NoPost
    BY <1>1
  <1>5. HookTypes
    <2>1. overlaid \in BOOLEAN /\ crashed \in BOOLEAN
      BY <1>1
    <2>2. editing \in Threads \cup {"free"} /\ sending \in [Dests -> Threads \cup {"free"}]
          /\ edit \in [Threads -> {NoEdit} \cup RestEdits \cup HookEdits]
      BY <1>1
    <2>3. post \in [Threads -> Posts] /\ \A t \in Threads : post[t].at = "idle"
      BY <1>1, NoPostType
    <2>4. failing \in [Dests -> Nat] /\ alarms \in [Dests -> Nat] /\ minted \subseteq Dests /\ requests \in 0..MaxRequests
      BY <1>1, HookNumbers
    <2>5. tasks \in Seq(DeliveryTasks)
      BY <1>1
    <2> QED
      BY <1>2, <1>3, <2>1, <2>2, <2>3, <2>4, <2>5 DEF HookTypes
  <1>6. \A t \in Threads : edit[t].kind = "none" /\ edit[t].at = "none" /\ post[t].at = "idle" /\ ~post[t].alarm
    BY <1>4, NoPostType DEF NoEdit
  <1>7. LocksRight /\ EditsRight
    BY <1>6 DEF LocksRight, EditsRight, EditShape, EditFresh
  <1>8. AsAsked
    BY <1>2, <1>3 DEF AsAsked
  <1>9. \A d \in Dests : failing[d] = 0 /\ alarms[d] = 0 /\ ~settings.hook[d].made
    BY <1>1, <1>2, NoHookType
  <1>10. BirthRight /\ Counted /\ Told
    BY <1>6, <1>9, HookNumbers DEF BirthRight, Counted, Told, Rings
  <1> QED
    BY <1>5, <1>7, <1>8, <1>10 DEF HookIInv

(* A change has read the file under the lock.                              *)
LEMMA LockedBegins ==
    ASSUME HookIInv, NEW t \in Threads, NEW e \in HookEdits, e.at = "save", editing = "free",
           editing' = t, edit' = [edit EXCEPT ![t] = e],
           UNCHANGED <<settings, tasks, post, sending, asked, failing, alarms, crashed>>,
           overlaid' \in BOOLEAN, overlaid => overlaid', requests' \in 0..MaxRequests,
           minted \subseteq minted', minted' \subseteq Dests,
           e.kind = "create" => e.to \notin minted, e.kind # "create" => minted' = minted,
           minted' \subseteq minted \cup {e.to},
           EditShape(e, post[t], minted'), e.seen = settings,
           ~overlaid' /\ e.kind = "update" => e.new.on = settings.hook[e.to].on,
           e.kind = "mark" => post[t].at = "mark" /\ e.to = post[t].to,
           e.kind # "mark" => post[t].at = "idle"
    PROVE  HookIInv'
  <1>0. e.kind \in {"create", "delete", "enable", "update", "mark"}
    BY DEF HookEdits
  <1>1. \A u \in Threads : edit'[u] = IF u = t THEN e ELSE edit[u]
    BY DEF HookIInv, HookTypes
  <1>2. HookTypes'
    BY DEF HookIInv, HookTypes
  <1>3. \A u \in Threads : ~(edit[u].at = "save" /\ edit[u].kind # "rest")
    BY HookNumbers DEF HookIInv, LocksRight
  <1>4. LocksRight'
    BY <1>0, <1>1, <1>3 DEF HookIInv, LocksRight
  <1>5. EditsRight'
    <2> SUFFICES ASSUME NEW u \in Threads
                 PROVE  EditShape(edit'[u], post[u], minted') /\ (~overlaid' => EditFresh(edit[u])')
      BY DEF EditsRight
    <2>1. CASE u = t
      BY <1>1, <2>1 DEF EditFresh
    <2>2. CASE u # t
      <3>1. EditShape(edit[u], post[u], minted) /\ (~overlaid => EditFresh(edit[u]))
        BY DEF HookIInv, EditsRight
      <3> QED
        BY <1>1, <2>2, <3>1 DEF EditShape, EditFresh
    <2> QED
      BY <2>1, <2>2
  <1>6. \A d \in Dests : Unborn(d)' => Unborn(d)
    BY <1>1 DEF Unborn
  <1>7. AsAsked' /\ BirthRight' /\ Counted' /\ Told'
    BY <1>6 DEF HookIInv, AsAsked, BirthRight, Counted, Told, Rings
  <1> QED
    BY <1>2, <1>4, <1>5, <1>7 DEF HookIInv

LEMMA NewEditThread ==
    ASSUME HookIInv, NEW t, NewEdit(t)
    PROVE  t \in Threads /\ edit[t] = NoEdit /\ post[t].at = "idle" /\ requests' \in 0..MaxRequests
           /\ requests' = requests + 1
  <1>1. t \in Threads
    BY DEF NewEdit, Threads
  <1>2. edit[t] = NoEdit
    BY <1>1, EditKinds DEF NewEdit, FreeThread, HookIInv
  <1> QED
    BY <1>1, <1>2, HookNumbers DEF NewEdit, FreeThread, HookIInv, HookTypes

LEMMA LockedEdit ==
    ASSUME HookIInv, NEW k \in {"create", "delete", "enable", "update", "mark"}, NEW d \in Dests, NEW h \in Hooks
    PROVE  LET e == [kind |-> k, to |-> d, at |-> "save", seen |-> settings, new |-> h]
           IN e \in HookEdits /\ e.kind = k /\ e.to = d /\ e.at = "save" /\ e.seen = settings /\ e.new = h
  BY DEF HookIInv, HookTypes, HookEdits

LEMMA SettingsType ==
    ASSUME HookIInv, NEW d \in Dests PROVE settings.hook[d] \in Hooks /\ settings \in SettingsFiles
  BY DEF HookIInv, HookTypes, SettingsFiles

LEMMA CreateKeeps ==
    ASSUME HookIInv, NEW t, NEW d \in Dests, NEW c \in SUBSET Classes, CreateDestination(t, d, c)
    PROVE  HookIInv'
  <1> DEFINE h == [NoHook EXCEPT !.made = TRUE, !.on = TRUE, !.wants = c]
             e == [kind |-> "create", to |-> d, at |-> "save", seen |-> settings, new |-> h]
  <1>1. h \in Hooks /\ h.made /\ h.failures = 0 /\ ~h.degraded
    BY DEF NoHook, Hooks
  <1> HIDE DEF h
  <1>2. t \in Threads /\ post[t].at = "idle" /\ requests' \in 0..MaxRequests
    BY NewEditThread DEF CreateDestination
  <1>3. editing = "free" /\ editing' = t /\ edit' = [edit EXCEPT ![t] = e]
        /\ d \notin minted /\ minted' = minted \cup {d}
        /\ UNCHANGED <<settings, tasks, post, sending, asked, failing, alarms, crashed, overlaid>>
    BY DEF CreateDestination, BeginLocked, BeginEdit, h
  <1>4. e \in HookEdits /\ e.kind = "create" /\ e.to = d /\ e.at = "save" /\ e.seen = settings /\ e.new = h
    BY <1>1, LockedEdit
  <1> HIDE DEF e
  <1>5. EditShape(e, post[t], minted')
    BY <1>1, <1>3, <1>4 DEF EditShape
  <1>6. minted' \subseteq Dests /\ overlaid' \in BOOLEAN
    BY <1>3 DEF HookIInv, HookTypes
  <1> QED
    BY <1>2, <1>3, <1>4, <1>5, <1>6, LockedBegins

LEMMA DeleteKeeps ==
    ASSUME HookIInv, NEW t, NEW d \in Dests, DeleteDestination(t, d)
    PROVE  HookIInv'
  <1> DEFINE e == [kind |-> "delete", to |-> d, at |-> "save", seen |-> settings, new |-> NoHook]
  <1>2. t \in Threads /\ post[t].at = "idle" /\ requests' \in 0..MaxRequests
    BY NewEditThread DEF DeleteDestination
  <1>3. editing = "free" /\ editing' = t /\ edit' = [edit EXCEPT ![t] = e]
        /\ UNCHANGED <<minted, settings, tasks, post, sending, asked, failing, alarms, crashed, overlaid>>
    BY DEF DeleteDestination, BeginLocked, BeginEdit
  <1>4. e \in HookEdits /\ e.kind = "delete" /\ e.to = d /\ e.at = "save" /\ e.seen = settings /\ e.new = NoHook
    BY NoHookType, LockedEdit
  <1> HIDE DEF e
  <1>5. EditShape(e, post[t], minted')
    BY <1>4, NoHookType DEF EditShape
  <1>6. minted' \subseteq Dests /\ overlaid' \in BOOLEAN
    BY <1>3 DEF HookIInv, HookTypes
  <1> QED
    BY <1>2, <1>3, <1>4, <1>5, <1>6, LockedBegins

LEMMA EnableKeeps ==
    ASSUME HookIInv, NEW t, NEW d \in Dests, NEW on \in BOOLEAN, SetEnabled(t, d, on)
    PROVE  HookIInv'
  <1> DEFINE h == [settings.hook[d] EXCEPT !.on = on]
             e == [kind |-> "enable", to |-> d, at |-> "save", seen |-> settings, new |-> h]
  <1>1. h \in Hooks /\ h.made = settings.hook[d].made /\ h.failures = settings.hook[d].failures
        /\ h.degraded = settings.hook[d].degraded
    BY SettingsType DEF Hooks
  <1> HIDE DEF h
  <1>2. t \in Threads /\ post[t].at = "idle" /\ requests' \in 0..MaxRequests /\ settings.hook[d].made
    BY NewEditThread DEF SetEnabled
  <1>3. editing = "free" /\ editing' = t /\ edit' = [edit EXCEPT ![t] = e]
        /\ UNCHANGED <<minted, settings, tasks, post, sending, asked, failing, alarms, crashed, overlaid>>
    BY DEF SetEnabled, BeginLocked, BeginEdit, h
  <1>4. e \in HookEdits /\ e.kind = "enable" /\ e.to = d /\ e.at = "save" /\ e.seen = settings /\ e.new = h
    BY <1>1, LockedEdit
  <1> HIDE DEF e
  <1>5. EditShape(e, post[t], minted')
    BY <1>1, <1>2, <1>4 DEF EditShape
  <1>6. minted' \subseteq Dests /\ overlaid' \in BOOLEAN
    BY <1>3 DEF HookIInv, HookTypes
  <1> QED
    BY <1>2, <1>3, <1>4, <1>5, <1>6, LockedBegins

(* A change that holds no lock is begun or given up.                       *)
LEMMA UnlockedKeeps ==
    ASSUME HookIInv, NEW t \in Threads, NEW e \in {NoEdit} \cup RestEdits \cup HookEdits,
           e.kind \in {"none", "rest"} \/ (e.at = "clean" /\ e.kind = "update"),
           e.kind # "none" => post[t].at = "idle",
           edit' = [edit EXCEPT ![t] = e], requests' \in 0..MaxRequests,
           UNCHANGED <<minted, settings, editing, tasks, post, sending, asked, overlaid, failing, alarms, crashed>>
    PROVE  HookIInv'
  <1>1. \A u \in Threads : edit'[u] = IF u = t THEN e ELSE edit[u]
    BY DEF HookIInv, HookTypes
  <1>0. e.kind = "none" => e.at = "none"
    BY DEF NoEdit, RestEdits, HookEdits
  <1>a. e.kind = "rest" => e.at = "save"
    BY DEF NoEdit, RestEdits, HookEdits
  <1>2. HookTypes'
    BY DEF HookIInv, HookTypes
  <1>3. LocksRight'
    BY <1>0, <1>a, <1>1 DEF HookIInv, LocksRight
  <1>4. EditsRight'
    <2> SUFFICES ASSUME NEW u \in Threads
                 PROVE  EditShape(edit'[u], post[u], minted) /\ (~overlaid => EditFresh(edit[u])')
      BY DEF EditsRight
    <2>1. CASE u = t
      BY <1>0, <1>a, <1>1, <2>1 DEF EditFresh, EditShape
    <2>2. CASE u # t
      <3>1. EditShape(edit[u], post[u], minted) /\ (~overlaid => EditFresh(edit[u]))
        BY DEF HookIInv, EditsRight
      <3> QED
        BY <1>1, <2>2, <3>1 DEF EditFresh
    <2> QED
      BY <2>1, <2>2
  <1>5. \A d \in Dests : Unborn(d)' => Unborn(d)
    BY <1>1 DEF Unborn
  <1>6. AsAsked' /\ BirthRight' /\ Counted' /\ Told'
    BY <1>5 DEF HookIInv, AsAsked, BirthRight, Counted, Told, Rings
  <1> QED
    BY <1>2, <1>3, <1>4, <1>6 DEF HookIInv

LEMMA UpdateKeeps ==
    ASSUME HookIInv, NEW t, NEW d \in Dests, NEW c \in SUBSET Classes, CleanUpdate(t, d, c)
    PROVE  HookIInv'
  <1> DEFINE h == [settings.hook[d] EXCEPT !.wants = c]
             e == [kind |-> "update", to |-> d, at |-> "clean", seen |-> settings, new |-> h]
  <1>1. h \in Hooks /\ settings \in SettingsFiles
    BY SettingsType DEF Hooks
  <1> HIDE DEF h
  <1>2. t \in Threads /\ post[t].at = "idle" /\ requests' \in 0..MaxRequests
    BY NewEditThread DEF CleanUpdate
  <1>3. edit' = [edit EXCEPT ![t] = e]
        /\ UNCHANGED <<minted, settings, editing, tasks, post, sending, asked, overlaid, failing, alarms, crashed>>
    BY DEF CleanUpdate, h
  <1>4. e \in HookEdits /\ e.kind = "update" /\ e.at = "clean"
    BY <1>1 DEF HookEdits
  <1> HIDE DEF e
  <1> QED
    BY <1>2, <1>3, <1>4, UnlockedKeeps

LEMMA EditRestKeeps == ASSUME HookIInv, NEW t, EditRest(t) PROVE HookIInv'
  <1> DEFINE e == [kind |-> "rest", to |-> "none", at |-> "save", seen |-> settings, new |-> requests + 1]
  <1>1. t \in Threads /\ post[t].at = "idle" /\ requests + 1 \in 0..MaxRequests /\ requests' = requests + 1
    BY NewEditThread DEF EditRest
  <1>2. settings \in SettingsFiles
    BY DEF HookIInv, HookTypes
  <1>3. edit' = [edit EXCEPT ![t] = e]
        /\ UNCHANGED <<minted, settings, editing, tasks, post, sending, asked, overlaid, failing, alarms, crashed>>
    BY DEF EditRest, BeginEdit
  <1>4. e \in RestEdits /\ e.kind = "rest"
    BY <1>1, <1>2 DEF RestEdits
  <1> HIDE DEF e
  <1> QED
    BY <1>1, <1>3, <1>4, UnlockedKeeps

LEMMA LockUpdateKeeps == ASSUME HookIInv, NEW t \in Threads, LockUpdate(t) PROVE HookIInv'
  <1> DEFINE d == edit[t].to
             h == settings.hook[d]
  <1>1. edit[t] \in HookEdits /\ edit[t].kind = "update" /\ post[t].at = "idle"
    <2>1. edit[t].at = "clean" /\ edit[t].kind = "update"
      BY DEF LockUpdate, HookIInv, LocksRight
    <2> QED
      BY <2>1, EditKinds DEF HookIInv, LocksRight
  <1>2. d \in Dests /\ edit[t].new \in Hooks /\ h \in Hooks
    BY <1>1, SettingsType DEF HookEdits
  <1>3. UNCHANGED <<minted, settings, tasks, post, sending, asked, failing, alarms, crashed, requests>>
        /\ requests' \in 0..MaxRequests /\ minted' \subseteq Dests
    BY DEF LockUpdate, HookIInv, HookTypes
  <1>4. CASE h.made
    <2> DEFINE n == [h EXCEPT !.on = edit[t].new.on, !.wants = edit[t].new.wants]
               e == [kind |-> "update", to |-> d, at |-> "save", seen |-> settings, new |-> n]
    <2>1. n \in Hooks /\ n.made = h.made /\ n.failures = h.failures /\ n.degraded = h.degraded
          /\ n.on = edit[t].new.on
      BY <1>2 DEF Hooks
    <2>2. editing = "free" /\ editing' = t /\ edit' = [edit EXCEPT ![t] = e]
          /\ overlaid' = (overlaid \/ h.on # edit[t].new.on)
      BY <1>4 DEF LockUpdate, BeginLocked, BeginEdit
    <2> HIDE DEF n
    <2>3. e \in HookEdits /\ e.kind = "update" /\ e.to = d /\ e.at = "save" /\ e.seen = settings /\ e.new = n
      BY <1>2, <2>1, LockedEdit
    <2> HIDE DEF e
    <2>4. EditShape(e, post[t], minted')
      BY <1>4, <2>1, <2>3 DEF EditShape
    <2>5. ~overlaid' => e.new.on = settings.hook[e.to].on
      BY <2>1, <2>2, <2>3
    <2>6. overlaid' \in BOOLEAN /\ (overlaid => overlaid')
      BY <2>2
    <2> QED
      BY <1>1, <1>3, <2>2, <2>3, <2>4, <2>5, <2>6, LockedBegins
  <1>5. CASE ~h.made
    <2>1. edit' = [edit EXCEPT ![t] = NoEdit] /\ UNCHANGED <<editing, overlaid>>
      BY <1>5 DEF LockUpdate
    <2>2. NoEdit.kind = "none"
      BY DEF NoEdit
    <2> QED
      BY <1>3, <2>1, <2>2, UnlockedKeeps
  <1> QED
    BY <1>4, <1>5

-----------------------------------------------------------------------------
(* A change is saved.  Unless the save rests on something old, what it     *)
(* read is what the file holds, and it changes one destination, or the     *)
(* rest.                                                                   *)
LEMMA CommitTypes ==
    ASSUME HookIInv, NEW t \in Threads, Commit(t)
    PROVE  /\ settings' \in SettingsFiles /\ asked' \in Wishes /\ overlaid' \in BOOLEAN
           /\ editing' \in Threads \cup {"free"} /\ edit' \in [Threads -> {NoEdit} \cup RestEdits \cup HookEdits]
           /\ \A u \in Threads : edit'[u] = IF u = t THEN NoEdit ELSE edit[u]
           /\ edit[t].kind = "rest" => edit[t] \in RestEdits
           /\ edit[t].kind # "rest" => edit[t] \in HookEdits
  <1> DEFINE e == edit[t]
  <1>0. settings' = Saved(e) /\ asked' = Asking(e) /\ edit' = [edit EXCEPT ![t] = NoEdit] /\ e.at = "save"
        /\ editing' = (IF editing = t THEN "free" ELSE editing)
    BY DEF Commit
  <1>1. overlaid' \in BOOLEAN
    BY DEF Commit, HookIInv, HookTypes
  <1>2. editing' \in Threads \cup {"free"} /\ edit' \in [Threads -> {NoEdit} \cup RestEdits \cup HookEdits]
        /\ \A u \in Threads : edit'[u] = IF u = t THEN NoEdit ELSE edit[u]
    BY <1>0 DEF HookIInv, HookTypes
  <1>3. (e.kind = "rest" => e \in RestEdits) /\ (e.kind # "rest" => e \in HookEdits)
    BY <1>0, EditKinds DEF HookIInv
  <1>4. asked \in Wishes /\ asked.hook \in [Dests -> [made : BOOLEAN, on : BOOLEAN, wants : SUBSET Classes]]
        /\ asked.rest \in 0..MaxRequests
    BY DEF HookIInv, HookTypes, Wishes
  <1> HIDE DEF e
  <1>5. CASE e.kind = "rest"
    <2>1. e.seen \in SettingsFiles /\ e.new \in 0..MaxRequests
      BY <1>3, <1>5 DEF RestEdits
    <2>2. settings' = [e.seen EXCEPT !.rest = e.new] /\ asked' = [asked EXCEPT !.rest = e.new]
      BY <1>0, <1>5 DEF Saved, Asking
    <2>3. settings' \in SettingsFiles
      BY <2>1, <2>2 DEF SettingsFiles
    <2>4. asked' \in Wishes
      BY <2>1, <2>2, <1>4 DEF Wishes
    <2> QED
      BY <1>1, <1>2, <1>3, <2>3, <2>4 DEF e
  <1>6. CASE e.kind # "rest"
    <2>1. e.seen \in SettingsFiles /\ e.new \in Hooks /\ e.to \in Dests
      BY <1>3, <1>6 DEF HookEdits
    <2>2. settings' = [e.seen EXCEPT !.hook[e.to] = e.new]
      BY <1>0, <1>6 DEF Saved
    <2>3. settings' \in SettingsFiles
      <3>1. e.seen.hook \in [Dests -> Hooks] /\ e.seen.rest \in 0..MaxRequests
        BY <2>1 DEF SettingsFiles
      <3>2. [e.seen.hook EXCEPT ![e.to] = e.new] \in [Dests -> Hooks]
        BY <2>1, <3>1
      <3> DEFINE g == [e.seen.hook EXCEPT ![e.to] = e.new]
      <3>3. settings' = [e.seen EXCEPT !.hook = g]
        BY <2>2
      <3> HIDE DEF g
      <3>4. g \in [Dests -> Hooks]
        BY <3>2 DEF g
      <3> QED
        BY <2>1, <3>3, <3>4 DEF SettingsFiles
    <2>4. Choice(e.new) \in [made : BOOLEAN, on : BOOLEAN, wants : SUBSET Classes] /\ e.new.wants \in SUBSET Classes
      BY <2>1 DEF Choice, Hooks
    <2>5. asked' \in Wishes
      <3>1. CASE e.kind = "mark"
        BY <1>0, <1>4, <3>1 DEF Asking
      <3>2. CASE e.kind = "update"
        <4> DEFINE w == [asked.hook[e.to] EXCEPT !.wants = e.new.wants]
                   g == [asked.hook EXCEPT ![e.to] = w]
        <4>1. w \in [made : BOOLEAN, on : BOOLEAN, wants : SUBSET Classes]
          BY <1>4, <2>1, <2>4
        <4>2. asked' = [asked EXCEPT !.hook = g]
          BY <1>0, <3>2 DEF Asking
        <4> HIDE DEF w
        <4>3. g \in [Dests -> [made : BOOLEAN, on : BOOLEAN, wants : SUBSET Classes]]
          BY <1>4, <2>1, <4>1
        <4> HIDE DEF g
        <4> QED
          BY <1>4, <4>2, <4>3 DEF Wishes
      <3>3. CASE e.kind \notin {"mark", "update"}
        <4> DEFINE g == [asked.hook EXCEPT ![e.to] = Choice(e.new)]
        <4>1. asked' = [asked EXCEPT !.hook = g]
          BY <1>0, <1>6, <3>3 DEF Asking
        <4>2. g \in [Dests -> [made : BOOLEAN, on : BOOLEAN, wants : SUBSET Classes]]
          BY <1>4, <2>1, <2>4
        <4> HIDE DEF g
        <4> QED
          BY <1>4, <4>1, <4>2 DEF Wishes
      <3> QED
        BY <3>1, <3>2, <3>3
    <2> QED
      BY <1>1, <1>2, <1>3, <2>3, <2>5 DEF e
  <1> QED
    BY <1>5, <1>6

LEMMA CommitFresh ==
    ASSUME HookIInv, NEW t \in Threads, Commit(t), ~overlaid'
    PROVE  /\ ~overlaid /\ settings = edit[t].seen
           /\ \A u \in Threads : u # t => edit'[u] = edit[u] /\ ~(edit[u].at = "save" /\ edit[u].kind # "rest")
           /\ settings'.rest = IF edit[t].kind = "rest" THEN edit[t].new ELSE settings.rest
           /\ \A d \in Dests : settings'.hook[d] =
                IF edit[t].kind # "rest" /\ d = edit[t].to THEN edit[t].new ELSE settings.hook[d]
           /\ edit[t].kind # "rest" => editing = t
  <1>1. ~overlaid /\ (edit[t].kind = "rest" => settings = edit[t].seen /\ \A u \in Threads \ {t} : edit[u].at # "save")
    BY DEF Commit
  <1>2. edit[t].at = "save" /\ settings' = Saved(edit[t])
    BY DEF Commit
  <1>3. edit[t].kind # "rest" => settings = edit[t].seen /\ editing = t
    BY <1>1, <1>2 DEF HookIInv, EditsRight, EditFresh, LocksRight
  <1>4. \A u \in Threads : u # t => edit'[u] = edit[u] /\ ~(edit[u].at = "save" /\ edit[u].kind # "rest")
    BY <1>1, <1>3, CommitTypes DEF HookIInv, LocksRight
  <1>5. settings \in SettingsFiles
    BY DEF HookIInv, HookTypes
  <1>6. CASE edit[t].kind = "rest"
    <2>1. settings' = [settings EXCEPT !.rest = edit[t].new]
      BY <1>1, <1>2, <1>6 DEF Saved
    <2> QED
      BY <1>1, <1>4, <1>5, <1>6, <2>1 DEF SettingsFiles
  <1>7. CASE edit[t].kind # "rest"
    <2>1. settings' = [settings EXCEPT !.hook[edit[t].to] = edit[t].new]
      BY <1>2, <1>3, <1>7 DEF Saved
    <2>2. settings'.rest = settings.rest /\ \A d \in Dests : settings'.hook[d] =
                IF d = edit[t].to THEN edit[t].new ELSE settings.hook[d]
      BY <1>5, <2>1 DEF SettingsFiles
    <2> QED
      BY <1>1, <1>3, <1>4, <1>7, <2>2
  <1> QED
    BY <1>6, <1>7

LEMMA CommitAsked ==
    ASSUME HookIInv, NEW t \in Threads, Commit(t)
    PROVE  AsAsked'
  <1> SUFFICES ASSUME ~overlaid'
               PROVE  settings'.rest = asked'.rest /\ \A d \in Dests : Choice(settings'.hook[d]) = asked'.hook[d]
    BY DEF AsAsked
  <1> DEFINE e == edit[t]
  <1>1. ~overlaid /\ settings = e.seen
        /\ settings'.rest = (IF e.kind = "rest" THEN e.new ELSE settings.rest)
        /\ \A d \in Dests : settings'.hook[d] = IF e.kind # "rest" /\ d = e.to THEN e.new ELSE settings.hook[d]
    BY CommitFresh
  <1>2. settings.rest = asked.rest /\ \A d \in Dests : Choice(settings.hook[d]) = asked.hook[d]
    BY <1>1 DEF HookIInv, AsAsked
  <1>3. asked' = Asking(e) /\ e.at = "save" /\ asked \in Wishes
    BY DEF Commit, HookIInv, HookTypes
  <1>4. (e.kind = "rest" => e \in RestEdits) /\ (e.kind # "rest" => e \in HookEdits)
    BY CommitTypes
  <1>5. EditShape(e, post[t], minted) /\ EditFresh(e)
    BY <1>1 DEF HookIInv, EditsRight
  <1>6. post[t].ok \in BOOLEAN
    BY DEF HookIInv, HookTypes, Posts
  <1> HIDE DEF e
  <1>7. CASE e.kind = "rest"
    <2>1. asked' = [asked EXCEPT !.rest = e.new]
      BY <1>3, <1>7 DEF Asking
    <2>2. asked'.rest = e.new /\ asked'.hook = asked.hook
      BY <1>3, <2>1 DEF Wishes
    <2> QED
      BY <1>1, <1>2, <1>7, <2>2
  <1>8. CASE e.kind = "mark"
    <2>1. e.to \in Dests /\ settings.hook[e.to] \in Hooks
      BY <1>4, <1>8, SettingsType DEF HookEdits
    <2>2. Choice(e.new) = Choice(settings.hook[e.to])
      BY <1>1, <1>3, <1>5, <1>6, <1>8, <2>1, MarkedType DEF EditShape
    <2>3. asked' = asked
      BY <1>3, <1>8 DEF Asking
    <2> QED
      BY <1>1, <1>2, <1>8, <2>2, <2>3
  <1>9. CASE e.kind = "update"
    <2>1. e.to \in Dests /\ e.new \in Hooks /\ settings.hook[e.to] \in Hooks
      BY <1>4, <1>9, SettingsType DEF HookEdits
    <2>2. e.new.on = settings.hook[e.to].on /\ e.new.made = settings.hook[e.to].made
      <3>1. e.new.on = settings.hook[e.to].on
        BY <1>3, <1>5, <1>9 DEF EditFresh
      <3>2. e.new.made /\ settings.hook[e.to].made /\ e.new.made \in BOOLEAN /\ settings.hook[e.to].made \in BOOLEAN
        BY <1>1, <1>3, <1>5, <1>9, <2>1 DEF EditShape, Hooks
      <3> QED
        BY <3>1, <3>2
    <2>3. asked' = [asked EXCEPT !.hook[e.to].wants = e.new.wants]
      BY <1>3, <1>9 DEF Asking
    <2>4. asked.hook[e.to] = Choice(settings.hook[e.to])
      BY <1>2, <2>1
    <2>5. asked'.rest = asked.rest /\ \A d \in Dests : asked'.hook[d] =
             IF d = e.to THEN [asked.hook[d] EXCEPT !.wants = e.new.wants] ELSE asked.hook[d]
      BY <1>3, <2>1, <2>3 DEF Wishes
    <2>6. [Choice(settings.hook[e.to]) EXCEPT !.wants = e.new.wants] = Choice(e.new)
      BY <2>2 DEF Choice
    <2>7. asked'.hook[e.to] = Choice(e.new) /\ settings'.hook[e.to] = e.new
      BY <1>1, <1>9, <2>1, <2>4, <2>5, <2>6
    <2>8. \A d \in Dests \ {e.to} : Choice(settings'.hook[d]) = asked'.hook[d]
      BY <1>1, <1>2, <2>5
    <2>9. settings'.rest = asked'.rest
      BY <1>1, <1>2, <1>9, <2>5
    <2> QED
      BY <2>7, <2>8, <2>9
  <1>10. CASE e.kind \notin {"rest", "mark", "update"}
    <2>1. asked' = [asked EXCEPT !.hook[e.to] = Choice(e.new)]
      BY <1>3, <1>10 DEF Asking
    <2>2. e.to \in Dests
      BY <1>4, <1>10 DEF HookEdits
    <2>3. asked'.rest = asked.rest /\ \A d \in Dests : asked'.hook[d] = IF d = e.to THEN Choice(e.new) ELSE asked.hook[d]
      BY <1>3, <2>1, <2>2 DEF Wishes
    <2> QED
      BY <1>1, <1>2, <1>10, <2>3
  <1> QED
    BY <1>7, <1>8, <1>9, <1>10

(* what a saved change of another destination, or of the rest, leaves *)
LEMMA CommitEdits ==
    ASSUME HookIInv, NEW t \in Threads, Commit(t), post' \in [Threads -> Posts],
           \A u \in Threads \ {t} : post'[u] = post[u], UNCHANGED minted
    PROVE  /\ EditsRight' /\ \A d \in Dests : Unborn(d)' => Unborn(d)
           /\ edit[t].kind = "create" => \A d \in Dests : Unborn(d)' => d # edit[t].to
  <1>1. \A u \in Threads : edit'[u] = IF u = t THEN NoEdit ELSE edit[u]
    BY CommitTypes
  <1>2. NoEdit.kind = "none" /\ NoEdit.at = "none"
    BY DEF NoEdit
  <1>3. EditsRight'
    <2> SUFFICES ASSUME NEW u \in Threads
                 PROVE  EditShape(edit'[u], post'[u], minted) /\ (~overlaid' => EditFresh(edit[u])')
      BY DEF EditsRight
    <2>1. CASE u = t
      BY <1>1, <1>2, <2>1 DEF EditFresh, EditShape
    <2>2. CASE u # t
      <3>1. EditShape(edit[u], post[u], minted)
        BY DEF HookIInv, EditsRight
      <3>2. ~overlaid' => ~(edit[u].at = "save" /\ edit[u].kind # "rest")
        BY <2>2, CommitFresh
      <3> QED
        BY <1>1, <2>2, <3>1, <3>2 DEF EditFresh
    <2> QED
      BY <2>1, <2>2
  <1>4. \A d \in Dests : Unborn(d)' => Unborn(d)
    BY <1>1, <1>2 DEF Unborn
  <1>5. ASSUME edit[t].kind = "create" PROVE \A d \in Dests : Unborn(d)' => d # edit[t].to
    <2>1. edit[t].to \in minted /\ editing = t
      BY <1>5 DEF Commit, HookIInv, EditsRight, EditShape, LocksRight
    <2>2. \A u \in Threads \ {t} : edit[u].kind # "create"
      <3> SUFFICES ASSUME NEW u \in Threads, u # t, edit[u].kind = "create" PROVE FALSE
        OBVIOUS
      <3>1. edit[u] \in HookEdits
        BY EditKinds DEF HookIInv, NoEdit
      <3>2. edit[u].at = "save"
        BY <3>1 DEF HookEdits, HookIInv, LocksRight
      <3> QED
        BY <2>1, <3>2 DEF HookIInv, LocksRight
    <2> QED
      BY <1>1, <1>2, <2>1, <2>2 DEF Unborn
  <1> QED
    BY <1>3, <1>4, <1>5

LEMMA SaveRequestKeeps == ASSUME HookIInv, NEW t \in Threads, SaveRequest(t) PROVE HookIInv'
  <1> DEFINE e == edit[t]
  <1>0. Commit(t) /\ e.kind # "mark" /\ e.at = "save"
        /\ UNCHANGED <<minted, tasks, post, sending, failing, alarms, crashed, requests>>
    BY DEF SaveRequest, Commit
  <1>1. settings' \in SettingsFiles /\ asked' \in Wishes /\ overlaid' \in BOOLEAN
        /\ editing' \in Threads \cup {"free"} /\ edit' \in [Threads -> {NoEdit} \cup RestEdits \cup HookEdits]
        /\ \A u \in Threads : edit'[u] = IF u = t THEN NoEdit ELSE edit[u]
    BY <1>0, CommitTypes
  <1>2. HookTypes'
    BY <1>0, <1>1 DEF HookIInv, HookTypes
  <1>3. editing' = (IF editing = t THEN "free" ELSE editing) /\ NoEdit.kind = "none" /\ NoEdit.at = "none"
    BY <1>0 DEF Commit, NoEdit
  <1>4. LocksRight'
    BY <1>0, <1>1, <1>3 DEF HookIInv, LocksRight
  <1>5. EditsRight' /\ (\A d \in Dests : Unborn(d)' => Unborn(d)) 
        /\ (e.kind = "create" => \A d \in Dests : Unborn(d)' => d # e.to)
    <2>1. post' \in [Threads -> Posts]
      BY <1>2 DEF HookTypes
    <2> QED
      BY <1>0, <2>1, CommitEdits
  <1>6. AsAsked'
    BY <1>0, CommitAsked
  <1>7. Told'
    <2>1. ~overlaid' => ~overlaid
      BY <1>0, CommitFresh
    <2> QED
      BY <1>0, <2>1 DEF HookIInv, Told, Rings
  <1>8. ASSUME ~overlaid' PROVE
          /\ ~overlaid
          /\ \A d \in Dests : settings'.hook[d] = IF e.kind # "rest" /\ d = e.to THEN e.new ELSE settings.hook[d]
          /\ EditShape(e, post[t], minted) /\ e.seen = settings
    BY <1>0, <1>8, CommitFresh DEF HookIInv, EditsRight
  <1>9. e.kind # "rest" => e \in HookEdits
    BY <1>0, CommitTypes
  <1> HIDE DEF e
  <1>10. BirthRight'
    <2> SUFFICES ASSUME ~overlaid', NEW d \in Dests, Unborn(d)'
                 PROVE  /\ ~settings'.hook[d].made /\ failing[d] = 0
                        /\ \A u \in Threads : post[u].at # "idle" => post[u].to # d
      BY <1>0 DEF BirthRight
    <2>1. ~settings.hook[d].made /\ failing[d] = 0 /\ \A u \in Threads : post[u].at # "idle" => post[u].to # d
      BY <1>5, <1>8 DEF HookIInv, BirthRight
    <2>2. CASE e.kind # "rest" /\ d = e.to
      <3>1. e.kind \in {"create", "delete", "enable", "update", "mark"}
        BY <1>9, <2>2 DEF HookEdits
      <3>2. e.kind = "delete"
        BY <1>0, <1>5, <1>8, <2>1, <2>2, <3>1 DEF EditShape
      <3> QED
        BY <1>0, <1>8, <2>1, <2>2, <3>2 DEF EditShape
    <2> QED
      BY <1>8, <2>1, <2>2
  <1>11. Counted'
    <2> SUFFICES ASSUME ~overlaid', NEW d \in Dests, settings'.hook[d].made
                 PROVE  /\ settings'.hook[d].failures = failing[d]
                        /\ settings'.hook[d].degraded <=> failing[d] >= DegradedAfter
      BY <1>0 DEF Counted
    <2>1. settings.hook[d].made => /\ settings.hook[d].failures = failing[d]
                                   /\ settings.hook[d].degraded <=> failing[d] >= DegradedAfter
      BY <1>8 DEF HookIInv, Counted
    <2>2. CASE e.kind # "rest" /\ d = e.to
      <3>1. e.kind \in {"create", "delete", "enable", "update", "mark"}
        BY <1>9, <2>2 DEF HookEdits
      <3>2. CASE e.kind = "create"
        <4>1. failing[d] = 0
          BY <1>8, <2>2, <3>2 DEF HookIInv, BirthRight, Unborn, e
        <4>2. settings'.hook[d].failures = 0 /\ ~settings'.hook[d].degraded
          BY <1>0, <1>8, <2>2, <3>2 DEF EditShape
        <4> QED
          BY <4>1, <4>2, HookNumbers
      <3>3. CASE e.kind \in {"enable", "update"}
        BY <1>0, <1>8, <2>1, <2>2, <3>3 DEF EditShape
      <3>4. e.kind # "delete"
        BY <1>0, <1>8, <2>2 DEF EditShape
      <3> QED
        BY <1>0, <3>1, <3>2, <3>3, <3>4
    <2> QED
      BY <1>8, <2>1, <2>2
  <1> QED
    BY <1>2, <1>4, <1>5, <1>6, <1>7, <1>10, <1>11 DEF HookIInv

LEMMA SaveMarkKeeps == ASSUME HookIInv, NEW t \in Threads, SaveMark(t) PROVE HookIInv'
  <1> DEFINE e == edit[t]
             d == post[t].to
             ok == post[t].ok
             bell == DegradedNow(e.seen.hook[d], ok)
  <1>0. Commit(t) /\ e.kind = "mark" /\ e.at = "save"
        /\ post' = [post EXCEPT ![t].at = "log", ![t].alarm = bell]
        /\ failing' = [failing EXCEPT ![d] = IF ok THEN 0 ELSE @ + 1]
        /\ alarms' = [alarms EXCEPT ![d] = IF ok THEN 0 ELSE @]
        /\ UNCHANGED <<minted, tasks, sending, crashed, requests>>
    BY DEF SaveMark, Commit
  <1>1. settings' \in SettingsFiles /\ asked' \in Wishes /\ overlaid' \in BOOLEAN
        /\ editing' \in Threads \cup {"free"} /\ edit' \in [Threads -> {NoEdit} \cup RestEdits \cup HookEdits]
        /\ \A u \in Threads : edit'[u] = IF u = t THEN NoEdit ELSE edit[u]
    BY <1>0, CommitTypes
  <1>2. post[t].at = "mark" /\ e.to = d /\ e \in HookEdits
    BY <1>0, CommitTypes DEF HookIInv, LocksRight
  <1>3. d \in Dests /\ ok \in BOOLEAN /\ bell \in BOOLEAN /\ post[t] \in Posts /\ post \in [Threads -> Posts]
    BY <1>2 DEF HookIInv, HookTypes, HookEdits, Posts, DegradedNow
  <1>4. e.seen.hook[d].made /\ e.new = Marked(e.seen.hook[d], ok)
    BY <1>0, <1>2 DEF HookIInv, EditsRight, EditShape
  <1> HIDE DEF bell
  <1>5. post' \in [Threads -> Posts] /\ post'[t].at = "log" /\ post'[t].alarm = bell /\ post'[t].to = d
        /\ \A u \in Threads \ {t} : post'[u] = post[u]
    BY <1>0, <1>3 DEF Posts
  <1>6. \A x \in Dests :
          /\ failing'[x] = IF x = d THEN (IF ok THEN 0 ELSE failing[x] + 1) ELSE failing[x]
          /\ alarms'[x] = IF x = d THEN (IF ok THEN 0 ELSE alarms[x]) ELSE alarms[x]
    BY <1>0, <1>3 DEF HookIInv, HookTypes
  <1>7. HookTypes'
    <2>1. failing' \in [Dests -> Nat] /\ alarms' \in [Dests -> Nat]
      BY <1>0, <1>3 DEF HookIInv, HookTypes
    <2>2. \A u \in Threads : post'[u].at # "idle" => post'[u].to \in Dests
      BY <1>3, <1>5 DEF HookIInv, HookTypes
    <2> QED
      BY <1>0, <1>1, <1>5, <2>1, <2>2 DEF HookIInv, HookTypes
  <1>8. editing' = (IF editing = t THEN "free" ELSE editing) /\ NoEdit.kind = "none" /\ NoEdit.at = "none"
    BY <1>0 DEF Commit, NoEdit
  <1>9. LocksRight'
    <2>1. sending[d] = t
      BY <1>2 DEF HookIInv, LocksRight
    <2> QED
      BY <1>0, <1>1, <1>5, <1>8, <2>1 DEF HookIInv, LocksRight
  <1>10. EditsRight' /\ (\A x \in Dests : Unborn(x)' => Unborn(x))
    BY <1>0, <1>5, CommitEdits
  <1>11. AsAsked'
    BY <1>0, CommitAsked
  <1>12. ASSUME ~overlaid' PROVE
          /\ ~overlaid /\ settings.hook[d] \in Hooks /\ settings.hook[d].made
          /\ \A x \in Dests : settings'.hook[x] = IF x = d THEN Marked(settings.hook[d], ok) ELSE settings.hook[x]
          /\ bell = DegradedNow(settings.hook[d], ok)
    BY <1>0, <1>2, <1>3, <1>4, <1>12, CommitFresh, SettingsType DEF bell
  <1>13. ASSUME ~overlaid' PROVE
          /\ settings.hook[d].failures = failing[d] /\ (settings.hook[d].degraded <=> failing[d] >= DegradedAfter)
          /\ settings.hook[d].degraded \in BOOLEAN /\ failing[d] \in Nat
    BY <1>3, <1>12, <1>13 DEF HookIInv, Counted, Hooks, HookTypes
  <1>14. ASSUME ~overlaid' PROVE
          /\ Marked(settings.hook[d], ok).failures = failing'[d]
          /\ (Marked(settings.hook[d], ok).degraded <=> failing'[d] >= DegradedAfter)
          /\ bell <=> failing[d] < DegradedAfter /\ failing'[d] >= DegradedAfter
    <2> DEFINE h == settings.hook[d]
               m == Marked(h, ok)
    <2>1. m.failures = (IF ok THEN 0 ELSE h.failures + 1)
          /\ (m.degraded <=> ~ok /\ (h.degraded \/ h.failures + 1 >= DegradedAfter))
      BY <1>3, <1>12, <1>14, MarkedType
    <2>2. failing'[d] = IF ok THEN 0 ELSE failing[d] + 1
      BY <1>3, <1>6
    <2>3. bell <=> ~ok /\ ~h.degraded /\ m.degraded
      BY <1>12, <1>14 DEF DegradedNow
    <2>4. h.failures = failing[d] /\ (h.degraded <=> failing[d] >= DegradedAfter) /\ failing[d] \in Nat
      BY <1>13, <1>14
    <2> HIDE DEF h, m
    <2>5. m.failures = failing'[d] /\ (m.degraded <=> failing'[d] >= DegradedAfter)
          /\ (bell <=> failing[d] < DegradedAfter /\ failing'[d] >= DegradedAfter)
      <3>1. CASE ok
        BY <2>1, <2>2, <2>3, <2>4, <3>1, HookNumbers
      <3>2. CASE ~ok
        BY <2>1, <2>2, <2>3, <2>4, <3>2, HookNumbers
      <3> QED
        BY <3>1, <3>2
    <2> QED
      BY <2>5 DEF h, m
  <1> HIDE DEF e, d, ok
  <1>15. BirthRight'
    <2> SUFFICES ASSUME ~overlaid', NEW x \in Dests, Unborn(x)'
                 PROVE  /\ ~settings'.hook[x].made /\ failing'[x] = 0
                        /\ \A u \in Threads : post'[u].at # "idle" => post'[u].to # x
      BY DEF BirthRight
    <2>1. ~settings.hook[x].made /\ failing[x] = 0 /\ \A u \in Threads : post[u].at # "idle" => post[u].to # x
      BY <1>10, <1>12 DEF HookIInv, BirthRight
    <2>2. x # d
      BY <1>12, <2>1
    <2> QED
      BY <1>5, <1>6, <1>12, <2>1, <2>2
  <1>16. Counted'
    BY <1>3, <1>6, <1>12, <1>14 DEF HookIInv, Counted
  <1>17. Told'
    <2> SUFFICES ASSUME ~overlaid', NEW x \in Dests
                 PROVE  /\ alarms'[x] <= 1 /\ (alarms'[x] = 1 => ~Rings(x)')
                        /\ alarms'[x] = 1 \/ Rings(x)' => failing'[x] >= DegradedAfter
                        /\ ~crashed /\ failing'[x] >= DegradedAfter => alarms'[x] = 1 \/ Rings(x)'
      BY <1>0 DEF Told
    <2>1. /\ alarms[x] <= 1 /\ (alarms[x] = 1 => ~Rings(x))
          /\ alarms[x] = 1 \/ Rings(x) => failing[x] >= DegradedAfter
          /\ ~crashed /\ failing[x] >= DegradedAfter => alarms[x] = 1 \/ Rings(x)
          /\ alarms[x] \in Nat /\ failing[x] \in Nat
      BY <1>12 DEF HookIInv, Told, HookTypes
    <2>2. CASE x # d
      <3>1. Rings(x)' <=> Rings(x)
        BY <1>5, <2>2 DEF Rings, d
      <3> QED
        BY <1>6, <2>1, <2>2, <3>1
    <2>3. CASE x = d
      <3>1. ~Rings(d)
        <4> SUFFICES ASSUME NEW u \in Threads, post[u].to = d, post[u].alarm PROVE FALSE
          BY DEF Rings
        <4>1. post[u].at = "log" /\ sending[d] = u /\ sending[d] = t
          BY <1>2 DEF HookIInv, LocksRight, d
        <4> QED
          BY <1>2, <4>1
      <3>2. Rings(x)' <=> bell
        BY <1>5, <2>3, <3>1 DEF Rings
      <3>3. CASE ok
        <4>1. failing'[x] = 0 /\ alarms'[x] = 0
          BY <1>6, <2>3, <3>3
        <4> QED
          BY <1>14, <2>3, <3>2, <4>1, HookNumbers
      <3>4. CASE ~ok
        <4>1. failing'[x] = failing[x] + 1 /\ alarms'[x] = alarms[x]
          BY <1>6, <2>3, <3>4
        <4> QED
          BY <1>14, <2>1, <2>3, <3>1, <3>2, <4>1, HookNumbers
      <3> QED
        BY <3>3, <3>4
    <2> QED
      BY <2>2, <2>3
  <1> QED
    BY <1>7, <1>9, <1>10, <1>11, <1>15, <1>16, <1>17 DEF HookIInv

-----------------------------------------------------------------------------
(* Deliveries.  p is the delivery of thread t after a step that leaves the *)
(* file, the changes and the counters as they are.                         *)
LEMMA DeliveryKeeps ==
    ASSUME HookIInv, NEW t \in Threads, NEW p \in Posts, post' = [post EXCEPT ![t] = p],
           UNCHANGED <<minted, settings, editing, edit, asked, overlaid, failing, crashed, requests>>,
           tasks' \in Seq(DeliveryTasks), sending' \in [Dests -> Threads \cup {"free"}],
           alarms' \in [Dests -> Nat],
           p.at # "idle" => p.to \in Dests /\ ((post[t].at # "idle" /\ p.to = post[t].to) \/ settings.hook[p.to].made),
           edit[t].kind = "none", p.alarm = FALSE,
           \A d \in Dests : sending'[d] # sending[d] => sending[d] \in {"free", t},
           p.at \in {"send", "mark", "log"} => sending'[p.to] = t,
           \A d \in Dests : alarms'[d] = IF d = post[t].to /\ post[t].alarm THEN alarms[d] + 1 ELSE alarms[d]
    PROVE  HookIInv'
  <1>1. \A u \in Threads : post'[u] = IF u = t THEN p ELSE post[u]
    BY DEF HookIInv, HookTypes
  <1>2. HookTypes'
    BY <1>1 DEF HookIInv, HookTypes
  <1>3. LocksRight'
    <2> SUFFICES ASSUME NEW u \in Threads
          PROVE /\ edit[u].at = "save" /\ edit[u].kind # "rest" => editing = u
                /\ post'[u].at \in {"send", "mark", "log"} => sending'[post'[u].to] = u
                /\ post'[u].alarm => post'[u].at = "log"
                /\ edit[u].kind = "mark" => post'[u].at = "mark" /\ edit[u].to = post'[u].to
                /\ edit[u].kind \notin {"none", "mark"} => post'[u].at = "idle"
                /\ edit[u].at = "clean" => edit[u].kind = "update"
      BY DEF LocksRight
    <2>1. CASE u = t
      BY <1>1, <2>1 DEF HookIInv, LocksRight
    <2>2. CASE u # t
      <3>1. post[u].at \in {"send", "mark", "log"} => post[u].to \in Dests /\ sending[post[u].to] = u
        BY DEF HookIInv, LocksRight, HookTypes
      <3>2. u # "free"
        BY HookNumbers
      <3> QED
        BY <1>1, <2>2, <3>1, <3>2 DEF HookIInv, LocksRight
    <2> QED
      BY <2>1, <2>2
  <1>4. EditsRight'
    <2>1. edit[t] = NoEdit /\ NoEdit.at = "none"
      BY EditKinds DEF HookIInv
    <2>2. \A u \in Threads : EditShape(edit[u], post'[u], minted)
      BY <1>1, <2>1 DEF HookIInv, EditsRight, EditShape
    <2> QED
      BY <2>2 DEF HookIInv, EditsRight, EditFresh
  <1>5. AsAsked' /\ Counted'
    BY DEF HookIInv, AsAsked, Counted
  <1>6. BirthRight'
    BY <1>1 DEF HookIInv, BirthRight, Unborn
  <1>7. Told'
    <2> SUFFICES ASSUME ~overlaid, NEW d \in Dests
                 PROVE  /\ alarms'[d] <= 1 /\ (alarms'[d] = 1 => ~Rings(d)')
                        /\ alarms'[d] = 1 \/ Rings(d)' => failing[d] >= DegradedAfter
                        /\ ~crashed /\ failing[d] >= DegradedAfter => alarms'[d] = 1 \/ Rings(d)'
      BY DEF Told
    <2>1. /\ alarms[d] <= 1 /\ (alarms[d] = 1 => ~Rings(d)) /\ alarms[d] \in Nat
          /\ alarms[d] = 1 \/ Rings(d) => failing[d] >= DegradedAfter
          /\ ~crashed /\ failing[d] >= DegradedAfter => alarms[d] = 1 \/ Rings(d)
      BY DEF HookIInv, Told, HookTypes
    <2>2. CASE d = post[t].to /\ post[t].alarm
      <3>1. Rings(d) /\ alarms[d] = 0
        BY <2>1, <2>2 DEF Rings
      <3>2. ~Rings(d)'
        <4> SUFFICES ASSUME NEW u \in Threads, post'[u].to = d, post'[u].alarm PROVE FALSE
          BY DEF Rings
        <4>1. u # t /\ post[u].to = d /\ post[u].alarm
          BY <1>1
        <4>2. sending[d] = u /\ sending[d] = t
          BY <2>2, <4>1 DEF HookIInv, LocksRight
        <4> QED
          BY <4>1, <4>2
      <3> QED
        BY <2>1, <2>2, <3>1, <3>2
    <2>3. CASE ~(d = post[t].to /\ post[t].alarm)
      <3>1. Rings(d)' <=> Rings(d)
        BY <1>1, <2>3 DEF Rings
      <3> QED
        BY <2>1, <2>3, <3>1
    <2> QED
      BY <2>2, <2>3
  <1> QED
    BY <1>2, <1>3, <1>4, <1>5, <1>6, <1>7 DEF HookIInv

Begun(d, c, test, l) ==
  [NoPost EXCEPT !.at = "lock", !.to = d, !.class = c, !.test = test, !.left = l]
LEMMA BegunType ==
    ASSUME NEW d \in Dests, NEW c \in Classes \cup {"test"}, NEW test \in BOOLEAN, NEW l \in Int
    PROVE  /\ Begun(d, c, test, l) \in Posts /\ Begun(d, c, test, l).at = "lock"
           /\ Begun(d, c, test, l).to = d /\ Begun(d, c, test, l).alarm = FALSE
  <1>1. NoPost \in Posts /\ NoPost.alarm = FALSE
    BY NoPostType DEF NoPost
  <1> QED
    BY <1>1 DEF Posts, Begun

LEMMA StillAlarms ==
    ASSUME HookIInv, NEW t \in Threads, ~post[t].alarm, alarms' = alarms
    PROVE  \A d \in Dests : alarms'[d] = IF d = post[t].to /\ post[t].alarm THEN alarms[d] + 1 ELSE alarms[d]
  OBVIOUS

LEMMA NotifyKeeps == ASSUME HookIInv, NEW c \in Classes, Notify(c) PROVE HookIInv'
  <1> DEFINE due == {d \in Dests : Matches(settings.hook[d], c)}
  <1>1. UNCHANGED <<minted, settings, editing, edit, post, sending, asked, overlaid, failing, alarms, crashed, requests>>
        /\ Enqueue(c)
    BY DEF Notify
  <1> PICK order \in [1..Cardinality(due) -> due] :
             tasks' = tasks \o [i \in DOMAIN order |-> [to |-> order[i], class |-> c]]
    BY <1>1 DEF Enqueue
  <1>2. due \subseteq Dests
    OBVIOUS
  <1>3. IsFiniteSet(due)
    BY <1>2, HookBounds, FS_Subset
  <1>4. Cardinality(due) \in Nat
    BY <1>3, FS_CardinalityType
  <1> DEFINE n == Cardinality(due)
  <1>a. n \in Nat
    BY <1>4
  <1> DEFINE new == [i \in DOMAIN order |-> [to |-> order[i], class |-> c]]
  <1>5. DOMAIN order = 1..n /\ \A i \in 1..n : order[i] \in Dests
    BY <1>2
  <1> HIDE DEF due, n
  <1>6. new \in [1..n -> DeliveryTasks]
    BY <1>5 DEF DeliveryTasks
  <1> HIDE DEF new
  <1>7. new \in Seq(DeliveryTasks)
    BY <1>a, <1>6
  <1>8. tasks \in Seq(DeliveryTasks) /\ tasks' = tasks \o new
    BY DEF HookIInv, HookTypes, new
  <1>9. tasks' \in Seq(DeliveryTasks)
    BY <1>7, <1>8, ConcatProperties
  <1>10. HookTypes'
    BY <1>1, <1>9 DEF HookIInv, HookTypes
  <1> QED
    BY <1>1, <1>10 DEF HookIInv, LocksRight, EditsRight, EditFresh, AsAsked, BirthRight, Unborn, Counted, Told, Rings

LEMMA TakeKeeps == ASSUME HookIInv, NEW t \in Threads, Take(t) PROVE HookIInv'
  <1> DEFINE k == Head(tasks)
  <1>0. UNCHANGED <<minted, settings, editing, edit, sending, asked, overlaid, failing, alarms, crashed, requests>>
        /\ tasks' = Tail(tasks) /\ tasks # <<>> /\ edit[t].kind = "none" /\ post[t].at = "idle"
    BY DEF Take, FreeThread
  <1>1. tasks \in Seq(DeliveryTasks) /\ post \in [Threads -> Posts]
        /\ sending \in [Dests -> Threads \cup {"free"}] /\ alarms \in [Dests -> Nat]
    BY DEF HookIInv, HookTypes
  <1>2. k \in DeliveryTasks /\ tasks' \in Seq(DeliveryTasks)
    BY <1>0, <1>1
  <1>3. ~post[t].alarm
    BY <1>0 DEF HookIInv, LocksRight
  <1>4. CASE Matches(settings.hook[k.to], k.class)
    <2> DEFINE p == Begun(k.to, k.class, FALSE, Retries)
    <2>1. post' = [post EXCEPT ![t] = p]
      BY <1>4 DEF Take, Start, Begun
    <2>2. k.to \in Dests /\ k.class \in Classes \cup {"test"}
      BY <1>2 DEF DeliveryTasks
    <2> HIDE DEF k
    <2>3. p \in Posts /\ p.at = "lock" /\ p.to = k.to /\ p.alarm = FALSE
      <3>1. Retries \in Int
        BY HookNumbers
      <3>2. \A d \in Dests, c \in Classes \cup {"test"} :
              LET b == Begun(d, c, FALSE, Retries)
              IN b \in Posts /\ b.at = "lock" /\ b.to = d /\ b.alarm = FALSE
        <4>1. NoPost \in Posts /\ NoPost.alarm = FALSE
          BY NoPostType DEF NoPost
        <4> QED
          BY <3>1, <4>1 DEF Posts, Begun
      <3> QED
        BY <2>2, <3>2
    <2>4. settings.hook[k.to].made
      BY <1>4 DEF Matches
    <2> HIDE DEF p
    <2>5. \A d \in Dests : alarms'[d] = IF d = post[t].to /\ post[t].alarm THEN alarms[d] + 1 ELSE alarms[d]
      BY <1>0, <1>3, StillAlarms
    <2> QED
      BY <1>0, <1>1, <1>2, <2>1, <2>2, <2>3, <2>4, <2>5, DeliveryKeeps
  <1>5. CASE ~Matches(settings.hook[k.to], k.class)
    <2>1. post' = post
      BY <1>5 DEF Take
    <2>2. HookTypes'
      BY <1>0, <1>2, <2>1 DEF HookIInv, HookTypes
    <2> QED
      BY <1>0, <2>1, <2>2 DEF HookIInv, LocksRight, EditsRight, EditFresh, AsAsked, BirthRight, Unborn, Counted, Told, Rings
  <1> QED
    BY <1>4, <1>5

LEMMA SendTestKeeps == ASSUME HookIInv, NEW t \in Requests, NEW d \in Dests, SendTest(t, d) PROVE HookIInv'
  <1> DEFINE p == Begun(d, "test", TRUE, 0)
  <1>0. UNCHANGED <<minted, settings, editing, edit, tasks, sending, asked, overlaid, failing, alarms, crashed, requests>>
        /\ edit[t].kind = "none" /\ post[t].at = "idle" /\ settings.hook[d].made /\ t \in Threads
    BY DEF SendTest, FreeThread, Threads
  <1>1. tasks \in Seq(DeliveryTasks) /\ post \in [Threads -> Posts]
        /\ sending \in [Dests -> Threads \cup {"free"}] /\ alarms \in [Dests -> Nat]
    BY DEF HookIInv, HookTypes
  <1>2. post' = [post EXCEPT ![t] = p]
    BY DEF SendTest, Start, Begun
  <1>3. p \in Posts /\ p.at = "lock" /\ p.to = d /\ p.alarm = FALSE
    <2>1. 0 \in Int /\ TRUE \in BOOLEAN /\ "test" \in Classes \cup {"test"}
      OBVIOUS
    <2> QED
      BY <2>1, BegunType
  <1> HIDE DEF p
  <1>4. \A x \in Dests : alarms'[x] = IF x = post[t].to /\ post[t].alarm THEN alarms[x] + 1 ELSE alarms[x]
    BY <1>0, StillAlarms DEF HookIInv, LocksRight
  <1> QED
    BY <1>0, <1>1, <1>2, <1>3, <1>4, DeliveryKeeps

LEMMA RecheckKeeps == ASSUME HookIInv, NEW t \in Threads, Recheck(t) PROVE HookIInv'
  <1> DEFINE d == post[t].to
  <1>0. UNCHANGED <<minted, settings, editing, edit, tasks, asked, overlaid, failing, alarms, crashed, requests>>
        /\ post[t].at = "lock" /\ sending[d] = "free"
    BY DEF Recheck, Unoccupied
  <1>1. tasks \in Seq(DeliveryTasks) /\ post \in [Threads -> Posts] /\ post[t] \in Posts /\ d \in Dests
        /\ sending \in [Dests -> Threads \cup {"free"}] /\ alarms \in [Dests -> Nat]
    BY <1>0 DEF HookIInv, HookTypes
  <1>2. edit[t].kind = "none" /\ ~post[t].alarm
    <2>1. edit[t].kind # "mark" /\ ~(edit[t].kind \notin {"none", "mark"}) /\ ~post[t].alarm
      BY <1>0 DEF HookIInv, LocksRight
    <2> QED
      BY <2>1
  <1>3. \A x \in Dests : alarms'[x] = IF x = post[t].to /\ post[t].alarm THEN alarms[x] + 1 ELSE alarms[x]
    BY <1>0, <1>2, StillAlarms
  <1>4. CASE post[t].test \/ Matches(settings.hook[d], post[t].class)
    <2> DEFINE p == [post[t] EXCEPT !.at = "send"]
    <2>1. sending' = [sending EXCEPT ![d] = t] /\ post' = [post EXCEPT ![t] = p]
      BY <1>1, <1>4 DEF Recheck
    <2>2. p \in Posts /\ p.at = "send" /\ p.to = d /\ p.alarm = post[t].alarm /\ post[t].alarm \in BOOLEAN
      BY <1>1 DEF Posts
    <2> HIDE DEF p, d
    <2>3. p.alarm = FALSE
      BY <1>2, <2>2
    <2>4. sending' \in [Dests -> Threads \cup {"free"}] /\ sending'[d] = t
          /\ \A x \in Dests : sending'[x] # sending[x] => sending[x] \in {"free", t}
      BY <1>0, <1>1, <2>1
    <2>5. p.to = post[t].to /\ post[t].at # "idle"
      BY <1>0, <2>2 DEF d
    <2> QED
      BY <1>0, <1>1, <1>2, <1>3, <2>1, <2>2, <2>3, <2>4, <2>5, DeliveryKeeps
  <1>5. CASE ~(post[t].test \/ Matches(settings.hook[d], post[t].class))
    <2>1. post' = [post EXCEPT ![t] = NoPost] /\ sending' = sending
      BY <1>5 DEF Recheck
    <2>2. NoPost.alarm = FALSE
      BY DEF NoPost
    <2> QED
      BY <1>0, <1>1, <1>2, <1>3, <2>1, <2>2, NoPostType, DeliveryKeeps
  <1> QED
    BY <1>4, <1>5

LEMMA PostAttemptKeeps == ASSUME HookIInv, NEW t \in Threads, NEW o \in Outcomes, PostAttempt(t, o) PROVE HookIInv'
  <1> DEFINE ok == o = "delivered"
             again == WillRetry(o, post[t].left)
             p == [post[t] EXCEPT !.at = "mark", !.ok = ok, !.again = again]
  <1>0. UNCHANGED <<minted, settings, editing, edit, tasks, sending, asked, overlaid, failing, alarms, crashed, requests>>
        /\ post[t].at = "send"
    BY DEF PostAttempt
  <1>1. tasks \in Seq(DeliveryTasks) /\ post \in [Threads -> Posts] /\ post[t] \in Posts /\ post[t].to \in Dests
        /\ sending \in [Dests -> Threads \cup {"free"}] /\ alarms \in [Dests -> Nat] /\ sending[post[t].to] = t
    BY <1>0 DEF HookIInv, HookTypes, LocksRight
  <1>2. edit[t].kind = "none" /\ ~post[t].alarm
    <2>1. edit[t].kind # "mark" /\ ~(edit[t].kind \notin {"none", "mark"}) /\ ~post[t].alarm
      BY <1>0 DEF HookIInv, LocksRight
    <2> QED
      BY <2>1
  <1>3. \A x \in Dests : alarms'[x] = IF x = post[t].to /\ post[t].alarm THEN alarms[x] + 1 ELSE alarms[x]
    BY <1>0, <1>2, StillAlarms
  <1>4. ok \in BOOLEAN /\ again \in BOOLEAN
    BY DEF WillRetry
  <1>5. post' = [post EXCEPT ![t] = p]
    BY <1>1 DEF PostAttempt
  <1> HIDE DEF ok, again
  <1>6. p \in Posts /\ p.at = "mark" /\ p.to = post[t].to /\ p.alarm = post[t].alarm /\ post[t].alarm \in BOOLEAN
    BY <1>1, <1>4 DEF Posts
  <1> HIDE DEF p
  <1>7. p.alarm = FALSE
    BY <1>2, <1>6
  <1> QED
    BY <1>0, <1>1, <1>2, <1>3, <1>5, <1>6, <1>7, DeliveryKeeps

LEMMA MarkKeeps == ASSUME HookIInv, NEW t \in Threads, Mark(t) PROVE HookIInv'
  <1> DEFINE d == post[t].to
             h == settings.hook[d]
  <1>0. UNCHANGED <<minted, settings, tasks, sending, asked, overlaid, failing, alarms, crashed, requests>>
        /\ post[t].at = "mark" /\ edit[t].kind = "none"
    BY DEF Mark
  <1>1. tasks \in Seq(DeliveryTasks) /\ post \in [Threads -> Posts] /\ post[t] \in Posts /\ d \in Dests
        /\ sending \in [Dests -> Threads \cup {"free"}] /\ alarms \in [Dests -> Nat] /\ sending[d] = t
        /\ overlaid \in BOOLEAN /\ minted \subseteq Dests /\ requests \in 0..MaxRequests
    BY <1>0 DEF HookIInv, HookTypes, LocksRight
  <1>2. post[t].ok \in BOOLEAN /\ post[t].alarm \in BOOLEAN /\ h \in Hooks
    BY <1>1, SettingsType DEF Posts
  <1>3. CASE h.made
    <2> DEFINE n == Marked(h, post[t].ok)
               e == [kind |-> "mark", to |-> d, at |-> "save", seen |-> settings, new |-> n]
    <2>1. editing = "free" /\ editing' = t /\ edit' = [edit EXCEPT ![t] = e] /\ post' = post
      BY <1>3 DEF Mark, BeginLocked, BeginEdit
    <2>2. n \in Hooks
      BY <1>2, MarkedType
    <2> HIDE DEF n
    <2>3. e \in HookEdits /\ e.kind = "mark" /\ e.to = d /\ e.at = "save" /\ e.seen = settings /\ e.new = n
      BY <1>1, <2>2, LockedEdit
    <2> HIDE DEF e
    <2>4. EditShape(e, post[t], minted')
      BY <1>3, <2>3 DEF EditShape, n
    <2> QED
      BY <1>0, <1>1, <2>1, <2>3, <2>4, LockedBegins
  <1>4. CASE ~h.made
    <2> DEFINE p == [post[t] EXCEPT !.at = "log"]
    <2>1. post' = [post EXCEPT ![t] = p] /\ UNCHANGED <<editing, edit>>
      BY <1>1, <1>4 DEF Mark
    <2>2. p \in Posts /\ p.at = "log" /\ p.to = d /\ p.alarm = post[t].alarm
      BY <1>1 DEF Posts
    <2> HIDE DEF p
    <2>3. ~post[t].alarm
      BY <1>0 DEF HookIInv, LocksRight
    <2>4. \A x \in Dests : alarms'[x] = IF x = post[t].to /\ post[t].alarm THEN alarms[x] + 1 ELSE alarms[x]
      BY <1>0, <2>3, StillAlarms
    <2>5. p.alarm = FALSE
      BY <1>2, <2>2, <2>3
    <2> QED
      BY <1>0, <1>1, <2>1, <2>2, <2>4, <2>5, DeliveryKeeps
  <1> QED
    BY <1>3, <1>4

LEMMA LogKeeps == ASSUME HookIInv, NEW t \in Threads, Log(t) PROVE HookIInv'
  <1> DEFINE d == post[t].to
  <1>0. UNCHANGED <<minted, settings, editing, edit, tasks, asked, overlaid, failing, crashed, requests>>
        /\ post[t].at = "log" /\ alarms' = [alarms EXCEPT ![d] = IF post[t].alarm THEN @ + 1 ELSE @]
    BY DEF Log
  <1>1. tasks \in Seq(DeliveryTasks) /\ post \in [Threads -> Posts] /\ post[t] \in Posts /\ d \in Dests
        /\ sending \in [Dests -> Threads \cup {"free"}] /\ alarms \in [Dests -> Nat] /\ sending[d] = t
    BY <1>0 DEF HookIInv, HookTypes, LocksRight
  <1>2. edit[t].kind = "none"
    <2>1. edit[t].kind # "mark" /\ ~(edit[t].kind \notin {"none", "mark"})
      BY <1>0 DEF HookIInv, LocksRight
    <2> QED
      BY <2>1
  <1>3. alarms' \in [Dests -> Nat]
        /\ \A x \in Dests : alarms'[x] = IF x = post[t].to /\ post[t].alarm THEN alarms[x] + 1 ELSE alarms[x]
    BY <1>0, <1>1
  <1>4. CASE post[t].again
    <2> DEFINE l == post[t].left - 1
               p == [post[t] EXCEPT !.at = "send", !.left = l, !.alarm = FALSE]
    <2>0. l \in Int
      BY <1>1 DEF Posts
    <2>1. post' = [post EXCEPT ![t] = p] /\ sending' = sending
      BY <1>1, <1>4 DEF Log
    <2> HIDE DEF l
    <2>2. p \in Posts /\ p.at = "send" /\ p.to = d /\ p.alarm = FALSE
      BY <1>1, <2>0 DEF Posts
    <2>3. p.to = post[t].to /\ post[t].at # "idle" /\ sending'[p.to] = t
      BY <1>0, <1>1, <2>1, <2>2
    <2> HIDE DEF p, d
    <2> QED
      BY <1>0, <1>1, <1>2, <1>3, <2>1, <2>2, <2>3, DeliveryKeeps
  <1>5. CASE ~post[t].again
    <2>1. post' = [post EXCEPT ![t] = NoPost] /\ sending' = [sending EXCEPT ![d] = "free"]
      BY <1>5 DEF Log, Release
    <2>2. NoPost.alarm = FALSE
      BY DEF NoPost
    <2>3. sending' \in [Dests -> Threads \cup {"free"}]
          /\ \A x \in Dests : sending'[x] # sending[x] => sending[x] \in {"free", t}
      BY <1>1, <2>1
    <2> QED
      BY <1>0, <1>1, <1>2, <1>3, <2>1, <2>2, <2>3, NoPostType, DeliveryKeeps
  <1> QED
    BY <1>4, <1>5

LEMMA FailedSaveKeeps == ASSUME HookIInv, NEW t \in Threads, SaveFails(t) PROVE HookIInv'
  <1>0. UNCHANGED <<minted, settings, tasks, asked, overlaid, failing, alarms, crashed, requests>>
        /\ edit[t].at = "save" /\ edit' = [edit EXCEPT ![t] = NoEdit]
        /\ editing' = (IF editing = t THEN "free" ELSE editing)
        /\ post' = [post EXCEPT ![t] = NoPost]
        /\ sending' = [d \in Dests |-> IF sending[d] = t THEN "free" ELSE sending[d]]
    BY DEF SaveFails
  <1>1. /\ edit \in [Threads -> {NoEdit} \cup RestEdits \cup HookEdits] /\ post \in [Threads -> Posts]
        /\ sending \in [Dests -> Threads \cup {"free"}] /\ editing \in Threads \cup {"free"}
    BY DEF HookIInv, HookTypes
  <1>2. \A u \in Threads : /\ edit'[u] = IF u = t THEN NoEdit ELSE edit[u]
                           /\ post'[u] = IF u = t THEN NoPost ELSE post[u]
    BY <1>0, <1>1
  <1>3. NoEdit.kind = "none" /\ NoEdit.at = "none"
    BY DEF NoEdit
  <1>4. post[t].at \in {"idle", "mark"} /\ ~post[t].alarm
    BY <1>0, EditKinds DEF HookIInv, LocksRight
  <1>5. HookTypes'
    BY <1>0, <1>1, <1>2, NoPostType DEF HookIInv, HookTypes
  <1>6. LocksRight'
    <2> SUFFICES ASSUME NEW u \in Threads
          PROVE /\ edit'[u].at = "save" /\ edit'[u].kind # "rest" => editing' = u
                /\ post'[u].at \in {"send", "mark", "log"} => sending'[post'[u].to] = u
                /\ post'[u].alarm => post'[u].at = "log"
                /\ edit'[u].kind = "mark" => post'[u].at = "mark" /\ edit'[u].to = post'[u].to
                /\ edit'[u].kind \notin {"none", "mark"} => post'[u].at = "idle"
                /\ edit'[u].at = "clean" => edit'[u].kind = "update"
      BY DEF LocksRight
    <2>1. CASE u = t
      BY <1>2, <1>3, <2>1, NoPostType
    <2>2. CASE u # t
      <3>1. post[u].at \in {"send", "mark", "log"} => post[u].to \in Dests /\ sending[post[u].to] = u
        BY DEF HookIInv, LocksRight, HookTypes
      <3> QED
        BY <1>0, <1>2, <2>2, <3>1 DEF HookIInv, LocksRight
    <2> QED
      BY <2>1, <2>2
  <1>7. EditsRight'
    <2> SUFFICES ASSUME NEW u \in Threads
                 PROVE  EditShape(edit'[u], post'[u], minted) /\ (~overlaid => EditFresh(edit[u])')
      BY <1>0 DEF EditsRight
    <2>1. CASE u = t
      BY <1>2, <1>3, <2>1 DEF EditShape, EditFresh
    <2>2. CASE u # t
      BY <1>0, <1>2, <2>2 DEF HookIInv, EditsRight, EditFresh
    <2> QED
      BY <2>1, <2>2
  <1>8. AsAsked' /\ Counted'
    BY <1>0 DEF HookIInv, AsAsked, Counted
  <1>9. BirthRight'
    BY <1>0, <1>2, <1>3, NoPostType DEF HookIInv, BirthRight, Unborn
  <1>10. \A d \in Dests : Rings(d)' <=> Rings(d)
    BY <1>2, <1>4, NoPostType DEF Rings
  <1>11. Told'
    BY <1>0, <1>10 DEF HookIInv, Told
  <1> QED
    BY <1>5, <1>6, <1>7, <1>8, <1>9, <1>11 DEF HookIInv

LEMMA ServiceRestartKeeps == ASSUME HookIInv, RestartService PROVE HookIInv'
  <1>0. UNCHANGED <<minted, settings, asked, overlaid, failing, alarms, requests>>
        /\ crashed' = TRUE /\ editing' = "free" /\ edit' = [t \in Threads |-> NoEdit]
        /\ tasks' = <<>> /\ post' = [t \in Threads |-> NoPost] /\ sending' = [d \in Dests |-> "free"]
    BY DEF RestartService
  <1>1. \A u \in Threads : edit'[u] = NoEdit /\ post'[u] = NoPost
    BY <1>0
  <1>2. NoEdit.kind = "none" /\ NoEdit.at = "none"
    BY DEF NoEdit
  <1>3. HookTypes'
    BY <1>0, <1>1, NoPostType DEF HookIInv, HookTypes
  <1>4. LocksRight'
    BY <1>1, <1>2, NoPostType DEF LocksRight
  <1>5. EditsRight'
    BY <1>1, <1>2 DEF EditsRight, EditShape, EditFresh
  <1>6. AsAsked' /\ Counted'
    BY <1>0 DEF HookIInv, AsAsked, Counted
  <1>7. BirthRight'
    BY <1>0, <1>1, <1>2, NoPostType DEF HookIInv, BirthRight, Unborn
  <1>8. \A d \in Dests : ~Rings(d)'
    BY <1>1, NoPostType DEF Rings
  <1>9. Told'
    BY <1>0, <1>8 DEF HookIInv, Told
  <1> QED
    BY <1>3, <1>4, <1>5, <1>6, <1>7, <1>9 DEF HookIInv

LEMMA WorksKeeps == ASSUME HookIInv, NEW t \in Threads, Works(t) PROVE HookIInv'
  <1>1. CASE LockUpdate(t)
    BY <1>1, LockUpdateKeeps
  <1>2. CASE SaveRequest(t)
    BY <1>2, SaveRequestKeeps
  <1>3. CASE Take(t)
    BY <1>3, TakeKeeps
  <1>4. CASE Recheck(t)
    BY <1>4, RecheckKeeps
  <1>5. CASE Mark(t)
    BY <1>5, MarkKeeps
  <1>6. CASE SaveMark(t)
    BY <1>6, SaveMarkKeeps
  <1>7. CASE Log(t)
    BY <1>7, LogKeeps
  <1>8. CASE \E o \in Outcomes : PostAttempt(t, o)
    BY <1>8, PostAttemptKeeps
  <1> QED
    BY <1>1, <1>2, <1>3, <1>4, <1>5, <1>6, <1>7, <1>8 DEF Works

LEMMA HookStep == ASSUME HookIInv, HookNext PROVE HookIInv'
  <1>1. CASE \E t \in Requests, d \in Dests : DeleteDestination(t, d)
    BY <1>1, DeleteKeeps
  <1>2. CASE \E t \in Requests, d \in Dests : SendTest(t, d)
    BY <1>2, SendTestKeeps
  <1>3. CASE \E t \in Requests, d \in Dests, c \in (SUBSET Classes) \ {{}} : CreateDestination(t, d, c)
    BY <1>3, CreateKeeps
  <1>4. CASE \E t \in Requests, d \in Dests, c \in (SUBSET Classes) \ {{}} : CleanUpdate(t, d, c)
    BY <1>4, UpdateKeeps
  <1>5. CASE \E t \in Requests, d \in Dests, on \in BOOLEAN : SetEnabled(t, d, on)
    BY <1>5, EnableKeeps
  <1>6. CASE \E t \in Requests : EditRest(t)
    BY <1>6, EditRestKeeps
  <1>7. CASE \E t \in Threads : Works(t)
    BY <1>7, WorksKeeps
  <1>8. CASE \E t \in Threads : SaveFails(t)
    BY <1>8, FailedSaveKeeps
  <1>9. CASE \E c \in Classes : Notify(c)
    BY <1>9, NotifyKeeps
  <1>10. CASE RestartService
    BY <1>10, ServiceRestartKeeps
  <1> QED
    BY <1>1, <1>2, <1>3, <1>4, <1>5, <1>6, <1>7, <1>8, <1>9, <1>10 DEF HookNext

LEMMA HookStutters == ASSUME HookIInv, UNCHANGED hookVars PROVE HookIInv'
  <1> USE DEF hookVars
  <1>1. HookTypes'
    BY DEF HookIInv, HookTypes
  <1>2. LocksRight' /\ AsAsked' /\ Counted' /\ BirthRight' /\ Told'
    BY DEF HookIInv, LocksRight, AsAsked, Counted, BirthRight, Unborn, Told, Rings
  <1>3. EditsRight'
    BY DEF HookIInv, EditsRight, EditShape, EditFresh
  <1> QED
    BY <1>1, <1>2, <1>3 DEF HookIInv

LEMMA HookGives == ASSUME HookIInv PROVE HookTypeOK /\ AsAsked /\ OneAlarm
  <1>1. HookTypeOK
    <2>1. \A t \in Threads : edit[t].at \in {"none", "clean", "save"} /\ post[t].at \in {"idle", "lock", "send", "mark", "log"}
      <3> SUFFICES ASSUME NEW t \in Threads
                   PROVE edit[t].at \in {"none", "clean", "save"} /\ post[t].at \in {"idle", "lock", "send", "mark", "log"}
        OBVIOUS
      <3>1. edit[t] \in {NoEdit} \cup RestEdits \cup HookEdits /\ post[t] \in Posts
        BY DEF HookIInv, HookTypes
      <3> QED
        BY <3>1 DEF NoEdit, RestEdits, HookEdits, Posts
    <2>2. \A i \in DOMAIN tasks : tasks[i] \in [to : Dests, class : Classes]
      <3>1. tasks \in Seq(DeliveryTasks)
        BY DEF HookIInv, HookTypes
      <3>2. \A i \in DOMAIN tasks : tasks[i] \in DeliveryTasks
        BY <3>1, ElementOfSeq, LenProperties
      <3> QED
        BY <3>2 DEF DeliveryTasks
    <2> QED
      BY <2>1, <2>2 DEF HookTypeOK, HookIInv, HookTypes, SettingsFiles, Hooks
  <1>2. OneAlarm
    <2> SUFFICES ASSUME ~overlaid, NEW d \in Dests
                 PROVE  LET due == alarms[d] + Cardinality({t \in Threads : post[t].to = d /\ post[t].alarm})
                        IN due <= 1 /\ (~crashed => (due = 1 <=> failing[d] >= DegradedAfter))
      BY DEF OneAlarm
    <2> DEFINE S == {t \in Threads : post[t].to = d /\ post[t].alarm}
    <2>1. \A t \in S : t = sending[d]
      BY DEF HookIInv, LocksRight
    <2>2. IF Rings(d) THEN Cardinality(S) = 1 ELSE Cardinality(S) = 0
      <3>1. CASE Rings(d)
        <4>1. S = {sending[d]}
          BY <2>1, <3>1 DEF Rings
        <4>2. Cardinality({sending[d]}) = 1
          BY FS_Singleton
        <4> QED
          BY <3>1, <4>1, <4>2
      <3>2. CASE ~Rings(d)
        <4>1. S = {}
          BY <3>2 DEF Rings
        <4> QED
          BY <3>2, <4>1, FS_EmptySet
      <3> QED
        BY <3>1, <3>2
    <2>3. /\ alarms[d] <= 1 /\ (alarms[d] = 1 => ~Rings(d)) /\ alarms[d] \in Nat
          /\ alarms[d] = 1 \/ Rings(d) => failing[d] >= DegradedAfter
          /\ ~crashed /\ failing[d] >= DegradedAfter => alarms[d] = 1 \/ Rings(d)
      BY DEF HookIInv, Told, HookTypes
    <2> HIDE DEF S
    <2>4. LET due == alarms[d] + Cardinality(S)
          IN due <= 1 /\ (~crashed => (due = 1 <=> failing[d] >= DegradedAfter))
      BY <2>2, <2>3
    <2> QED
      BY <2>4 DEF S
  <1> QED
    BY <1>1, <1>2 DEF HookIInv

-----------------------------------------------------------------------------
(* The off-site copy.  A sequence is drawn from another when its members   *)
(* are members of the other at places of their own.                        *)
Drawn(q, s) ==
  \E m \in [DOMAIN q -> DOMAIN s] :
    /\ \A i, j \in DOMAIN q : m[i] = m[j] => i = j
    /\ \A i \in DOMAIN q : q[i] = s[m[i]]
OnceIn(s) == \A i, j \in DOMAIN s : s[i] = s[j] => i = j
OnceEach(items) == \A i, j \in DOMAIN items : items[i].clip = items[j].clip => i = j

Items == [clip : Clips, attempts : 0..(MaxRetries - 1), due : BOOLEAN]
Queues == [pending : Seq(Items), uploaded : SUBSET Clips, failed : Seq(Clips)]

(* No clip has two fates in a queue file.                                  *)
QueueGood(s) ==
  /\ s \in Queues /\ Len(s.failed) <= MaxFailed
  /\ OnceEach(s.pending) /\ OnceIn(s.failed)
  /\ ClipsOf(s.pending) \cap (s.uploaded \cup Range(s.failed)) = {}
  /\ s.uploaded \cap Range(s.failed) = {}

LEMMA OffsiteNumbers ==
    /\ MaxClips \in Nat /\ MaxPending \in Nat /\ MaxFailed \in Nat /\ PerCycle \in Nat
    /\ MaxReconfigs \in Nat /\ MaxTroubles \in Nat /\ MaxRetries \in Nat /\ MaxRetries > 0
  BY OffsiteBounds

LEMMA DrawnOnce ==
    ASSUME NEW q, NEW s, Drawn(q, s)
    PROVE  /\ OnceIn(s) => OnceIn(q)
           /\ OnceEach(s) => OnceEach(q)
           /\ ClipsOf(q) \subseteq ClipsOf(s)
           /\ Range(q) \subseteq Range(s)
  <1> PICK m \in [DOMAIN q -> DOMAIN s] :
         /\ \A i, j \in DOMAIN q : m[i] = m[j] => i = j
         /\ \A i \in DOMAIN q : q[i] = s[m[i]]
    BY DEF Drawn
  <1>1. \A i \in DOMAIN q : m[i] \in DOMAIN s
    OBVIOUS
  <1>2. OnceIn(s) => OnceIn(q)
    BY <1>1 DEF OnceIn
  <1>3. OnceEach(s) => OnceEach(q)
    BY <1>1 DEF OnceEach
  <1>4. ClipsOf(q) \subseteq ClipsOf(s)
    BY <1>1 DEF ClipsOf
  <1>5. Range(q) \subseteq Range(s)
    BY <1>1 DEF Range
  <1> QED
    BY <1>2, <1>3, <1>4, <1>5

LEMMA AscendingTypes ==
    ASSUME NEW n \in Nat, NEW S \in SUBSET (1..n), NEW s \in Ascending(S)
    PROVE  /\ s \in Seq(S)
           /\ \A i, j \in DOMAIN s : s[i] = s[j] => i = j
  <1>1. IsFiniteSet(S)
    <2>1. IsFiniteSet(1..n)
      BY FS_Interval
    <2> QED
      BY <2>1, FS_Subset
  <1>2. Cardinality(S) \in Nat
    BY <1>1, FS_CardinalityType
  <1>3. s \in [1..Cardinality(S) -> S] /\ \A i, j \in DOMAIN s : i < j => s[i] < s[j]
    BY DEF Ascending
  <1>4. s \in Seq(S)
    BY <1>2, <1>3
  <1>5. ASSUME NEW i \in DOMAIN s, NEW j \in DOMAIN s, s[i] = s[j] PROVE i = j
    <2>1. i \in 1..Cardinality(S) /\ j \in 1..Cardinality(S) /\ s[i] \in 1..n
      BY <1>3
    <2>2. ~(i < j) /\ ~(j < i)
      BY <1>3, <1>5, <2>1
    <2> QED
      BY <1>2, <2>1, <2>2
  <1> QED
    BY <1>4, <1>5

LEMMA OnlyTypes ==
    ASSUME NEW T, NEW items \in Seq(T), NEW places \in SUBSET DOMAIN items, NEW q \in Only(items, places)
    PROVE  /\ q \in Seq(T) /\ Drawn(q, items)
           /\ \A i \in DOMAIN q : \E k \in places : q[i] = items[k]
  <1> PICK s \in Ascending(places) : q = [i \in DOMAIN s |-> items[s[i]]]
    BY DEF Only
  <1>1. DOMAIN items = 1..Len(items) /\ Len(items) \in Nat
    OBVIOUS
  <1>2. s \in Seq(places) /\ \A i, j \in DOMAIN s : s[i] = s[j] => i = j
    BY <1>1, AscendingTypes
  <1>3. DOMAIN s = 1..Len(s) /\ Len(s) \in Nat /\ \A i \in DOMAIN s : s[i] \in places
    BY <1>2
  <1>4. \A i \in DOMAIN s : items[s[i]] \in T
    BY <1>3
  <1>5. q \in [1..Len(s) -> T]
    BY <1>3, <1>4
  <1>6. q \in Seq(T) /\ DOMAIN q = DOMAIN s
    BY <1>3, <1>5
  <1>7. s \in [DOMAIN q -> DOMAIN items]
    BY <1>2, <1>3, <1>6
  <1>8. Drawn(q, items)
    BY <1>2, <1>6, <1>7 DEF Drawn
  <1> QED
    BY <1>3, <1>6, <1>8

LEMMA LatestTypes ==
    ASSUME NEW T, NEW s \in Seq(T), NEW n \in Nat
    PROVE  Latest(s, n) \in Seq(T) /\ Len(Latest(s, n)) <= n /\ Drawn(Latest(s, n), s)
  <1>1. CASE Len(s) > n
    <2>1. Latest(s, n) = SubSeq(s, Len(s) - n + 1, Len(s))
      BY <1>1 DEF Latest
    <2> DEFINE q == SubSeq(s, Len(s) - n + 1, Len(s))
    <2>2. q \in Seq(T) /\ Len(q) = n /\ \A i \in 1..n : q[i] = s[Len(s) - n + i]
      BY <1>1
    <2> HIDE DEF q
    <2> DEFINE m == [i \in 1..n |-> Len(s) - n + i]
    <2>3. DOMAIN q = 1..n /\ DOMAIN s = 1..Len(s) /\ Len(s) \in Nat
      BY <2>2
    <2>4. m \in [DOMAIN q -> DOMAIN s]
      BY <1>1, <2>3
    <2>5. \A i, j \in DOMAIN q : m[i] = m[j] => i = j
      BY <2>3
    <2>6. \A i \in DOMAIN q : q[i] = s[m[i]]
      BY <2>2, <2>3
    <2>7. Drawn(q, s)
      BY <2>4, <2>5, <2>6 DEF Drawn
    <2> QED
      BY <2>1, <2>2, <2>7 DEF q
  <1>2. CASE ~(Len(s) > n)
    <2>1. Latest(s, n) = s /\ Len(s) <= n
      BY <1>2 DEF Latest
    <2> DEFINE m == [i \in DOMAIN s |-> i]
    <2>2. m \in [DOMAIN s -> DOMAIN s] /\ \A i \in DOMAIN s : m[i] = i
      OBVIOUS
    <2>3. Drawn(s, s)
      BY <2>2 DEF Drawn
    <2> QED
      BY <2>1, <2>3
  <1> QED
    BY <1>1, <1>2

LEMMA ItemType ==
    ASSUME NEW c \in Clips PROVE Item(c) \in Items /\ Item(c).clip = c
  BY OffsiteNumbers DEF Item, Items

LEMMA EmptyQueue ==
    QueueGood(NewQueue) /\ ClipsOf(<<>>) = {} /\ NewQueue.uploaded = {} /\ ClipsOf(NewQueue.pending) = {}
    /\ Range(NewQueue.failed) = {}
  <1>1. ClipsOf(<<>>) = {} /\ Range(<<>>) = {} /\ OnceEach(<<>>) /\ OnceIn(<<>>)
    BY DEF ClipsOf, Range, OnceEach, OnceIn
  <1>2. NewQueue \in Queues /\ NewQueue.pending = <<>> /\ NewQueue.failed = <<>> /\ NewQueue.uploaded = {}
    BY DEF NewQueue, Queues
  <1> QED
    BY <1>1, <1>2, OffsiteNumbers DEF QueueGood

LEMMA WaitedGood ==
    ASSUME NEW s, QueueGood(s), NEW early \in BOOLEAN
    PROVE  /\ QueueGood(Waited(s, early)) /\ ClipsOf(Waited(s, early).pending) = ClipsOf(s.pending)
           /\ Waited(s, early).uploaded = s.uploaded /\ Waited(s, early).failed = s.failed
  <1>1. CASE early
    BY <1>1 DEF Waited
  <1>2. CASE ~early
    <2> DEFINE p == [i \in DOMAIN s.pending |-> [s.pending[i] EXCEPT !.due = TRUE]]
    <2>0. s \in Queues
      BY DEF QueueGood
    <2>1. s.pending \in Seq(Items)
      BY <2>0 DEF Queues
    <2>2. DOMAIN s.pending = 1..Len(s.pending) /\ Len(s.pending) \in Nat
          /\ \A i \in DOMAIN s.pending : s.pending[i] \in Items
      BY <2>1
    <2>3. \A i \in DOMAIN s.pending : p[i] \in Items /\ p[i].clip = s.pending[i].clip
      BY <2>2 DEF Items
    <2>4. p \in [1..Len(s.pending) -> Items]
      BY <2>2, <2>3
    <2>5. p \in Seq(Items) /\ DOMAIN p = DOMAIN s.pending
      BY <2>2, <2>4
    <2> HIDE DEF p
    <2>6. ClipsOf(p) = ClipsOf(s.pending) /\ OnceEach(p)
      BY <2>3, <2>5 DEF ClipsOf, OnceEach, QueueGood
    <2>7. Waited(s, early) = [s EXCEPT !.pending = p]
      BY <1>2 DEF Waited, p
    <2>8. Waited(s, early) \in Queues /\ Waited(s, early).pending = p
          /\ Waited(s, early).uploaded = s.uploaded /\ Waited(s, early).failed = s.failed
      BY <2>0, <2>5, <2>7 DEF Queues
    <2> QED
      BY <2>6, <2>8 DEF QueueGood
  <1> QED
    BY <1>1, <1>2

LEMMA DiscoveredClips == onDisk \subseteq Clips => Discovered \subseteq Clips
  BY DEF Discovered

LEMMA PrunedGood ==
    ASSUME NEW s, QueueGood(s), NEW k \in Pruned(s)
    PROVE  /\ QueueGood(k) /\ ClipsOf(k.pending) \subseteq ClipsOf(s.pending)
           /\ Range(k.failed) \subseteq Range(s.failed) /\ k.uploaded = s.uploaded \cap Discovered
  <1> DEFINE P == {i \in DOMAIN s.pending : Kept(s.pending[i].clip)}
             F == {i \in DOMAIN s.failed : Kept(s.failed[i])}
  <1> PICK p \in Only(s.pending, P), f \in Only(s.failed, F) :
         k = [pending |-> p, uploaded |-> s.uploaded \cap Discovered, failed |-> Latest(f, MaxFailed)]
    BY DEF Pruned
  <1>0. s.pending \in Seq(Items) /\ s.failed \in Seq(Clips) /\ s.uploaded \in SUBSET Clips
    BY DEF QueueGood, Queues
  <1>1. p \in Seq(Items) /\ Drawn(p, s.pending)
    BY <1>0, OnlyTypes
  <1>2. f \in Seq(Clips) /\ Drawn(f, s.failed)
    BY <1>0, OnlyTypes
  <1> HIDE DEF P, F
  <1>3. Latest(f, MaxFailed) \in Seq(Clips) /\ Len(Latest(f, MaxFailed)) <= MaxFailed
        /\ Drawn(Latest(f, MaxFailed), f)
    BY <1>2, LatestTypes, OffsiteNumbers
  <1>4. OnceEach(p) /\ ClipsOf(p) \subseteq ClipsOf(s.pending)
    BY <1>1, DrawnOnce DEF QueueGood
  <1>5. OnceIn(Latest(f, MaxFailed)) /\ Range(Latest(f, MaxFailed)) \subseteq Range(s.failed)
    BY <1>2, <1>3, DrawnOnce DEF QueueGood
  <1>6. k \in Queues /\ k.pending = p /\ k.uploaded = s.uploaded \cap Discovered
        /\ k.failed = Latest(f, MaxFailed)
    BY <1>0, <1>1, <1>3 DEF Queues
  <1> QED
    BY <1>3, <1>4, <1>5, <1>6 DEF QueueGood

LEMMA ItemsOf ==
    ASSUME NEW f \in Seq(Clips)
    PROVE  LET r == [i \in DOMAIN f |-> Item(f[i])]
           IN r \in Seq(Items) /\ DOMAIN r = DOMAIN f /\ \A i \in DOMAIN f : r[i].clip = f[i]
  <1> DEFINE r == [i \in DOMAIN f |-> Item(f[i])]
  <1>1. DOMAIN f = 1..Len(f) /\ Len(f) \in Nat /\ \A i \in DOMAIN f : f[i] \in Clips
    OBVIOUS
  <1>2. \A i \in DOMAIN f : r[i] \in Items /\ r[i].clip = f[i]
    BY <1>1, ItemType
  <1>3. r \in [1..Len(f) -> Items]
    BY <1>1, <1>2
  <1>4. r \in Seq(Items)
    BY <1>1, <1>3
  <1> QED
    BY <1>2, <1>4

(* two lists of different clips, one after the other *)
LEMMA JoinedItems ==
    ASSUME NEW p \in Seq(Items), NEW r \in Seq(Items), OnceEach(p), OnceEach(r),
           ClipsOf(p) \cap ClipsOf(r) = {}
    PROVE  p \o r \in Seq(Items) /\ OnceEach(p \o r) /\ ClipsOf(p \o r) \subseteq ClipsOf(p) \cup ClipsOf(r)
  <1> DEFINE n == Len(p)
             m == Len(r)
             q == p \o r
  <1>1. n \in Nat /\ m \in Nat /\ DOMAIN p = 1..n /\ DOMAIN r = 1..m
    OBVIOUS
  <1>2. q \in Seq(Items) /\ Len(q) = n + m
    OBVIOUS
  <1>3. DOMAIN q = 1..(n + m)
    BY <1>2
  <1>4. \A i \in 1..(n + m) : q[i] = IF i <= n THEN p[i] ELSE r[i - n]
    OBVIOUS
  <1> HIDE DEF q, n, m
  <1>5. \A i \in DOMAIN q : \/ i \in DOMAIN p /\ q[i] = p[i] /\ q[i].clip \in ClipsOf(p)
                            \/ i - n \in DOMAIN r /\ q[i] = r[i - n] /\ q[i].clip \in ClipsOf(r)
    <2> TAKE i \in DOMAIN q
    <2>1. CASE i <= n
      <3>1. i \in DOMAIN p /\ q[i] = p[i]
        BY <1>1, <1>3, <1>4, <2>1
      <3>2. q[i].clip \in ClipsOf(p)
        BY <3>1 DEF ClipsOf
      <3> QED
        BY <3>1, <3>2
    <2>2. CASE ~(i <= n)
      <3>1. i - n \in DOMAIN r /\ q[i] = r[i - n]
        BY <1>1, <1>3, <1>4, <2>2
      <3>2. q[i].clip \in ClipsOf(r)
        BY <3>1 DEF ClipsOf
      <3> QED
        BY <3>1, <3>2
    <2> QED
      BY <2>1, <2>2
  <1>6. ClipsOf(q) \subseteq ClipsOf(p) \cup ClipsOf(r)
    BY <1>5 DEF ClipsOf
  <1>7. ASSUME NEW i \in DOMAIN q, NEW j \in DOMAIN q, q[i].clip = q[j].clip PROVE i = j
    <2>1. CASE i \in DOMAIN p /\ q[i] = p[i] /\ j \in DOMAIN p /\ q[j] = p[j]
      BY <1>7, <2>1 DEF OnceEach
    <2>2. CASE i - n \in DOMAIN r /\ q[i] = r[i - n] /\ j - n \in DOMAIN r /\ q[j] = r[j - n]
      <3>1. i - n = j - n
        BY <1>7, <2>2 DEF OnceEach
      <3> QED
        BY <1>1, <1>3, <3>1
    <2> QED
      BY <1>5, <1>7, <2>1, <2>2
  <1> QED
    BY <1>2, <1>6, <1>7 DEF OnceEach, q

LEMMA EnqueuedGood ==
    ASSUME NEW k, QueueGood(k), onDisk \subseteq Clips, NEW s \in Enqueued(k)
    PROVE  /\ QueueGood(s) /\ ClipsOf(s.pending) \subseteq ClipsOf(k.pending) \cup NewClips(k)
           /\ s.uploaded = k.uploaded /\ s.failed = k.failed
  <1>1. CASE NewClips(k) = {}
    BY <1>1 DEF Enqueued
  <1>2. CASE NewClips(k) # {}
    <2> PICK added \in Ascending(NewClips(k)) :
           s = [k EXCEPT !.pending = Latest(@ \o [i \in DOMAIN added |-> Item(added[i])], MaxPending)]
      BY <1>2 DEF Enqueued
    <2> DEFINE r == [i \in DOMAIN added |-> Item(added[i])]
    <2>1. NewClips(k) \in SUBSET (1..MaxClips) /\ MaxClips \in Nat
      BY DiscoveredClips, OffsiteNumbers DEF NewClips, Clips
    <2>2. added \in Seq(NewClips(k)) /\ OnceIn(added)
      BY <2>1, AscendingTypes DEF OnceIn
    <2>3. added \in Seq(Clips) /\ \A i \in DOMAIN added : added[i] \in NewClips(k)
      BY <2>1, <2>2 DEF Clips
    <2>4. r \in Seq(Items) /\ DOMAIN r = DOMAIN added /\ \A i \in DOMAIN added : r[i].clip = added[i]
      BY <2>3, ItemsOf
    <2> HIDE DEF r
    <2>5. OnceEach(r) /\ ClipsOf(r) \subseteq NewClips(k)
      BY <2>2, <2>3, <2>4 DEF OnceEach, OnceIn, ClipsOf
    <2>6. NewClips(k) \cap (ClipsOf(k.pending) \cup Range(k.failed) \cup k.uploaded) = {}
      BY DEF NewClips
    <2>7. k.pending \in Seq(Items) /\ OnceEach(k.pending) /\ k \in Queues
      BY DEF QueueGood, Queues
    <2> DEFINE all == k.pending \o r
               q == Latest(all, MaxPending)
    <2>8. all \in Seq(Items) /\ OnceEach(all) /\ ClipsOf(all) \subseteq ClipsOf(k.pending) \cup ClipsOf(r)
      BY <2>4, <2>5, <2>6, <2>7, JoinedItems
    <2> HIDE DEF all
    <2>9. q \in Seq(Items) /\ Drawn(q, all)
      BY <2>8, LatestTypes, OffsiteNumbers
    <2> HIDE DEF q
    <2>10. OnceEach(q) /\ ClipsOf(q) \subseteq ClipsOf(k.pending) \cup NewClips(k)
      BY <2>5, <2>8, <2>9, DrawnOnce
    <2>11. s = [k EXCEPT !.pending = q]
      BY DEF q, all, r
    <2>12. s \in Queues /\ s.pending = q /\ s.uploaded = k.uploaded /\ s.failed = k.failed
      BY <2>7, <2>9, <2>11 DEF Queues
    <2> QED
      BY <2>6, <2>10, <2>12 DEF QueueGood
  <1> QED
    BY <1>1, <1>2

LEMMA DroppedGood ==
    ASSUME NEW s, QueueGood(s), NEW c \in Clips, NEW d \in Dropped(s, c)
    PROVE  /\ QueueGood(d) /\ ClipsOf(d.pending) \subseteq ClipsOf(s.pending) \ {c}
           /\ d.uploaded = s.uploaded /\ d.failed = s.failed
  <1> PICK p \in WithoutClip(s.pending, c) : d = [s EXCEPT !.pending = p]
    BY DEF Dropped
  <1> DEFINE P == {i \in DOMAIN s.pending : s.pending[i].clip # c}
  <1>0. s.pending \in Seq(Items) /\ s \in Queues
    BY DEF QueueGood, Queues
  <1>1. p \in Only(s.pending, P)
    BY DEF WithoutClip
  <1>2. p \in Seq(Items) /\ Drawn(p, s.pending) /\ \A i \in DOMAIN p : \E k \in P : p[i] = s.pending[k]
    BY <1>0, <1>1, OnlyTypes
  <1>3. c \notin ClipsOf(p)
    BY <1>2 DEF ClipsOf
  <1> HIDE DEF P
  <1>4. OnceEach(p) /\ ClipsOf(p) \subseteq ClipsOf(s.pending)
    BY <1>2, DrawnOnce DEF QueueGood
  <1>5. d \in Queues /\ d.pending = p /\ d.uploaded = s.uploaded /\ d.failed = s.failed
    BY <1>0, <1>2 DEF Queues
  <1> QED
    BY <1>3, <1>4, <1>5 DEF QueueGood

LEMMA UploadedGood ==
    ASSUME NEW s, QueueGood(s), NEW c \in Clips, c \notin Range(s.failed), NEW u \in Uploaded(s, c)
    PROVE  /\ QueueGood(u) /\ ClipsOf(u.pending) \subseteq ClipsOf(s.pending) \ {c}
           /\ u.uploaded = s.uploaded \cup {c} /\ u.failed = s.failed
  <1> PICK d \in Dropped(s, c) : u = [d EXCEPT !.uploaded = @ \cup {c}]
    BY DEF Uploaded
  <1>1. QueueGood(d) /\ ClipsOf(d.pending) \subseteq ClipsOf(s.pending) \ {c} /\ d.uploaded = s.uploaded
        /\ d.failed = s.failed
    BY DroppedGood
  <1>2. u \in Queues /\ u.pending = d.pending /\ u.uploaded = d.uploaded \cup {c} /\ u.failed = d.failed
    BY <1>1 DEF QueueGood, Queues
  <1> QED
    BY <1>1, <1>2 DEF QueueGood

LEMMA AppendOnce ==
    ASSUME NEW f \in Seq(Clips), NEW c \in Clips, c \notin Range(f), OnceIn(f)
    PROVE  OnceIn(Append(f, c)) /\ Append(f, c) \in Seq(Clips) /\ Range(Append(f, c)) \subseteq Range(f) \cup {c}
  <1> DEFINE g == Append(f, c)
  <1>1. g \in Seq(Clips) /\ Len(g) = Len(f) + 1 /\ DOMAIN f = 1..Len(f) /\ Len(f) \in Nat
    OBVIOUS
  <1>2. DOMAIN g = 1..(Len(f) + 1) /\ g[Len(f) + 1] = c /\ \A i \in 1..Len(f) : g[i] = f[i]
    BY <1>1
  <1> HIDE DEF g
  <1>3. \A i \in 1..Len(f) : g[i] \in Range(f)
    BY <1>1, <1>2 DEF Range
  <1>4. Range(g) \subseteq Range(f) \cup {c}
    BY <1>1, <1>2, <1>3 DEF Range
  <1>5. OnceIn(g)
    <2> SUFFICES ASSUME NEW i \in DOMAIN g, NEW j \in DOMAIN g, g[i] = g[j] PROVE i = j
      BY DEF OnceIn
    <2>1. CASE i \in 1..Len(f) /\ j \in 1..Len(f)
      BY <1>1, <1>2, <2>1 DEF OnceIn
    <2> QED
      BY <1>1, <1>2, <1>3, <2>1
  <1> QED
    BY <1>1, <1>4, <1>5 DEF g

LEMMA FailureGood ==
    ASSUME NEW s, QueueGood(s), NEW i \in Items, i.clip \notin s.uploaded \cup Range(s.failed),
           NEW u \in Failure(s, i)
    PROVE  /\ QueueGood(u) /\ ClipsOf(u.pending) \subseteq ClipsOf(s.pending)
           /\ u.uploaded = s.uploaded /\ Range(u.failed) \subseteq Range(s.failed) \cup {i.clip}
  <1>0. s \in Queues /\ s.pending \in Seq(Items) /\ s.failed \in Seq(Clips) /\ i.clip \in Clips
        /\ i.attempts \in 0..(MaxRetries - 1)
    BY DEF QueueGood, Queues, Items
  <1>1. CASE i.attempts + 1 >= MaxRetries
    <2> PICK d \in Dropped(s, i.clip) : u = [d EXCEPT !.failed = Latest(Append(@, i.clip), MaxFailed)]
      BY <1>1 DEF Failure
    <2>1. QueueGood(d) /\ ClipsOf(d.pending) \subseteq ClipsOf(s.pending) \ {i.clip}
          /\ d.uploaded = s.uploaded /\ d.failed = s.failed
      BY <1>0, DroppedGood
    <2>2. OnceIn(s.failed)
      BY DEF QueueGood
    <2> DEFINE g == Append(s.failed, i.clip)
               h == Latest(g, MaxFailed)
    <2>3. g \in Seq(Clips) /\ OnceIn(g) /\ Range(g) \subseteq Range(s.failed) \cup {i.clip}
      BY <1>0, <2>2, AppendOnce
    <2> HIDE DEF g
    <2>4. h \in Seq(Clips) /\ Len(h) <= MaxFailed /\ Drawn(h, g)
      BY <2>3, LatestTypes, OffsiteNumbers
    <2> HIDE DEF h
    <2>5. OnceIn(h) /\ Range(h) \subseteq Range(s.failed) \cup {i.clip}
      BY <2>3, <2>4, DrawnOnce
    <2>6. u = [d EXCEPT !.failed = h]
      BY <2>1 DEF h, g
    <2>7. u \in Queues /\ u.pending = d.pending /\ u.uploaded = d.uploaded /\ u.failed = h
      BY <2>1, <2>4, <2>6 DEF QueueGood, Queues
    <2> QED
      BY <2>1, <2>4, <2>5, <2>7 DEF QueueGood
  <1>2. CASE ~(i.attempts + 1 >= MaxRetries)
    <2> DEFINE p == [k \in DOMAIN s.pending |->
                      IF s.pending[k].clip = i.clip
                      THEN [s.pending[k] EXCEPT !.attempts = i.attempts + 1, !.due = FALSE]
                      ELSE s.pending[k]]
    <2>1. u = [s EXCEPT !.pending = p]
      BY <1>2 DEF Failure
    <2>2. DOMAIN s.pending = 1..Len(s.pending) /\ Len(s.pending) \in Nat
          /\ \A k \in DOMAIN s.pending : s.pending[k] \in Items
      BY <1>0
    <2>3. i.attempts + 1 \in 0..(MaxRetries - 1)
      BY <1>0, <1>2, OffsiteNumbers
    <2>4. \A k \in DOMAIN s.pending : p[k] \in Items /\ p[k].clip = s.pending[k].clip
      BY <2>2, <2>3 DEF Items
    <2>5. p \in [1..Len(s.pending) -> Items]
      BY <2>2, <2>4
    <2> HIDE DEF p
    <2>6. p \in Seq(Items) /\ DOMAIN p = DOMAIN s.pending
      BY <2>2, <2>5
    <2>7. ClipsOf(p) = ClipsOf(s.pending) /\ OnceEach(p)
      BY <2>4, <2>6 DEF ClipsOf, OnceEach, QueueGood
    <2>8. u \in Queues /\ u.pending = p /\ u.uploaded = s.uploaded /\ u.failed = s.failed
      BY <1>0, <2>1, <2>6 DEF Queues
    <2> QED
      BY <2>7, <2>8 DEF QueueGood
  <1> QED
    BY <1>1, <1>2

LEMMA RetriedGood ==
    ASSUME NEW s, QueueGood(s)
    PROVE  /\ QueueGood(Retried(s))
           /\ ClipsOf(Retried(s).pending) \subseteq ClipsOf(s.pending) \cup Range(s.failed)
           /\ Retried(s).uploaded = s.uploaded /\ Range(Retried(s).failed) = {}
  <1>0. s \in Queues /\ s.pending \in Seq(Items) /\ s.failed \in Seq(Clips)
    BY DEF QueueGood, Queues
  <1> DEFINE again == [i \in DOMAIN s.pending |-> Item(s.pending[i].clip)]
             more == [i \in DOMAIN s.failed |-> Item(s.failed[i])]
  <1>1. DOMAIN s.pending = 1..Len(s.pending) /\ Len(s.pending) \in Nat
        /\ \A i \in DOMAIN s.pending : s.pending[i] \in Items
    BY <1>0
  <1>2. \A i \in DOMAIN s.pending : again[i] \in Items /\ again[i].clip = s.pending[i].clip
    BY <1>1, ItemType DEF Items
  <1>3. again \in [1..Len(s.pending) -> Items]
    BY <1>1, <1>2
  <1>4. again \in Seq(Items) /\ DOMAIN again = DOMAIN s.pending
    BY <1>1, <1>3
  <1>5. more \in Seq(Items) /\ DOMAIN more = DOMAIN s.failed /\ \A i \in DOMAIN s.failed : more[i].clip = s.failed[i]
    BY <1>0, ItemsOf
  <1> HIDE DEF again, more
  <1>6. OnceEach(again) /\ ClipsOf(again) = ClipsOf(s.pending)
    BY <1>2, <1>4 DEF OnceEach, ClipsOf, QueueGood
  <1>7. OnceEach(more) /\ ClipsOf(more) = Range(s.failed)
    BY <1>5 DEF OnceEach, OnceIn, ClipsOf, Range, QueueGood
  <1>8. again \o more \in Seq(Items) /\ OnceEach(again \o more)
        /\ ClipsOf(again \o more) \subseteq ClipsOf(again) \cup ClipsOf(more)
    BY <1>4, <1>5, <1>6, <1>7, JoinedItems DEF QueueGood
  <1>9. Retried(s) = [s EXCEPT !.pending = again \o more, !.failed = <<>>]
    BY DEF Retried, again, more
  <1> DEFINE all == again \o more
             none == <<>>
  <1>a. none \in Seq(Clips) /\ all \in Seq(Items) /\ Retried(s) = [s EXCEPT !.pending = all, !.failed = none]
    BY <1>8, <1>9
  <1> HIDE DEF all, none
  <1>b. Retried(s) \in Queues /\ Retried(s).pending = all /\ Retried(s).uploaded = s.uploaded
         /\ Retried(s).failed = none
    BY <1>0, <1>a DEF Queues
  <1>10. Retried(s) \in Queues /\ Retried(s).pending = again \o more /\ Retried(s).uploaded = s.uploaded
         /\ Retried(s).failed = <<>>
    BY <1>b DEF all, none
  <1>11. Range(<<>>) = {} /\ OnceIn(<<>>) /\ Len(<<>>) = 0
    BY DEF Range, OnceIn
  <1> QED
    BY <1>6, <1>7, <1>8, <1>10, <1>11, OffsiteNumbers DEF QueueGood

-----------------------------------------------------------------------------
OffsiteTypes ==
  /\ born \in 0..MaxClips /\ onDisk \subseteq 1..born /\ remote \subseteq 1..born
  /\ storage \in {"there", "absent", "failing"}
  /\ enabled \in BOOLEAN /\ wake \in BOOLEAN /\ forgotten \subseteq Clips /\ fresh \subseteq onDisk
  /\ copies \in [Clips -> Nat]
  /\ cycle \in [at : {"rest", "upload", "save"}, state : Queues, todo : Seq(Items), tried : Nat]
  /\ reset \in [at : {"none", "load", "save"}, state : Queues]

(* The queue file, the worker's copy and the copy of a reset               *)
Truthful(s) == QueueGood(s) /\ \A c \in s.uploaded : copies[c] > 0
StatesRight == Truthful(queue) /\ Truthful(cycle.state) /\ Truthful(reset.state)

(* What the worker still tries has no fate yet.                            *)
TodoRight ==
  /\ OnceEach(cycle.todo)
  /\ ClipsOf(cycle.todo) \cap (cycle.state.uploaded \cup Range(cycle.state.failed)) = {}

(* The state that counts calls every clip uploaded that was uploaded,      *)
(* unless its record was lost.                                             *)
Current == IF cycle.at = "rest" THEN queue ELSE cycle.state
NeverAgain ==
  /\ \A c \in Clips : copies[c] > 0 => c <= born
  /\ \A c \in Clips \ forgotten : copies[c] <= 1 /\ (copies[c] > 0 => c \in Current.uploaded)

OffsiteIInv == OffsiteTypes /\ StatesRight /\ TodoRight /\ NeverAgain

LEMMA RestingWorker ==
    /\ NoCycle \in [at : {"rest", "upload", "save"}, state : Queues, todo : Seq(Items), tried : Nat]
    /\ NoCycle.at = "rest" /\ NoCycle.state = NewQueue /\ Truthful(NewQueue)
    /\ OnceEach(NoCycle.todo) /\ ClipsOf(NoCycle.todo) = {}
    /\ NoReset \in [at : {"none", "load", "save"}, state : Queues] /\ NoReset.state = NewQueue
  <1>1. NewQueue \in Queues /\ Truthful(NewQueue)
    BY EmptyQueue DEF QueueGood, Truthful
  <1>2. NoCycle.todo = <<>> /\ ClipsOf(<<>>) = {} /\ OnceEach(<<>>)
    BY EmptyQueue DEF NoCycle, OnceEach
  <1> HIDE DEF NewQueue
  <1>3. NoCycle \in [at : {"rest", "upload", "save"}, state : Queues, todo : Seq(Items), tried : Nat]
    BY <1>1 DEF NoCycle
  <1>4. NoReset \in [at : {"none", "load", "save"}, state : Queues] /\ NoReset.state = NewQueue
    BY <1>1 DEF NoReset
  <1>5. NoCycle.at = "rest" /\ NoCycle.state = NewQueue
    BY DEF NoCycle
  <1> QED
    BY <1>1, <1>2, <1>3, <1>4, <1>5

LEMMA OffsiteInitRight == OffsiteInit => OffsiteIInv
  <1> SUFFICES ASSUME OffsiteInit PROVE OffsiteIInv
    OBVIOUS
  <1>1. copies \in [Clips -> Nat] /\ \A c \in Clips : copies[c] = 0
    BY DEF OffsiteInit
  <1>2. born = 0 /\ onDisk = {} /\ remote = {} /\ storage = "there" /\ enabled = TRUE /\ wake = FALSE
        /\ forgotten = {} /\ fresh = {} /\ cycle = NoCycle /\ reset = NoReset /\ queue = NewQueue
    BY DEF OffsiteInit
  <1>3. OffsiteTypes
    <2>1. enabled \in BOOLEAN /\ wake \in BOOLEAN /\ forgotten \subseteq Clips /\ fresh \subseteq onDisk
      BY <1>2
    <2>2. born \in 0..MaxClips /\ onDisk \subseteq 1..born /\ remote \subseteq 1..born
      BY <1>2, OffsiteNumbers
    <2> QED
      BY <1>1, <1>2, <2>1, <2>2, RestingWorker DEF OffsiteTypes
  <1>4. StatesRight /\ TodoRight
    BY <1>2, RestingWorker DEF StatesRight, TodoRight
  <1>5. NeverAgain
    BY <1>1 DEF NeverAgain
  <1> QED
    BY <1>3, <1>4, <1>5 DEF OffsiteIInv

LEMMA BeginCycleKeeps == ASSUME OffsiteIInv, NEW early \in BOOLEAN, BeginCycle(early) PROVE OffsiteIInv'
  <1> DEFINE w == Waited(queue, early)
  <1> PICK kept \in Pruned(w) : \E s \in Enqueued(kept) :
         cycle' = [at |-> IF enabled THEN "upload" ELSE "save", state |-> s, todo |-> s.pending, tried |-> 0]
    BY DEF BeginCycle
  <1> PICK s \in Enqueued(kept) :
         cycle' = [at |-> IF enabled THEN "upload" ELSE "save", state |-> s, todo |-> s.pending, tried |-> 0]
    OBVIOUS
  <1>1. QueueGood(queue) /\ \A c \in queue.uploaded : copies[c] > 0
    BY DEF OffsiteIInv, StatesRight, Truthful
  <1>2. QueueGood(w) /\ ClipsOf(w.pending) = ClipsOf(queue.pending) /\ w.uploaded = queue.uploaded
        /\ w.failed = queue.failed
    BY <1>1, WaitedGood
  <1> HIDE DEF w
  <1>3. QueueGood(kept) /\ ClipsOf(kept.pending) \subseteq ClipsOf(queue.pending)
        /\ Range(kept.failed) \subseteq Range(queue.failed) /\ kept.uploaded = queue.uploaded \cap Discovered
    BY <1>2, PrunedGood
  <1>4. onDisk \subseteq Clips
    BY OffsiteNumbers DEF OffsiteIInv, OffsiteTypes, Clips
  <1>5. QueueGood(s) /\ ClipsOf(s.pending) \subseteq ClipsOf(kept.pending) \cup NewClips(kept)
        /\ s.uploaded = kept.uploaded /\ s.failed = kept.failed
    BY <1>3, <1>4, EnqueuedGood
  <1>6. s \in Queues /\ s.pending \in Seq(Items) /\ OnceEach(s.pending)
        /\ ClipsOf(s.pending) \cap (s.uploaded \cup Range(s.failed)) = {}
    BY <1>5 DEF QueueGood, Queues
  <1>7. cycle'.at # "rest" /\ cycle'.state = s /\ cycle'.todo = s.pending
    OBVIOUS
  <1>8. UNCHANGED <<born, onDisk, fresh, storage, enabled, queue, reset, remote, copies>> /\ wake' = FALSE
        /\ forgotten' = forgotten \cup (queue.uploaded \ Discovered) /\ cycle.at = "rest"
    BY DEF BeginCycle
  <1>9. OffsiteTypes'
    <2>1. cycle' \in [at : {"rest", "upload", "save"}, state : Queues, todo : Seq(Items), tried : Nat]
      BY <1>6
    <2>2. wake' \in BOOLEAN /\ forgotten' \subseteq Clips
      BY <1>1, <1>8 DEF OffsiteIInv, OffsiteTypes, QueueGood, Queues
    <2> QED
      BY <2>1, <2>2, <1>8 DEF OffsiteIInv, OffsiteTypes
  <1>10. Truthful(s)'
    BY <1>1, <1>3, <1>5, <1>8 DEF Truthful
  <1>11. StatesRight' /\ TodoRight'
    BY <1>6, <1>7, <1>8, <1>10 DEF OffsiteIInv, StatesRight, TodoRight, Truthful
  <1>12. NeverAgain'
    <2>1. ASSUME NEW c \in Clips \ forgotten', copies[c] > 0 PROVE c \in s.uploaded
      <3>1. c \in queue.uploaded
        BY <1>8, <2>1 DEF OffsiteIInv, NeverAgain, Current
      <3> QED
        BY <1>3, <1>5, <1>8, <2>1, <3>1
    <2>2. Current' = s
      BY <1>7 DEF Current
    <2> QED
      BY <1>7, <1>8, <2>1, <2>2 DEF OffsiteIInv, NeverAgain
  <1> QED
    BY <1>9, <1>11, <1>12 DEF OffsiteIInv

LEMMA TailOf ==
    ASSUME NEW q \in Seq(Items), q # <<>>
    PROVE  /\ Tail(q) \in Seq(Items) /\ Head(q) \in Items
           /\ ClipsOf(Tail(q)) \subseteq ClipsOf(q) /\ Head(q).clip \in ClipsOf(q)
           /\ OnceEach(q) => OnceEach(Tail(q)) /\ Head(q).clip \notin ClipsOf(Tail(q))
  <1> DEFINE r == Tail(q)
  <1>1. Len(q) \in Nat /\ Len(q) >= 1 /\ DOMAIN q = 1..Len(q)
    OBVIOUS
  <1>2. r \in Seq(Items) /\ Len(r) = Len(q) - 1 /\ \A i \in 1..Len(r) : r[i] = q[i + 1]
    BY <1>1
  <1>3. DOMAIN r = 1..(Len(q) - 1)
    BY <1>2
  <1>4. Head(q) = q[1] /\ 1 \in DOMAIN q
    BY <1>1
  <1> HIDE DEF r
  <1>5. \A i \in DOMAIN r : i + 1 \in DOMAIN q /\ r[i] = q[i + 1] /\ i + 1 # 1
    BY <1>1, <1>2, <1>3
  <1>6. ClipsOf(r) \subseteq ClipsOf(q) /\ Head(q).clip \in ClipsOf(q)
    BY <1>4, <1>5 DEF ClipsOf
  <1>7. ASSUME OnceEach(q) PROVE OnceEach(r) /\ Head(q).clip \notin ClipsOf(r)
    <2>1. ASSUME NEW i \in DOMAIN r, NEW j \in DOMAIN r, r[i].clip = r[j].clip PROVE i = j
      <3>1. i + 1 = j + 1
        BY <1>5, <1>7, <2>1 DEF OnceEach
      <3> QED
        BY <1>1, <1>3, <3>1
    <2>2. \A i \in DOMAIN r : r[i].clip # q[1].clip
      BY <1>4, <1>5, <1>7 DEF OnceEach
    <2> QED
      BY <2>1, <2>2, <1>4 DEF OnceEach, ClipsOf
  <1>8. Head(q) \in Items
    BY <1>1, <1>4
  <1> QED
    BY <1>2, <1>6, <1>7, <1>8 DEF r

LEMMA SkipKeeps == ASSUME OffsiteIInv, Skip PROVE OffsiteIInv'
  <1>1. cycle.todo \in Seq(Items) /\ cycle.todo # <<>>
    BY DEF Skip, OffsiteIInv, OffsiteTypes
  <1>2. Tail(cycle.todo) \in Seq(Items) /\ ClipsOf(Tail(cycle.todo)) \subseteq ClipsOf(cycle.todo)
        /\ OnceEach(Tail(cycle.todo))
    BY <1>1, TailOf DEF OffsiteIInv, TodoRight
  <1> DEFINE others == Tail(cycle.todo)
  <1> HIDE DEF others
  <1>3. cycle' = [cycle EXCEPT !.todo = others] /\ others \in Seq(Items)
    BY <1>2 DEF Skip, others
  <1>4. cycle'.at = cycle.at /\ cycle'.state = cycle.state /\ cycle'.todo = others
        /\ cycle' \in [at : {"rest", "upload", "save"}, state : Queues, todo : Seq(Items), tried : Nat]
    BY <1>3 DEF OffsiteIInv, OffsiteTypes
  <1>5. UNCHANGED <<born, onDisk, fresh, storage, enabled, queue, reset, wake, remote, copies, forgotten>>
    BY DEF Skip
  <1>6. OffsiteTypes'
    BY <1>4, <1>5 DEF OffsiteIInv, OffsiteTypes
  <1>7. StatesRight' /\ TodoRight'
    BY <1>2, <1>4, <1>5 DEF OffsiteIInv, StatesRight, TodoRight, Truthful, others
  <1>8. Current' = Current
    BY <1>4, <1>5 DEF Current
  <1>9. NeverAgain'
    BY <1>2, <1>4, <1>5, <1>8 DEF OffsiteIInv, NeverAgain, others
  <1> QED
    BY <1>6, <1>7, <1>9 DEF OffsiteIInv

(* An upload was tried: the state that comes of it has a fate for the clip *)
(* or waits with it, and the worker goes on with the others.               *)
LEMMA TriedKeeps ==
    ASSUME OffsiteIInv, NEW c \in Clips, Trying(c), NEW s, QueueGood(s),
           cycle' = [cycle EXCEPT !.todo = Tail(@), !.tried = @ + 1, !.state = s],
           UNCHANGED <<born, onDisk, fresh, storage, enabled, queue, reset, wake>>,
           forgotten \subseteq forgotten', forgotten' \subseteq Clips,
           remote' \subseteq 1..born, copies' \in [Clips -> Nat],
           \A k \in Clips : copies[k] > 0 => copies'[k] > 0,
           \A k \in s.uploaded : copies'[k] > 0,
           \A k \in Clips : copies'[k] > 0 => k <= born,
           \A k \in Clips \ {c} : copies'[k] = copies[k],
           ClipsOf(s.pending) \subseteq ClipsOf(cycle.state.pending),
           cycle.state.uploaded \subseteq s.uploaded, s.uploaded \subseteq cycle.state.uploaded \cup {c},
           Range(s.failed) \subseteq Range(cycle.state.failed) \cup {c},
           copies'[c] = copies[c] \/ c \in forgotten' \/ (copies'[c] = copies[c] + 1 /\ c \in s.uploaded)
    PROVE  OffsiteIInv'
  <1>1. cycle.todo \in Seq(Items) /\ cycle.todo # <<>> /\ c = Head(cycle.todo).clip /\ cycle.at = "upload"
    BY DEF Trying, OffsiteIInv, OffsiteTypes
  <1> DEFINE others == Tail(cycle.todo)
  <1>2. others \in Seq(Items) /\ ClipsOf(others) \subseteq ClipsOf(cycle.todo) \ {c}
        /\ OnceEach(others) /\ c \in ClipsOf(cycle.todo)
    BY <1>1, TailOf DEF OffsiteIInv, TodoRight
  <1> HIDE DEF others
  <1>3. s \in Queues
    BY DEF QueueGood
  <1>4. cycle' \in [at : {"rest", "upload", "save"}, state : Queues, todo : Seq(Items), tried : Nat]
        /\ cycle'.at = "upload" /\ cycle'.state = s /\ cycle'.todo = others
    <2>1. cycle' = [cycle EXCEPT !.todo = others, !.tried = cycle.tried + 1, !.state = s]
      BY DEF others
    <2>2. cycle \in [at : {"rest", "upload", "save"}, state : Queues, todo : Seq(Items), tried : Nat]
      BY DEF OffsiteIInv, OffsiteTypes
    <2>3. cycle.tried + 1 \in Nat
      BY <2>2
    <2> QED
      BY <1>1, <1>2, <1>3, <2>1, <2>2, <2>3
  <1>5. OffsiteTypes'
    BY <1>4 DEF OffsiteIInv, OffsiteTypes
  <1>6. StatesRight'
    <2>1. queue.uploaded \subseteq Clips /\ reset.state.uploaded \subseteq Clips
      BY DEF OffsiteIInv, StatesRight, Truthful, QueueGood, Queues
    <2> QED
      BY <2>1, <1>4 DEF OffsiteIInv, StatesRight, Truthful
  <1>7. TodoRight'
    BY <1>2, <1>4 DEF OffsiteIInv, TodoRight
  <1>8. NeverAgain'
    <2> SUFFICES ASSUME NEW k \in Clips \ forgotten'
                 PROVE  copies'[k] <= 1 /\ (copies'[k] > 0 => k \in s.uploaded)
      BY <1>1, <1>4 DEF NeverAgain, Current
    <2>1. copies[k] <= 1 /\ copies[k] \in Nat /\ (copies[k] > 0 => k \in cycle.state.uploaded)
      BY <1>1 DEF OffsiteIInv, NeverAgain, Current, OffsiteTypes
    <2>2. CASE k # c
      BY <2>1, <2>2
    <2>3. CASE k = c
      <3>1. copies[c] = 0
        BY <1>2, <2>1, <2>3 DEF OffsiteIInv, TodoRight
      <3> QED
        BY <2>3, <3>1
    <2> QED
      BY <2>2, <2>3
  <1> QED
    BY <1>5, <1>6, <1>7, <1>8 DEF OffsiteIInv

LEMMA TryKeeps ==
    ASSUME OffsiteIInv, NEW c \in Clips, Upload(c) \/ Missing(c) \/ UploadFails(c) \/ AnswerLost(c)
    PROVE  OffsiteIInv'
  <1> DEFINE old == cycle.state
  <1>0. QueueGood(old) /\ (\A k \in old.uploaded : copies[k] > 0) /\ copies \in [Clips -> Nat]
        /\ (\A k \in Clips : copies[k] > 0 => k <= born) /\ remote \subseteq 1..born /\ born \in Nat
        /\ old.uploaded \subseteq Clips /\ forgotten \subseteq Clips
    BY OffsiteNumbers DEF OffsiteIInv, StatesRight, Truthful, OffsiteTypes, NeverAgain, QueueGood, Queues
  <1>1. Trying(c)
    BY DEF Upload, Missing, UploadFails, AnswerLost
  <1>2. Head(cycle.todo) \in Items /\ c = Head(cycle.todo).clip /\ c \notin old.uploaded \cup Range(old.failed)
    <2>1. cycle.todo \in Seq(Items) /\ cycle.todo # <<>> /\ c = Head(cycle.todo).clip
      BY <1>1 DEF Trying, OffsiteIInv, OffsiteTypes
    <2>2. Head(cycle.todo) \in Items /\ Head(cycle.todo).clip \in ClipsOf(cycle.todo)
      BY <2>1, TailOf
    <2> QED
      BY <2>1, <2>2 DEF OffsiteIInv, TodoRight
  <1>3. CASE Upload(c)
    <2> PICK s \in Uploaded(old, c) : cycle' = [cycle EXCEPT !.todo = Tail(@), !.tried = @ + 1, !.state = s]
      BY <1>3 DEF Upload, NextItem
    <2>1. QueueGood(s) /\ ClipsOf(s.pending) \subseteq ClipsOf(old.pending) \ {c}
          /\ s.uploaded = old.uploaded \cup {c} /\ s.failed = old.failed
      BY <1>0, <1>2, UploadedGood
    <2>2. c \in 1..born
      BY <1>3 DEF Upload, Exists, OffsiteIInv, OffsiteTypes
    <2>3. remote' = remote \cup {c} /\ copies' = [copies EXCEPT ![c] = @ + 1]
          /\ UNCHANGED <<born, onDisk, fresh, storage, enabled, queue, reset, wake, forgotten>>
      BY <1>3 DEF Upload
    <2>4. copies' \in [Clips -> Nat] /\ copies'[c] = copies[c] + 1
          /\ \A k \in Clips \ {c} : copies'[k] = copies[k]
      BY <1>0, <2>3
    <2>5. \A k \in Clips : (copies[k] > 0 => copies'[k] > 0) /\ (copies'[k] > 0 => k <= born)
      BY <1>0, <2>2, <2>4
    <2>6. \A k \in s.uploaded : copies'[k] > 0
      BY <1>0, <2>1, <2>4
    <2> QED
      BY <1>0, <1>1, <2>1, <2>2, <2>3, <2>4, <2>5, <2>6, TriedKeeps
  <1>4. CASE Missing(c)
    <2> PICK s \in Dropped(old, c) : cycle' = [cycle EXCEPT !.todo = Tail(@), !.tried = @ + 1, !.state = s]
      BY <1>4 DEF Missing, NextItem
    <2>1. QueueGood(s) /\ ClipsOf(s.pending) \subseteq ClipsOf(old.pending) \ {c}
          /\ s.uploaded = old.uploaded /\ s.failed = old.failed
      BY <1>0, DroppedGood
    <2>2. UNCHANGED <<born, onDisk, fresh, storage, enabled, queue, reset, wake, remote, copies, forgotten>>
      BY <1>4 DEF Missing
    <2> QED
      BY <1>0, <1>1, <2>1, <2>2, TriedKeeps
  <1>5. CASE UploadFails(c)
    <2> PICK s \in Failure(old, Head(cycle.todo)) :
           cycle' = [cycle EXCEPT !.todo = Tail(@), !.tried = @ + 1, !.state = s]
      BY <1>5 DEF UploadFails, NextItem
    <2>1. QueueGood(s) /\ ClipsOf(s.pending) \subseteq ClipsOf(old.pending)
          /\ s.uploaded = old.uploaded /\ Range(s.failed) \subseteq Range(old.failed) \cup {c}
      BY <1>0, <1>2, FailureGood
    <2>2. UNCHANGED <<born, onDisk, fresh, storage, enabled, queue, reset, wake, remote, copies, forgotten>>
      BY <1>5 DEF UploadFails
    <2> QED
      BY <1>0, <1>1, <2>1, <2>2, TriedKeeps
  <1>6. CASE AnswerLost(c)
    <2> PICK s \in Failure(old, Head(cycle.todo)) :
           cycle' = [cycle EXCEPT !.todo = Tail(@), !.tried = @ + 1, !.state = s]
      BY <1>6 DEF AnswerLost, NextItem
    <2>1. QueueGood(s) /\ ClipsOf(s.pending) \subseteq ClipsOf(old.pending)
          /\ s.uploaded = old.uploaded /\ Range(s.failed) \subseteq Range(old.failed) \cup {c}
      BY <1>0, <1>2, FailureGood
    <2>2. c \in 1..born
      BY <1>6 DEF AnswerLost, Exists, OffsiteIInv, OffsiteTypes
    <2>3. remote' = remote \cup {c} /\ copies' = [copies EXCEPT ![c] = @ + 1] /\ forgotten' = forgotten \cup {c}
          /\ UNCHANGED <<born, onDisk, fresh, storage, enabled, queue, reset, wake>>
      BY <1>6 DEF AnswerLost
    <2>4. copies' \in [Clips -> Nat] /\ copies'[c] = copies[c] + 1
          /\ \A k \in Clips \ {c} : copies'[k] = copies[k]
      BY <1>0, <2>3
    <2>5. \A k \in Clips : (copies[k] > 0 => copies'[k] > 0) /\ (copies'[k] > 0 => k <= born)
      BY <1>0, <2>2, <2>4
    <2>6. \A k \in s.uploaded : copies'[k] > 0
      BY <1>0, <2>1, <2>5
    <2> QED
      BY <1>0, <1>1, <2>1, <2>2, <2>3, <2>4, <2>5, <2>6, TriedKeeps
  <1> QED
    BY <1>3, <1>4, <1>5, <1>6

LEMMA WorkerRestsKeeps ==
    ASSUME OffsiteIInv, EndUploads \/ SaveCycle \/ LoseCycle \/ (\E torn \in BOOLEAN : RestartWorker(torn)) \/ Sweep PROVE OffsiteIInv'
  <1>1. CASE EndUploads
    <2>1. cycle'.state = cycle.state /\ cycle'.todo = cycle.todo /\ cycle.at # "rest" /\ cycle'.at # "rest"
          /\ cycle' \in [at : {"rest", "upload", "save"}, state : Queues, todo : Seq(Items), tried : Nat]
      BY <1>1 DEF EndUploads, OffsiteIInv, OffsiteTypes
    <2>2. UNCHANGED <<born, onDisk, fresh, storage, enabled, queue, reset, wake, remote, copies, forgotten>>
      BY <1>1 DEF EndUploads
    <2>3. OffsiteTypes'
      BY <2>1, <2>2 DEF OffsiteIInv, OffsiteTypes
    <2> QED
      BY <2>1, <2>2, <2>3 DEF OffsiteIInv, StatesRight, Truthful, TodoRight, NeverAgain, Current
  <1>2. CASE SaveCycle
    <2>1. queue' = cycle.state /\ cycle' = NoCycle /\ cycle.at # "rest"
          /\ UNCHANGED <<born, onDisk, fresh, storage, enabled, reset, wake, remote, copies, forgotten>>
      BY <1>2 DEF SaveCycle
    <2>2. OffsiteTypes'
      BY <2>1, RestingWorker DEF OffsiteIInv, OffsiteTypes
    <2>3. StatesRight' /\ TodoRight'
      BY <2>1, RestingWorker, EmptyQueue DEF OffsiteIInv, StatesRight, Truthful, TodoRight
    <2>4. Current' = Current /\ ClipsOf(cycle'.todo) = {}
      BY <2>1, RestingWorker DEF Current
    <2>5. NeverAgain'
      BY <2>1, <2>4 DEF OffsiteIInv, NeverAgain
    <2> QED
      BY <2>2, <2>3, <2>5 DEF OffsiteIInv
  <1>3. CASE LoseCycle \/ (\E torn \in BOOLEAN : RestartWorker(torn))
    <2>1. cycle' = NoCycle /\ reset' \in {reset, NoReset} /\ wake' \in {wake, FALSE}
          /\ queue' \in {queue, NewQueue}
          /\ UNCHANGED <<born, onDisk, fresh, storage, enabled, remote, copies>>
      BY <1>3 DEF LoseCycle, RestartWorker
    <2>2. Current.uploaded \subseteq forgotten' \cup queue'.uploaded
          /\ forgotten \subseteq forgotten' /\ forgotten' \subseteq Clips
      <3>1. queue.uploaded \subseteq Clips /\ cycle.state.uploaded \subseteq Clips /\ forgotten \subseteq Clips
        BY DEF OffsiteIInv, OffsiteTypes, StatesRight, Truthful, QueueGood, Queues
      <3> QED
        BY <1>3, <3>1 DEF LoseCycle, RestartWorker, Current
    <2>3. OffsiteTypes'
      <3>1. wake' \in BOOLEAN
        BY <2>1 DEF OffsiteIInv, OffsiteTypes
      <3> QED
        BY <2>1, <2>2, <3>1, RestingWorker DEF OffsiteIInv, OffsiteTypes
    <2>4. StatesRight' /\ TodoRight'
      BY <2>1, RestingWorker, EmptyQueue DEF OffsiteIInv, StatesRight, Truthful, TodoRight
    <2>5. Current' = queue'
      BY <2>1, RestingWorker DEF Current
    <2>6. NeverAgain'
      BY <2>1, <2>2, <2>5 DEF OffsiteIInv, NeverAgain
    <2> QED
      BY <2>3, <2>4, <2>6 DEF OffsiteIInv
  <1>4. CASE Sweep
    <2>1. remote' \subseteq remote /\
          UNCHANGED <<born, onDisk, fresh, storage, enabled, queue, cycle, reset, wake, copies, forgotten>>
      BY <1>4 DEF Sweep
    <2>2. OffsiteTypes'
      BY <2>1 DEF OffsiteIInv, OffsiteTypes
    <2> QED
      BY <2>1, <2>2 DEF OffsiteIInv, StatesRight, Truthful, TodoRight, NeverAgain, Current
  <1> QED
    BY <1>1, <1>2, <1>3, <1>4

LEMMA ResetKeeps ==
    ASSUME OffsiteIInv, (\E on \in BOOLEAN : Reconfigure(on)) \/ LoadReset \/ SaveReset PROVE OffsiteIInv'
  <1>1. CASE \E on \in BOOLEAN : Reconfigure(on)
    <2>1. reset'.state = NewQueue /\ reset' \in [at : {"none", "load", "save"}, state : Queues]
          /\ enabled' \in BOOLEAN
          /\ UNCHANGED <<born, onDisk, fresh, storage, queue, cycle, wake, remote, copies, forgotten>>
      BY <1>1, RestingWorker, EmptyQueue DEF Reconfigure, QueueGood
    <2>2. OffsiteTypes'
      BY <2>1 DEF OffsiteIInv, OffsiteTypes
    <2>3. StatesRight'
      BY <2>1, RestingWorker, EmptyQueue DEF OffsiteIInv, StatesRight, Truthful
    <2> QED
      BY <2>1, <2>2, <2>3 DEF OffsiteIInv, TodoRight, NeverAgain, Current
  <1>2. CASE LoadReset
    <2>1. queue \in Queues
      BY DEF OffsiteIInv, StatesRight, Truthful, QueueGood
    <2>2. reset'.state = queue /\ reset' \in [at : {"none", "load", "save"}, state : Queues]
          /\ UNCHANGED <<born, onDisk, fresh, storage, enabled, queue, cycle, wake, remote, copies, forgotten>>
      BY <1>2, <2>1 DEF LoadReset
    <2>3. OffsiteTypes'
      BY <2>2 DEF OffsiteIInv, OffsiteTypes
    <2> QED
      BY <2>2, <2>3 DEF OffsiteIInv, StatesRight, Truthful, TodoRight, NeverAgain, Current
  <1>3. CASE SaveReset
    <2>1. queue' = Retried(reset.state) /\ reset' = NoReset /\ wake' = TRUE
          /\ forgotten' = forgotten \cup (queue.uploaded \ reset.state.uploaded)
          /\ UNCHANGED <<born, onDisk, fresh, storage, enabled, cycle, remote, copies>>
      BY <1>3 DEF SaveReset
    <2> DEFINE q == Retried(reset.state)
    <2>2. QueueGood(q) /\ ClipsOf(q.pending) \subseteq ClipsOf(reset.state.pending) \cup Range(reset.state.failed)
          /\ q.uploaded = reset.state.uploaded /\ Range(q.failed) = {}
      BY RetriedGood DEF OffsiteIInv, StatesRight, Truthful
    <2> HIDE DEF q
    <2>3. queue' = q
      BY <2>1 DEF q
    <2>4. OffsiteTypes'
      <3>1. wake' \in BOOLEAN /\ forgotten' \subseteq Clips
        BY <2>1 DEF OffsiteIInv, OffsiteTypes, StatesRight, Truthful, QueueGood, Queues
      <3> QED
        BY <2>1, <3>1, RestingWorker DEF OffsiteIInv, OffsiteTypes
    <2>5. StatesRight' /\ TodoRight'
      BY <2>1, <2>2, <2>3, RestingWorker, EmptyQueue DEF OffsiteIInv, StatesRight, Truthful, TodoRight
    <2>6. NeverAgain'
      <3>1. Current.uploaded \subseteq forgotten' \cup Current'.uploaded
        BY <2>1, <2>2, <2>3 DEF Current
      <3> QED
        BY <2>1, <3>1 DEF OffsiteIInv, NeverAgain
    <2> QED
      BY <2>4, <2>5, <2>6 DEF OffsiteIInv
  <1> QED
    BY <1>1, <1>2, <1>3

LEMMA SurroundingsKeep ==
    ASSUME OffsiteIInv,
           ClipFinished \/ Mount \/ (\E c \in Clips : ClipRewritten(c) \/ ClipAges(c) \/ ClipDeleted(c))
    PROVE  OffsiteIInv'
  <1>0. born \in 0..MaxClips /\ onDisk \subseteq 1..born /\ remote \subseteq 1..born /\ fresh \subseteq onDisk
    BY DEF OffsiteIInv, OffsiteTypes
  <1>1. UNCHANGED <<enabled, queue, cycle, reset, wake, remote, copies, forgotten>>
        /\ storage' \in {"there", "absent", "failing"}
    BY DEF ClipFinished, ClipRewritten, ClipAges, ClipDeleted, Mount, OffsiteIInv, OffsiteTypes
  <1>2. born' \in 0..MaxClips /\ born <= born' /\ onDisk' \subseteq 1..born' /\ fresh' \subseteq onDisk'
    <2>1. CASE ClipFinished
      BY <1>0, <2>1, OffsiteNumbers DEF ClipFinished
    <2>2. CASE (\E c \in Clips : ClipAges(c) \/ ClipDeleted(c)) \/ Mount
      <3>1. born' = born /\ onDisk' \subseteq onDisk /\ fresh' \subseteq onDisk'
        BY <1>0, <2>2 DEF ClipAges, ClipDeleted, Mount
      <3> QED
        BY <1>0, <3>1
    <2>3. CASE \E c \in Clips : ClipRewritten(c)
      BY <1>0, <2>3, OffsiteNumbers DEF ClipRewritten, Clips
    <2> QED
      BY <2>1, <2>2, <2>3
  <1>3. remote' \subseteq 1..born'
    BY <1>0, <1>1, <1>2
  <1>4. OffsiteTypes'
    BY <1>1, <1>2, <1>3 DEF OffsiteIInv, OffsiteTypes
  <1>5. StatesRight' /\ TodoRight' /\ Current' = Current
    BY <1>1 DEF OffsiteIInv, StatesRight, Truthful, TodoRight, Current
  <1>6. \A c \in Clips : copies[c] > 0 => c <= born'
    BY <1>0, <1>2, OffsiteNumbers DEF OffsiteIInv, NeverAgain, Clips
  <1>7. NeverAgain'
    BY <1>1, <1>2, <1>5, <1>6 DEF OffsiteIInv, NeverAgain
  <1> QED
    BY <1>4, <1>5, <1>7 DEF OffsiteIInv

LEMMA OffsiteStep == OffsiteIInv /\ OffsiteNext => OffsiteIInv'
  BY BeginCycleKeeps, SkipKeeps, TryKeeps, WorkerRestsKeeps, ResetKeeps, SurroundingsKeep
     DEF OffsiteNext, WorkerRuns

LEMMA OffsiteStutters == OffsiteIInv /\ UNCHANGED offsiteVars => OffsiteIInv'
  BY DEF offsiteVars, OffsiteIInv, OffsiteTypes, StatesRight, Truthful, TodoRight, NeverAgain, Current

LEMMA OffsiteGives == OffsiteIInv => OffsiteTypeOK /\ UploadedOnce
  <1> SUFFICES ASSUME OffsiteIInv PROVE OffsiteTypeOK /\ UploadedOnce
    OBVIOUS
  <1>1. ASSUME NEW s, QueueGood(s)
        PROVE  /\ \A i \in DOMAIN s.pending : s.pending[i].attempts < MaxRetries
               /\ s.uploaded \subseteq Clips /\ Range(s.failed) \subseteq Clips /\ Len(s.failed) <= MaxFailed
    <2>1. s.pending \in Seq(Items) /\ s.failed \in Seq(Clips) /\ s.uploaded \subseteq Clips
      BY <1>1 DEF QueueGood, Queues
    <2>2. \A i \in DOMAIN s.pending : s.pending[i] \in Items
      BY <2>1
    <2>3. \A i \in DOMAIN s.failed : s.failed[i] \in Clips
      BY <2>1
    <2>4. \A i \in Items : i.attempts < MaxRetries
      BY OffsiteNumbers DEF Items
    <2> QED
      BY <1>1, <2>1, <2>2, <2>3, <2>4 DEF QueueGood, Range
  <1>2. QueueGood(queue) /\ QueueGood(cycle.state) /\ QueueGood(reset.state)
    BY DEF OffsiteIInv, StatesRight, Truthful
  <1>3. OffsiteTypeOK
    BY <1>1, <1>2 DEF OffsiteIInv, OffsiteTypes, OffsiteTypeOK
  <1>4. UploadedOnce
    BY <1>2 DEF OffsiteIInv, StatesRight, Truthful, NeverAgain, UploadedOnce, QueueGood, OnceEach
  <1> QED
    BY <1>3, <1>4

-----------------------------------------------------------------------------
(* The configuration backup                                                *)

Holdings == UNION {[S -> 0..Defaults] : S \in SUBSET Files}
JobTypes ==
  job \in [at : {"idle", "apply", "rollback"}, todo : SUBSET Files, from : Holdings, snap : Holdings,
           cleared : SUBSET Files, stuck : SUBSET Files]
BackupTypes ==
  /\ live \in [Files -> 0..Defaults] /\ before \in [Files -> 0..Defaults]
  /\ saves \in 1..MaxSaves /\ imports \in Nat
  /\ bundles \subseteq [files : Holdings, intact : BOOLEAN]
  /\ export \in [got : Holdings, todo : SUBSET Files, on : BOOLEAN]
  /\ JobTypes
  /\ snapshots \in Seq(Holdings) /\ Len(snapshots) <= imports
  /\ meddled \in BOOLEAN /\ broken \in BOOLEAN

(* The hostname is read when the settings have been.                       *)
ExportRight == "hostname" \in export.todo => "settings" \in export.todo \cup DOMAIN export.got

(* An import works on the files it snapshot; those it is done with have    *)
(* the content it means them to have, unless a removal failed, and the     *)
(* others it leaves alone.                                                 *)
Returned(f) == live[f] = job.snap[f] \/ (f \in job.stuck /\ job.snap[f] = 0)
JobRight ==
  job.at # "idle" =>
    /\ Targets \subseteq DOMAIN job.from /\ job.todo \subseteq Targets
    /\ \A f \in Targets : job.snap[f] = before[f]
    /\ ~meddled => /\ \A f \in Files \ Targets : live[f] = before[f]
                   /\ job.at = "rollback" => \A f \in job.cleared : live[f] = 0 \/ f \in job.stuck
                   /\ \A f \in Targets \ job.todo :
                        IF job.at = "apply" THEN live[f] = job.from[f] ELSE Returned(f)

BackupIInv == BackupTypes /\ ExportRight /\ JobRight

LEMMA HoldingsType ==
    ASSUME NEW h \in Holdings
    PROVE  DOMAIN h \in SUBSET Files /\ h \in [DOMAIN h -> 0..Defaults]
  BY DEF Holdings

LEMMA HoldingsIntro ==
    ASSUME NEW S \in SUBSET Files, NEW h \in [S -> 0..Defaults]
    PROVE  h \in Holdings
  BY DEF Holdings

LEMMA NoFilesType == NoFiles \in Holdings /\ DOMAIN NoFiles = {}
  <1>1. NoFiles \in [{} -> 0..Defaults]
    BY DEF NoFiles
  <1> QED
    BY <1>1, HoldingsIntro DEF NoFiles

LEMMA NoJobType ==
    /\ NoJob \in [at : {"idle", "apply", "rollback"}, todo : SUBSET Files, from : Holdings,
                  snap : Holdings, cleared : SUBSET Files, stuck : SUBSET Files]
    /\ NoJob.at = "idle"
  BY NoFilesType DEF NoJob

LEMMA NoExportType == NoExport \in [got : Holdings, todo : SUBSET Files, on : BOOLEAN]
  BY NoFilesType DEF NoExport

LEMMA ScopeFiles == ASSUME NEW s \in Scopes PROVE FilesOf(s) \in SUBSET Files
  BY DEF Scopes, FilesOf, Files, Components

LEMMA BlankType == Defaults \in Nat /\ 0..MaxSaves \subseteq 0..Defaults /\ 0 \in 0..Defaults /\ Defaults \in 0..Defaults
  BY BackupBounds DEF Defaults

LEMMA BackupInitRight == BackupInit => BackupIInv
  <1> SUFFICES ASSUME BackupInit PROVE BackupIInv
    OBVIOUS
  <1> USE BackupBounds
  <1>1. live \in [Files -> 0..Defaults] /\ before \in [Files -> 0..Defaults]
    BY BlankType DEF BackupInit
  <1>2. snapshots \in Seq(Holdings) /\ Len(snapshots) <= imports
    BY DEF BackupInit
  <1>3. saves \in 1..MaxSaves /\ imports \in Nat
    BY DEF BackupInit
  <1>4. bundles = {} /\ export = NoExport /\ job = NoJob /\ meddled \in BOOLEAN /\ broken \in BOOLEAN
    BY DEF BackupInit
  <1>5. BackupTypes
    BY <1>1, <1>2, <1>3, <1>4, NoJobType, NoExportType DEF BackupTypes, JobTypes
  <1> QED
    BY <1>4, <1>5, NoJobType DEF BackupIInv, JobRight, ExportRight, NoExport

LEMMA BackupExports ==
    ASSUME BackupIInv,
           \/ \E s \in Scopes : BeginExport(s)
           \/ ExportRead \/ EndExport \/ \E b \in bundles : Damage(b)
    PROVE  BackupIInv'
  <1>1. UNCHANGED <<live, job, snapshots, before, meddled, broken, saves, imports>>
    BY DEF BeginExport, ExportRead, EndExport, Damage
  <1>2. bundles' \subseteq [files : Holdings, intact : BOOLEAN]
        /\ export' \in [got : Holdings, todo : SUBSET Files, on : BOOLEAN]
    <2>1. CASE \E s \in Scopes : BeginExport(s)
      BY <2>1, ScopeFiles, NoFilesType DEF BeginExport, BackupIInv, BackupTypes
    <2>2. CASE ExportRead
      <3> PICK f \in First(ReadOrder, export.todo) :
             export' = [export EXCEPT !.todo = @ \ {f},
                        !.got = [g \in DOMAIN @ \cup {f} |-> IF g = f THEN Reads(f) ELSE @[g]]]
        BY <2>2 DEF ExportRead
      <3>1. f \in Files
        BY DEF First, BackupIInv, BackupTypes
      <3>2. export.got \in Holdings /\ live \in [Files -> 0..Defaults]
        BY DEF BackupIInv, BackupTypes
      <3> DEFINE got == [g \in DOMAIN export.got \cup {f} |-> IF g = f THEN Reads(f) ELSE export.got[g]]
      <3>a. Reads(f) \in 0..Defaults
        <4>1. f = "hostname" => "settings" \in DOMAIN export.got
          <5>1. f = "hostname" => "settings" \notin export.todo
            BY DEF First, ReadOrder
          <5> QED
            BY <5>1 DEF First, BackupIInv, ExportRight
        <4> QED
          BY <3>1, <3>2, <4>1, BlankType, HoldingsType DEF Reads
      <3> HIDE DEF Reads
      <3>3. got \in [DOMAIN export.got \cup {f} -> 0..Defaults]
        BY <3>1, <3>2, <3>a, HoldingsType
      <3>4. got \in Holdings
        BY <3>1, <3>2, <3>3, HoldingsType, HoldingsIntro
      <3> HIDE DEF got
      <3>5. export' = [export EXCEPT !.todo = @ \ {f}, !.got = got]
        BY DEF got
      <3> QED
        BY <2>2, <3>4, <3>5 DEF ExportRead, BackupIInv, BackupTypes
    <2>3. CASE EndExport
      <3>1. export.got \in Holdings
        BY DEF BackupIInv, BackupTypes
      <3>2. [files |-> export.got, intact |-> TRUE] \in [files : Holdings, intact : BOOLEAN]
        BY <3>1
      <3> QED
        BY <2>3, <3>2, NoExportType DEF EndExport, BackupIInv, BackupTypes
    <2>4. CASE \E b \in bundles : Damage(b)
      BY <2>4 DEF Damage, BackupIInv, BackupTypes
    <2> QED
      BY <2>1, <2>2, <2>3, <2>4
  <1>3. ExportRight'
    <2>1. CASE \E s \in Scopes : BeginExport(s)
      BY <2>1 DEF BeginExport, FilesOf, ExportRight
    <2>2. CASE ExportRead
      <3> PICK f \in First(ReadOrder, export.todo) :
             export' = [export EXCEPT !.todo = @ \ {f},
                        !.got = [g \in DOMAIN @ \cup {f} |-> IF g = f THEN Reads(f) ELSE @[g]]]
        BY <2>2 DEF ExportRead
      <3>1. export'.todo = export.todo \ {f} /\ DOMAIN export'.got = DOMAIN export.got \cup {f}
        BY DEF BackupIInv, BackupTypes
      <3> QED
        BY <3>1 DEF BackupIInv, ExportRight
    <2>3. CASE EndExport
      BY <2>3 DEF EndExport, NoExport, ExportRight
    <2>4. CASE \E b \in bundles : Damage(b)
      BY <2>4 DEF Damage, BackupIInv, ExportRight
    <2> QED
      BY <2>1, <2>2, <2>3, <2>4
  <1> QED
    BY <1>1, <1>2, <1>3 DEF BackupIInv, BackupTypes, JobTypes, JobRight, Returned, Targets

LEMMA BackupBegins ==
    ASSUME BackupIInv, NEW s \in Scopes, NEW b \in bundles, BeginImport(b, s)
    PROVE  BackupIInv'
  <1>1. FilesOf(s) \in SUBSET Files
    BY ScopeFiles
  <1>2. Snapshot(s) \in [FilesOf(s) -> 0..Defaults]
    BY <1>1 DEF Snapshot, BackupIInv, BackupTypes
  <1>3. Snapshot(s) \in Holdings /\ DOMAIN Snapshot(s) = FilesOf(s)
    BY <1>1, <1>2, HoldingsIntro
  <1>4. b.files \in Holdings
    BY DEF BackupIInv, BackupTypes
  <1>5. JobTypes'
    BY <1>1, <1>3, <1>4 DEF BeginImport, JobTypes
  <1>6. snapshots' \in Seq(Holdings) /\ Len(snapshots') <= imports' /\ imports' \in Nat
    BY <1>3 DEF BeginImport, BackupIInv, BackupTypes
  <1>7. JobRight'
    <2>1. Targets' = FilesOf(s) /\ job'.todo = FilesOf(s) /\ job'.from = b.files
          /\ job'.snap = Snapshot(s)
      BY <1>3 DEF BeginImport, Targets
    <2>2. FilesOf(s) \subseteq DOMAIN b.files
      BY DEF BeginImport, Complete
    <2>3. \A f \in FilesOf(s) : Snapshot(s)[f] = live[f]
      BY DEF Snapshot
    <2> QED
      BY <2>1, <2>2, <2>3 DEF BeginImport, JobRight
  <1> QED
    BY <1>5, <1>6, <1>7 DEF BeginImport, BackupIInv, BackupTypes, ExportRight

LEMMA BackupClears == ASSUME BackupIInv, Clear \/ ClearFails PROVE BackupIInv'
  <1> PICK f \in First(ApplyOrder, job.todo) :
         /\ live' = [live EXCEPT ![f] = 0] \/ live' = live
         /\ job'.cleared = {f} /\ job'.stuck \in {job.stuck, job.stuck \cup {f}}
         /\ job'.at = job.at /\ job'.todo = job.todo /\ job'.from = job.from /\ job'.snap = job.snap
         /\ live' = [live EXCEPT ![f] = 0] \/ f \in job'.stuck
         /\ job' \in [at : {"idle", "apply", "rollback"}, todo : SUBSET Files, from : Holdings,
                      snap : Holdings, cleared : SUBSET Files, stuck : SUBSET Files]
    <2>1. JobTypes
      BY DEF BackupIInv, BackupTypes
    <2>2. \A f \in First(ApplyOrder, job.todo) : f \in Files
      BY <2>1 DEF First, JobTypes
    <2>3. CASE Clear
      <3> PICK f \in First(ApplyOrder, job.todo) :
             live' = [live EXCEPT ![f] = 0] /\ job' = [job EXCEPT !.cleared = {f}]
        BY <2>3 DEF Clear
      <3> QED
        BY <2>1, <2>2 DEF JobTypes
    <2>4. CASE ClearFails
      <3> PICK f \in First(ApplyOrder, job.todo) : job' = [job EXCEPT !.cleared = {f}, !.stuck = @ \cup {f}]
        BY <2>4 DEF ClearFails
      <3>1. live' = live
        BY <2>4 DEF ClearFails
      <3> QED
        BY <2>1, <2>2, <3>1 DEF JobTypes
    <2> QED
      BY <2>3, <2>4
  <1>0. UNCHANGED <<bundles, export, snapshots, before, meddled, broken, saves, imports>> /\ job.at # "idle"
    BY DEF Clear, ClearFails
  <1>1. f \in Files /\ f \in job.todo /\ f \in Targets
    BY <1>0 DEF First, BackupIInv, BackupTypes, JobTypes, JobRight
  <1>2. BackupTypes'
    <2>1. live' \in [Files -> 0..Defaults]
      BY <1>1, BlankType DEF BackupIInv, BackupTypes
    <2> QED
      BY <1>0, <2>1 DEF BackupIInv, BackupTypes, JobTypes
  <1>3. live \in [Files -> 0..Defaults] /\ \A g \in Files \ {f} : live'[g] = live[g]
    BY DEF BackupIInv, BackupTypes
  <1>4. live'[f] = 0 \/ f \in job'.stuck
    BY <1>1, <1>3
  <1>5. JobRight'
    <2>1. Targets' = Targets /\ Targets \subseteq Files
      BY HoldingsType DEF BackupIInv, BackupTypes, JobTypes, Targets
    <2> QED
      BY <1>0, <1>1, <1>3, <1>4, <2>1 DEF BackupIInv, JobRight, Returned
  <1> QED
    BY <1>0, <1>2, <1>5 DEF BackupIInv, ExportRight

LEMMA BackupPuts == ASSUME BackupIInv, PutFile PROVE BackupIInv'
  <1> PICK f \in First(ApplyOrder, job.todo) :
         /\ f \in job.cleared \/ (job.at = "apply" /\ f # "certs")
         /\ live' = [live EXCEPT ![f] = Contents(f)]
         /\ job' = [job EXCEPT !.todo = @ \ {f}, !.cleared = {}]
    BY DEF PutFile
  <1>1. f \in Files /\ f \in job.todo /\ f \in Targets /\ job.at \in {"apply", "rollback"}
        /\ f \in DOMAIN job.from
    BY DEF First, BackupIInv, BackupTypes, JobTypes, JobRight, PutFile
  <1>2. Contents(f) \in 0..Defaults
    BY <1>1, HoldingsType DEF Contents, BackupIInv, BackupTypes, JobTypes, Targets
  <1>3. BackupTypes'
    BY <1>1, <1>2 DEF PutFile, BackupIInv, BackupTypes, JobTypes
  <1>4. job'.at = job.at /\ job'.todo = job.todo \ {f} /\ job'.from = job.from /\ job'.snap = job.snap
        /\ job'.stuck = job.stuck /\ job'.cleared = {}
    BY DEF BackupIInv, BackupTypes, JobTypes
  <1>5. live'[f] = Contents(f) /\ \A g \in Files \ {f} : live'[g] = live[g]
    BY <1>1 DEF BackupIInv, BackupTypes
  <1>6. ~meddled => IF job.at = "apply" THEN Contents(f) = job.from[f]
                    ELSE Contents(f) = job.snap[f] \/ (f \in job.stuck /\ job.snap[f] = 0)
    BY <1>1 DEF Contents, BackupIInv, JobRight
  <1>7. JobRight'
    <2>1. Targets' = Targets /\ Targets \subseteq Files
      BY <1>4, HoldingsType DEF BackupIInv, BackupTypes, JobTypes, Targets
    <2>2. UNCHANGED <<before, meddled>>
      BY DEF PutFile
    <2> HIDE DEF Contents
    <2> QED
      BY <1>1, <1>4, <1>5, <1>6, <2>1, <2>2 DEF BackupIInv, JobRight, Returned
  <1> QED
    BY <1>3, <1>7 DEF PutFile, BackupIInv, ExportRight

LEMMA BackupFails == ASSUME BackupIInv, ApplyFails PROVE BackupIInv'
  <1>1. Targets \in SUBSET Files
    BY HoldingsType DEF BackupIInv, BackupTypes, JobTypes, Targets
  <1>2. BackupTypes'
    BY <1>1 DEF ApplyFails, Rollback, BackupIInv, BackupTypes, JobTypes
  <1>3. job'.todo = Targets /\ job'.from = job.from /\ job'.snap = job.snap /\ job'.cleared = {}
    BY DEF ApplyFails, Rollback, BackupIInv, BackupTypes, JobTypes
  <1> QED
    BY <1>1, <1>2, <1>3 DEF ApplyFails, BackupIInv, BackupTypes, JobRight, ExportRight, Targets

LEMMA NewestIsShorter ==
    ASSUME NEW s \in Seq(Holdings)
    PROVE  Newest(s) \in Seq(Holdings) /\ Len(Newest(s)) <= Len(s)
  BY BackupBounds DEF Newest

LEMMA BackupEnds == ASSUME BackupIInv, EndImport \/ Abandon PROVE BackupIInv'
  <1>1. snapshots' \in Seq(Holdings) /\ Len(snapshots') <= imports'
    BY NewestIsShorter DEF EndImport, Abandon, BackupIInv, BackupTypes
  <1>2. JobTypes' /\ job'.at = "idle"
    BY NoJobType DEF EndImport, Abandon, JobTypes
  <1> QED
    BY <1>1, <1>2 DEF EndImport, Abandon, BackupIInv, BackupTypes, JobRight, ExportRight

LEMMA BackupSaves == ASSUME BackupIInv, NEW fs \in SUBSET Files, SaveOther(fs) PROVE BackupIInv'
  <1>1. BackupTypes'
    <2>1. live' \in [Files -> 0..Defaults] /\ saves' \in 1..MaxSaves
      BY BackupBounds, BlankType DEF SaveOther, BackupIInv, BackupTypes
    <2>2. meddled' \in BOOLEAN
      BY DEF SaveOther, BackupIInv, BackupTypes
    <2> QED
      BY <2>1, <2>2 DEF SaveOther, BackupIInv, BackupTypes, JobTypes
  <1>2. job' = job /\ (job.at # "idle" => meddled') /\ before' = before /\ export' = export
    BY DEF SaveOther
  <1> QED
    BY <1>1, <1>2 DEF BackupIInv, BackupTypes, JobRight, ExportRight, Targets

LEMMA BackupStep == BackupIInv /\ BackupNext => BackupIInv'
  BY BackupExports, BackupBegins, BackupClears, BackupPuts, BackupFails, BackupEnds, BackupSaves
     DEF BackupNext

LEMMA BackupStutters == BackupIInv /\ UNCHANGED backupVars => BackupIInv'
  BY DEF backupVars, BackupIInv, BackupTypes, JobTypes, JobRight, ExportRight, Returned, Targets

LEMMA BackupGivesTypes == BackupIInv => BackupTypeOK
  BY HoldingsType DEF BackupIInv, BackupTypes, JobTypes, BackupTypeOK, Targets

(* the step of ImportAtomic *)
LEMMA ImportEnds ==
    ASSUME BackupIInv, BackupNext, Ends, ~meddled
    PROVE  IF job.at = "apply" THEN AllNew
           ELSE \A f \in Files : live[f] = before[f] \/ (f \in job.stuck /\ before[f] = 0)
  <1>1. EndImport
    BY DEF BackupNext, Ends, BackupIInv, BackupTypes, JobTypes, BeginExport, BeginImport, ExportRead,
           EndExport, Clear, ClearFails, PutFile, ApplyFails, Abandon, Damage, SaveOther
  <1>2. job.todo = {} /\ job.at # "idle" /\ Targets \in SUBSET Files
    BY <1>1, HoldingsType DEF EndImport, BackupIInv, BackupTypes, JobTypes, Targets
  <1>3. CASE job.at = "apply"
    BY <1>2, <1>3 DEF BackupIInv, JobRight, AllNew
  <1>4. CASE job.at # "apply"
    BY <1>2, <1>4 DEF BackupIInv, JobRight, Returned
  <1> QED
    BY <1>3, <1>4

-----------------------------------------------------------------------------
(* The parts together                                                      *)
UpkeepIInv == HookIInv /\ OffsiteIInv /\ BackupIInv

LEMMA UpkeepStarts == UpkeepInit => UpkeepIInv
  BY HookInitRight, OffsiteInitRight, BackupInitRight DEF UpkeepInit, UpkeepIInv

LEMMA UpkeepStep == UpkeepIInv /\ [UpkeepNext]_upkeepVars => UpkeepIInv'
  <1> SUFFICES ASSUME UpkeepIInv, [UpkeepNext]_upkeepVars PROVE UpkeepIInv'
    OBVIOUS
  <1>0. HookIInv /\ OffsiteIInv /\ BackupIInv
    BY DEF UpkeepIInv
  <1>1. CASE InHooks(HookNext)
    BY <1>0, <1>1, HookStep, OffsiteStutters, BackupStutters DEF InHooks, UpkeepIInv
  <1>2. CASE InOffsite(OffsiteNext)
    BY <1>0, <1>2, HookStutters, OffsiteStep, BackupStutters DEF InOffsite, UpkeepIInv
  <1>3. CASE InBackup(BackupNext)
    BY <1>0, <1>3, HookStutters, OffsiteStutters, BackupStep DEF InBackup, UpkeepIInv
  <1>4. CASE UNCHANGED upkeepVars
    BY <1>0, <1>4, HookStutters, OffsiteStutters, BackupStutters DEF upkeepVars, UpkeepIInv
  <1> QED
    BY <1>1, <1>2, <1>3, <1>4 DEF UpkeepNext

LEMMA UpkeepStays == UpkeepSpec => []UpkeepIInv
  BY UpkeepStarts, UpkeepStep, PTL DEF UpkeepSpec

(* In every reachable state, whatever the number of destinations, threads  *)
(* and clips: the types; the settings hold what was asked of them although *)
(* deliveries mark results there (webhook_delivery_service's               *)
(* _settings_lock); an outage has raised exactly one alarm                 *)
(* (_mark_delivery_result); and the queue file of offsite_backup tells     *)
(* what was uploaded, and a clip is uploaded twice only if its own record  *)
(* was lost.                                                               *)
THEOREM UpkeepIsRight == UpkeepSpec => []UpkeepInv
  <1>1. UpkeepIInv => UpkeepInv
    BY HookGives, OffsiteGives, BackupGivesTypes DEF UpkeepIInv, UpkeepInv, UpkeepTypeOK
  <1> QED
    BY <1>1, UpkeepStays, PTL

(* A configuration import that answers has replaced every chosen file by   *)
(* the bundle's or, on an error at any point, none of them, but for files  *)
(* that did not exist before and could not be removed again                *)
(* (config_backup_service._apply_import, _restore_snapshot).               *)
THEOREM ImportIsAtomic == UpkeepSpec => ImportAtomic
  <1>1. UpkeepIInv /\ [UpkeepNext]_upkeepVars
          => [Ends /\ ~meddled =>
                IF job.at = "apply" THEN AllNew
                ELSE \A f \in Files : live[f] = before[f] \/ (f \in job.stuck /\ before[f] = 0)]_backupVars
    <2> SUFFICES ASSUME UpkeepIInv, [UpkeepNext]_upkeepVars, ~UNCHANGED backupVars, Ends, ~meddled
                 PROVE  IF job.at = "apply" THEN AllNew
                        ELSE \A f \in Files : live[f] = before[f] \/ (f \in job.stuck /\ before[f] = 0)
      OBVIOUS
    <2>1. BackupIInv /\ BackupNext
      BY DEF UpkeepIInv, UpkeepNext, InHooks, InOffsite, InBackup, upkeepVars
    <2> QED
      BY <2>1, ImportEnds
  <1> QED
    BY <1>1, UpkeepStays, PTL DEF UpkeepSpec, ImportAtomic

-----------------------------------------------------------------------------
(* The scheduled restarts.  A minute that has brought a reboot is the      *)
(* noted one, unless its note was lost; and the minute of a check under    *)
(* way has brought none, unless its note was lost.                         *)
RestartRight ==
  /\ \A m \in AllMinutes \ unnoted : reboots[m] = 0 \/ mark = m
  /\ check.at # "asleep" => check.key \in AllMinutes /\ (reboots[check.key] = 0 \/ check.key \in unnoted)
  /\ check.at = "arm" => mark = check.key
RestartTypes ==
  /\ RestartTypeOK /\ check \in [at : {"asleep", "blocked", "skip", "mark", "arm"}, key : 0..None]
RestartIInv == RestartTypes /\ OncePerMinute /\ RestartRight

LEMMA NoCheckIs == NoCheck \in [at : {"asleep", "blocked", "skip", "mark", "arm"}, key : 0..None]
                   /\ NoCheck.at = "asleep" /\ None \in 0..None /\ AllMinutes \subseteq 0..None /\ None \notin AllMinutes
  BY MinutesAssumption DEF NoCheck, None, AllMinutes

LEMMA RestartInitRight == RestartInit => RestartIInv
  <1> SUFFICES ASSUME RestartInit PROVE RestartIInv
    OBVIOUS
  <1> USE NoCheckIs DEF RestartInit
  <1>1. 0 \in AllMinutes
    BY MinutesAssumption DEF AllMinutes
  <1>2. {woken, updating} \subseteq BOOLEAN /\ {lastKey, mark, check.key} \subseteq 0..None
    OBVIOUS
  <1>3. timetable \in Timetables
    <2>1. 0 \in Times /\ {0} \in (SUBSET Weekdays) \ {{}}
      BY MinutesAssumption DEF Times, Weekdays
    <2> QED
      BY <2>1 DEF Timetables
  <1>4. RestartTypes
    BY <1>1, <1>2, <1>3 DEF RestartTypes, RestartTypeOK
  <1>5. OncePerMinute /\ RestartRight
    BY <1>1 DEF OncePerMinute, RestartRight
  <1> QED
    BY <1>4, <1>5 DEF RestartIInv

LEMMA RestartStep == ASSUME RestartIInv, RestartNext PROVE RestartIInv'
  <1> USE NoCheckIs DEF RestartIInv, RestartTypes, RestartTypeOK, RestartRight, OncePerMinute
  <1>1. CASE \E readable \in BOOLEAN : Wake(readable)
    <2>1. PICK readable \in BOOLEAN : Wake(readable)
      BY <1>1
    <2>2. ScheduledKey # None => ScheduledKey \in AllMinutes
      BY DEF ScheduledKey
    <2>3. /\ UNCHANGED <<wall, timetable, lastKey, mark, alarm, updating, reboots>> /\ woken' = TRUE
          /\ unnoted \subseteq unnoted' /\ check.at = "asleep"
          /\ unnoted' \subseteq unnoted \union ({mark} \ {None})
          /\ ~readable /\ mark = ScheduledKey /\ mark # None => mark \in unnoted'
      BY <2>1 DEF Wake, Forget
    <2>4. mark # None => mark \in AllMinutes
      <3>1. mark \in 0..None
        OBVIOUS
      <3> HIDE DEF RestartIInv
      <3> QED
        BY <3>1, MinutesAssumption DEF None, AllMinutes
    <2>5. CASE ScheduledKey = None \/ HasRun(ScheduledKey, readable)
      <3>1. check' = NoCheck
        BY <2>1, <2>5 DEF Wake
      <3> QED
        BY <2>3, <2>4, <3>1
    <2>6. CASE ~(ScheduledKey = None \/ HasRun(ScheduledKey, readable))
      <3> DEFINE key == ScheduledKey
      <3>1. check' = [at |-> "blocked", key |-> key] /\ (key # mark \/ ~readable)
        BY <2>1, <2>6 DEF Wake, HasRun, Noted
      <3>2. key \in AllMinutes /\ key \in 0..None /\ key # None
        BY <2>2, <2>6
      <3> HIDE DEF key
      <3>3. check'.at = "blocked" /\ check'.key = key
            /\ check' \in [at : {"asleep", "blocked", "skip", "mark", "arm"}, key : 0..None]
        BY <3>1, <3>2
      <3>4. RestartTypes'
        BY <2>3, <2>4, <3>3
      <3>5. reboots[key] = 0 \/ key \in unnoted'
        <4>1. key = mark => key \in unnoted'
          BY <2>3, <3>1, <3>2 DEF key
        <4> QED
          BY <2>3, <3>2, <4>1
      <3> QED
        BY <2>3, <3>2, <3>3, <3>4, <3>5
    <2> QED
      BY <2>5, <2>6
  <1>2. CASE AskBlocked
    BY <1>2 DEF AskBlocked
  <1>3. CASE MarkRun
    <2>1. mark # None => mark \in AllMinutes
      <3>1. mark \in 0..None
        OBVIOUS
      <3> HIDE DEF RestartIInv
      <3> QED
        BY <3>1, MinutesAssumption DEF None, AllMinutes
    <2>2. /\ UNCHANGED <<wall, woken, timetable, lastKey, alarm, updating, reboots>>
          /\ mark' = check.key /\ check.at \in {"skip", "mark"} /\ check.key \in AllMinutes
          /\ unnoted' = unnoted \union (({mark} \ {check.key}) \ {None})
      BY <1>3 DEF MarkRun, Forget
    <2>3. check' \in {NoCheck, [check EXCEPT !.at = "arm"]}
      BY <1>3 DEF MarkRun
    <2>4. check' \in [at : {"asleep", "blocked", "skip", "mark", "arm"}, key : 0..None]
          /\ (check'.at # "asleep" => check'.key = check.key)
      BY <2>3
    <2>5. RestartTypes'
      BY <2>1, <2>2, <2>4
    <2> QED
      BY <2>1, <2>2, <2>4, <2>5
  <1>4. CASE MarkFails
    BY <1>4 DEF MarkFails
  <1>5. CASE Arm
    BY <1>5 DEF Arm
  <1>6. CASE RequestReboot \/ RebootFails
    <2>1. UNCHANGED <<wall, woken, timetable, lastKey, mark, check, updating, reboots, unnoted>>
      BY <1>6 DEF RequestReboot, RebootFails
    <2>2. alarm' \in Nat
      BY <1>6 DEF RequestReboot, RebootFails
    <2> QED
      BY <2>1, <2>2
  <1>7. CASE Reboot \/ \E torn \in BOOLEAN : PowerLoss(torn)
    <2>1. /\ lastKey' = None /\ check' = NoCheck /\ alarm' = 0 /\ updating' = FALSE /\ woken' = FALSE
          /\ UNCHANGED <<wall, timetable, reboots>>
      BY <1>7 DEF Reboot, PowerLoss, Booted
    <2>2. (mark' = mark /\ unnoted' = unnoted) \/ (mark' = None /\ unnoted' = unnoted \union ({mark} \ {None}))
      BY <1>7 DEF Reboot, PowerLoss, Forget
    <2>3. mark # None => mark \in AllMinutes
      <3>1. mark \in 0..None
        OBVIOUS
      <3> HIDE DEF RestartIInv
      <3> QED
        BY <3>1, MinutesAssumption DEF None, AllMinutes
    <2>4. RestartTypes'
      <3>1. {woken', updating'} \subseteq BOOLEAN /\ {lastKey', mark', check'.key} \subseteq 0..None
        BY <2>1, <2>2
      <3>2. unnoted' \subseteq AllMinutes
        BY <2>2, <2>3
      <3> QED
        BY <2>1, <3>1, <3>2
    <2> QED
      BY <2>1, <2>2, <2>3, <2>4
  <1>8. CASE StartUpdate \/ UpdateEnds
    BY <1>8 DEF StartUpdate, UpdateEnds
  <1>9. CASE MinutePasses \/ \E earlier \in AllMinutes : SetBack(earlier)
    <2>1. wall' \in AllMinutes
      <3>1. wall \in 0..Minutes /\ Minutes \in Nat
        BY MinutesAssumption DEF AllMinutes
      <3>2. (wall < Minutes /\ wall' = wall + 1) \/ wall' \in AllMinutes
        BY <1>9 DEF MinutePasses, SetBack
      <3> HIDE DEF RestartIInv
      <3> QED
        BY <3>1, <3>2 DEF AllMinutes
    <2> QED
      BY <1>9, <2>1 DEF MinutePasses, SetBack
  <1>10. CASE \E new \in Timetables : Replan(new)
    BY <1>10 DEF Replan
  <1> QED
    BY <1>1, <1>2, <1>3, <1>4, <1>5, <1>6, <1>7, <1>8, <1>9, <1>10 DEF RestartNext

LEMMA RestartStutters == ASSUME RestartIInv, UNCHANGED restartVars PROVE RestartIInv'
  BY DEF RestartIInv, RestartTypes, RestartTypeOK, RestartRight, OncePerMinute, restartVars

-----------------------------------------------------------------------------
(* Set-up and factory reset.  The camera has in memory what the file held  *)
(* or should hold, in a set-up that goes on after the stamp too.  Unless   *)
(* set-up and reset overlapped: nothing connects while a reset is under    *)
(* way, which removes the stamp first; and what the stamp stands for is on *)
(* the disk before an attempt comes to write it, or the file is torn.      *)
TryRight(t) ==
  /\ try[t].at # "idle" => wipe = "none" /\ disk.psk
                           /\ (appliance = "camera" => conf = "torn" \/ disk.admin = "chosen")
  /\ try[t].at = "address" => disk.wifi
  /\ try[t].at = "stamp" => /\ disk.wifi \/ try[t].wired
                            /\ appliance = "camera" => conf = "torn" \/ disk.address
SettingUp == wizard \/ handler # "idle" \/ \E t \in Tries : try[t].at # "idle"
MemoryRight ==
  appliance = "camera" => /\ disk.address => memory.address
                          /\ \A t \in Tries : try[t].at # "idle" => memory.admin = "chosen"
                          /\ \A t \in Tries : try[t].at = "stamp" => memory.address
                          /\ ~muddled /\ disk.stamp /\ SettingUp => memory.address
SetupRight ==
  /\ handler = "admin" => disk.psk
  /\ ~muddled => /\ wipe \in {"config", "wifi", "recover"} => ~disk.stamp
                 /\ \A t \in Tries : TryRight(t)
SetupIInv == SetupTypeOK /\ StampedIsReady /\ SetupRight /\ MemoryRight
Disks == [stamp : BOOLEAN, psk : BOOLEAN, admin : {"none", "default", "chosen"},
          address : BOOLEAN, wifi : BOOLEAN, wired : BOOLEAN]
Attempts == [at : {"idle", "join", "address", "stamp"}, wired : BOOLEAN]
Memories == [admin : {"none", "default", "chosen"}, address : BOOLEAN]
ConfStates == {"whole", "unsynced", "torn"}

(* What the operations on a disk leave alone                               *)
LEMMA DiskOperations ==
    ASSUME NEW d \in Disks, NEW m \in Memories, NEW r \in {"camera", "server"}
    PROVE  /\ Loaded(d) \in Memories /\ Loaded(d).address = d.address
           /\ Emptied(d) \in Disks /\ WithValues(d, m) \in Disks /\ Seeded(r, d) \in Disks
           /\ \A e \in {Emptied(d), WithValues(d, m), Seeded(r, d)} :
                e.stamp = d.stamp /\ e.psk = d.psk /\ e.wifi = d.wifi /\ e.wired = d.wired
           /\ ~Emptied(d).address
           /\ WithValues(d, m).admin = m.admin /\ WithValues(d, m).address = m.address
           /\ Seeded(r, d).address = d.address /\ (r = "camera" => Seeded(r, d).admin = d.admin)
  BY DEF Disks, Memories, Loaded, Emptied, WithValues, Seeded

LEMMA SetupInitRight == SetupInit => SetupIInv
  <1> SUFFICES ASSUME SetupInit PROVE SetupIInv
    OBVIOUS
  <1>1. disk = Seeded(appliance, Blank) /\ Blank.stamp = FALSE /\ Blank \in Disks /\ appliance \in {"camera", "server"}
    BY DEF SetupInit, Blank, Disks
  <1>2. \E m : m \in Memories
    <2>1. [admin |-> "none", address |-> FALSE] \in Memories
      BY DEF Memories
    <2> QED
      BY <2>1
  <1>3. disk \in Disks /\ ~disk.stamp
    BY <1>1, <1>2, DiskOperations
  <1>4. memory \in Memories /\ memory.address = disk.address
    BY <1>1, <1>2, <1>3, DiskOperations DEF SetupInit
  <1>5. {wizard, credentials, muddled, gaveUp} \subseteq BOOLEAN
    BY DEF SetupInit
  <1>6. \A t \in Tries : try[t].at = "idle"
    BY DEF SetupInit, Resting
  <1>7. SetupTypeOK
    BY <1>3, <1>4, <1>5 DEF SetupInit, SetupTypeOK, Resting, Disks, Memories
  <1> QED
    BY <1>3, <1>4, <1>6, <1>7 DEF SetupInit, SetupIInv, StampedIsReady, SetupRight, TryRight, MemoryRight

(* A boot from d, the disk as it is or with its file cut short             *)
LEMMA BootKeeps ==
    ASSUME SetupIInv, NEW d, NEW c, (d = disk /\ c = Synced) \/ (d = Emptied(disk) /\ c = "torn"),
           BootFrom(d, c), wizard' \in BOOLEAN, appliance = "camera" /\ disk.stamp => ~wizard', radio' \in {"ap", "client", "down"}, gaveUp' \in BOOLEAN
    PROVE  SetupIInv'
  <1>1. disk \in Disks /\ memory \in Memories /\ appliance \in {"camera", "server"}
    BY DEF SetupIInv, SetupTypeOK, Disks, Memories
  <1>2. d \in Disks /\ d.stamp = disk.stamp /\ d.psk = disk.psk /\ d.wifi = disk.wifi /\ d.wired = disk.wired
    BY <1>1, DiskOperations
  <1>3. c \in ConfStates /\ (c = "torn" \/ (conf # "torn" /\ d = disk))
    BY DEF Synced, ConfStates
  <1>4. disk' = Seeded(appliance, d) /\ memory' = Loaded(disk') /\ conf' = c
    BY DEF BootFrom
  <1>5. disk' \in Disks /\ memory' \in Memories /\ memory'.address = disk'.address
    BY <1>1, <1>2, <1>4, DiskOperations
  <1>6. /\ disk'.stamp = disk.stamp /\ disk'.psk = disk.psk /\ disk'.wifi = disk.wifi /\ disk'.wired = disk.wired
        /\ disk'.address = d.address /\ (appliance = "camera" => disk'.admin = d.admin)
    BY <1>1, <1>2, <1>4, DiskOperations
  <1>7. /\ handler' = "idle" /\ credentials' = FALSE /\ try' = [t \in Tries |-> Resting] /\ wipe' = "none"
        /\ UNCHANGED <<appliance, muddled>>
    BY DEF BootFrom
  <1>8. \A t \in Tries : try'[t].at = "idle"
    BY <1>7 DEF Resting
  <1>9. {wizard', credentials', muddled', gaveUp'} \subseteq BOOLEAN
    BY <1>7 DEF SetupIInv, SetupTypeOK
  <1>10. SetupTypeOK'
    BY <1>3, <1>4, <1>5, <1>7, <1>9 DEF SetupIInv, SetupTypeOK, Resting, Disks, Memories, ConfStates
  <1>11. StampedIsReady'
    BY <1>3, <1>4, <1>6, <1>7 DEF SetupIInv, StampedIsReady, Connectable, Configured
  <1> QED
    BY <1>5, <1>6, <1>7, <1>8, <1>10, <1>11 DEF SetupIInv, SetupRight, TryRight, MemoryRight, SettingUp

(* A step of one attempt, after which it is x.  The file is left alone or  *)
(* torn, or has the values in memory                                       *)
LEMMA AttemptKeeps ==
    ASSUME SetupIInv, NEW t \in Tries, NEW x \in Attempts, try' = [try EXCEPT ![t] = x], disk' \in Disks,
           memory' \in Memories, conf' \in ConfStates,
           UNCHANGED <<appliance, wipe, wizard, gaveUp>>, radio' \in {"ap", "client", "down"},
           handler' \in {"idle", handler}, credentials' \in BOOLEAN,
           muddled' \in BOOLEAN, muddled => muddled',
           disk.psk => disk'.psk, disk.wifi => disk'.wifi,
           memory.address => memory'.address, memory.admin = "chosen" => memory'.admin = "chosen",
           appliance = "camera" =>
             \/ disk'.address = disk.address /\ disk'.admin = disk.admin /\ conf' = conf
             \/ conf' = "torn" /\ ~disk'.address
             \/ disk'.address = memory'.address /\ disk'.admin = "chosen",
           appliance = "camera" => try[t].at # "idle" \/ handler # "idle",
           appliance = "camera" /\ ~muddled' /\ disk'.stamp => disk.stamp \/ memory'.address,
           appliance = "camera" /\ x.at # "idle" => memory'.admin = "chosen",
           appliance = "camera" /\ x.at = "stamp" => memory'.address,
           ~muddled' /\ x.at # "idle" => wipe = "none" /\ disk'.psk
                                         /\ (appliance = "camera" => conf' = "torn" \/ disk'.admin = "chosen"),
           ~muddled' /\ x.at = "address" => disk'.wifi,
           ~muddled' /\ x.at = "stamp" => (disk'.wifi \/ x.wired)
                                          /\ (appliance = "camera" => conf' = "torn" \/ disk'.address),
           ~muddled' /\ disk'.stamp =>
             (disk.stamp /\ disk'.wired = disk.wired) \/ (wipe = "none" /\ Connectable' /\ (conf' = "torn" \/ Configured'))
    PROVE  SetupIInv'
  <1>1. \A u \in Tries : try'[u] = IF u = t THEN x ELSE try[u]
    BY DEF SetupIInv, SetupTypeOK
  <1>2. SetupTypeOK'
    BY DEF SetupIInv, SetupTypeOK, Disks, Attempts, Memories, ConfStates
  <1>3. appliance = "camera" /\ conf' # "torn" =>
           (conf # "torn" /\ disk.address => disk'.address)
           /\ (conf # "torn" /\ disk.admin = "chosen" => disk'.admin = "chosen")
           /\ (conf = "torn" => disk'.address = memory'.address /\ disk'.admin = "chosen")
    BY DEF SetupIInv, MemoryRight
  <1>4. appliance = "camera" /\ ~muddled' /\ disk'.stamp => memory'.address
    BY DEF SetupIInv, MemoryRight, SettingUp
  <1>5. MemoryRight'
    <2>1. appliance = "camera" /\ disk'.address => memory'.address
      BY DEF SetupIInv, MemoryRight
    <2>2. \A u \in Tries : appliance = "camera" =>
             /\ try'[u].at # "idle" => memory'.admin = "chosen"
             /\ try'[u].at = "stamp" => memory'.address
      BY <1>1 DEF SetupIInv, MemoryRight
    <2>3. appliance = "camera" /\ ~muddled' /\ disk'.stamp => memory'.address
      BY <1>4
    <2> QED
      BY <2>1, <2>2, <2>3 DEF MemoryRight
  <1>6. SetupRight'
    <2>1. \A u \in Tries : ~muddled' => TryRight(u)'
      <3> SUFFICES ASSUME NEW u \in Tries, ~muddled' PROVE TryRight(u)'
        OBVIOUS
      <3>1. CASE u = t
        BY <1>1, <3>1 DEF TryRight
      <3>2. CASE u # t
        <4>1. TryRight(u) /\ try'[u] = try[u]
          BY <1>1, <3>2 DEF SetupIInv, SetupRight
        <4>2. appliance = "camera" /\ try[u].at = "stamp" => memory'.address
          BY DEF SetupIInv, MemoryRight
        <4> QED
          BY <1>3, <4>1, <4>2 DEF TryRight
      <3> QED
        BY <3>1, <3>2
    <2>2. ~muddled' /\ wipe' \in {"config", "wifi", "recover"} => ~disk'.stamp
      BY DEF SetupIInv, SetupRight
    <2> QED
      BY <2>1, <2>2 DEF SetupIInv, SetupRight
  <1>7. StampedIsReady'
    <2>1. ASSUME ~muddled', disk'.stamp, disk.stamp, disk'.wired = disk.wired
          PROVE  Connectable' /\ (conf' = "torn" \/ Configured')
      <3>1. Connectable /\ (conf = "torn" \/ Configured)
        BY <2>1 DEF SetupIInv, StampedIsReady
      <3>2. Connectable'
        BY <2>1, <3>1 DEF Connectable
      <3>3. conf' = "torn" \/ Configured'
        BY <1>3, <1>4, <2>1, <3>1 DEF Configured
      <3> QED
        BY <3>2, <3>3
    <2> QED
      BY <2>1 DEF StampedIsReady
  <1> QED
    BY <1>2, <1>5, <1>6, <1>7 DEF SetupIInv

LEMMA SetupStep == ASSUME SetupIInv, SetupNext PROVE SetupIInv'
  <1> DEFINE Kinds == {"ap", "client", "down"}
  <1>0. disk \in Disks /\ memory \in Memories /\ appliance \in {"camera", "server"} /\ conf \in ConfStates
        /\ \A t \in Tries : try[t] \in Attempts
    BY DEF SetupIInv, SetupTypeOK, Disks, Memories, ConfStates, Attempts
  <1>1. CASE PowerCut \/ RebootIntoSetup
    <2>1. \E d, c : ((d = disk /\ c = Synced) \/ (d = Emptied(disk) /\ c = "torn")) /\ Boot(d, c)
      BY <1>1 DEF PowerCut, RebootIntoSetup
    <2>2. PICK d, c : ((d = disk /\ c = Synced) \/ (d = Emptied(disk) /\ c = "torn")) /\ Boot(d, c)
      BY <2>1
    <2>3. BootFrom(d, c) /\ wizard' \in BOOLEAN /\ (appliance = "camera" /\ disk.stamp => ~wizard') /\ radio' \in Kinds /\ gaveUp' \in BOOLEAN
      <3>1. d.stamp = disk.stamp /\ d.stamp \in BOOLEAN
        BY <1>0, <2>2, DiskOperations DEF Disks
      <3> QED
        BY <2>2, <3>1 DEF Boot, SetupIInv, SetupTypeOK
    <2> QED
      BY <2>2, <2>3, BootKeeps
  <1>2. CASE BootWithoutHotspot
    BY <1>2, BootKeeps DEF BootWithoutHotspot
  <1>3. CASE SavePassword
    <2>1. disk' \in Disks /\ disk'.psk /\ disk'.stamp = disk.stamp /\ disk'.admin = disk.admin
          /\ disk'.address = disk.address /\ disk'.wifi = disk.wifi /\ disk'.wired = disk.wired
      BY <1>0, <1>3 DEF SavePassword, Disks
    <2>2. UNCHANGED <<appliance, memory, conf, radio, wizard, credentials, try, wipe, muddled, gaveUp>>
          /\ handler' = "admin" /\ wizard
      BY <1>3 DEF SavePassword, Served
    <2> QED
      BY <2>1, <2>2 DEF SetupIInv, SetupTypeOK, StampedIsReady, Connectable, Configured, SetupRight, TryRight,
                        MemoryRight, SettingUp, Disks
  <1>4. CASE SaveCredentials
    BY <1>4 DEF SaveCredentials, SetupIInv, SetupTypeOK, StampedIsReady, Connectable, Configured, SetupRight,
                TryRight, MemoryRight, SettingUp
  <1>5. CASE BeginScan \/ EndScan \/ LeaveSetup
    <2>1. UNCHANGED <<appliance, disk, memory, conf, credentials, try, wipe, muddled, gaveUp>>
          /\ radio' \in Kinds /\ handler' \in {"idle", "scan", handler} /\ wizard' \in BOOLEAN
          /\ (handler' = "admin" => handler = "admin") /\ (SettingUp' => SettingUp)
      BY <1>5 DEF BeginScan, EndScan, LeaveSetup, HotspotStarted, Served, SettingUp, SetupIInv, SetupTypeOK
    <2> HIDE DEF SettingUp
    <2> QED
      BY <2>1 DEF SetupIInv, SetupTypeOK, StampedIsReady, Connectable, Configured, SetupRight, TryRight, MemoryRight
  <1>6. CASE BeginReset
    BY <1>6 DEF BeginReset, ResetOrder, Connecting, SetupIInv, SetupTypeOK, StampedIsReady, Connectable, Configured,
                SetupRight, TryRight, MemoryRight, SettingUp
  <1>7. CASE RemoveStored
    <2> DEFINE d == Without(disk, wipe)
    <2>1. wipe \in {"stamp", "config", "wifi"} /\ wipe' = ResetOrder[wipe] /\ disk' = d
          /\ UNCHANGED <<appliance, memory, wizard, handler, credentials, try, muddled, gaveUp>>
          /\ radio' \in Kinds /\ conf' \in ConfStates
      BY <1>0, <1>7 DEF RemoveStored, SetupIInv, SetupTypeOK, ConfStates
    <2>2. d \in Disks /\ d.psk = disk.psk /\ (d.stamp => disk.stamp) /\ (wipe = "stamp" => ~d.stamp)
          /\ (d.address => disk.address)
      <3>1. CASE wipe = "config"
        BY <1>0, <3>1, DiskOperations DEF Without
      <3>2. CASE wipe \in {"stamp", "wifi"}
        BY <1>0, <3>2 DEF Without, Disks
      <3> QED
        BY <2>1, <3>1, <3>2
    <2>3. wipe' \in {"config", "wifi", "recover"}
      BY <2>1 DEF ResetOrder
    <2> HIDE DEF d
    <2>4. ~muddled => ~d.stamp /\ \A t \in Tries : try[t].at = "idle"
      BY <2>1, <2>2 DEF SetupIInv, SetupRight, TryRight
    <2>5. SetupTypeOK'
      BY <2>1, <2>2, <2>3 DEF SetupIInv, SetupTypeOK, Disks, ConfStates
    <2> QED
      BY <2>1, <2>2, <2>3, <2>4, <2>5 DEF SetupIInv, StampedIsReady, SetupRight, TryRight, MemoryRight, SettingUp
  <1>8. CASE CannotRemove
    BY <1>8 DEF CannotRemove, ResetOrder, SetupIInv, SetupTypeOK, StampedIsReady, Connectable, Configured,
                SetupRight, TryRight, MemoryRight, SettingUp
  <1>9. CASE Fallback \/ GiveUp
    <2>1. UNCHANGED <<appliance, disk, memory, conf, wizard, handler, credentials, try, muddled>>
          /\ wipe = "recover" /\ wipe' = "none"
      BY <1>9 DEF Fallback, GiveUp
    <2>2. gaveUp' \in BOOLEAN /\ radio' \in Kinds
      BY <1>9 DEF Fallback, GiveUp, HotspotStarted, SetupIInv, SetupTypeOK
    <2>3. SetupTypeOK'
      BY <2>1, <2>2 DEF SetupIInv, SetupTypeOK
    <2>4. SetupRight'
      BY <2>1 DEF SetupIInv, SetupRight, TryRight
    <2> QED
      BY <2>1, <2>3, <2>4 DEF SetupIInv, StampedIsReady, Connectable, Configured, MemoryRight, SettingUp
  <1>10. CASE \E t \in Tries : SaveAdmin(t)
    <2> PICK t \in Tries : SaveAdmin(t)
      BY <1>10
    <2>1. UNCHANGED <<appliance, wipe, wizard, gaveUp, radio, credentials>> /\ handler' = "idle" /\ handler = "admin"
          /\ disk.psk /\ muddled' \in BOOLEAN /\ (muddled => muddled') /\ (~muddled' /\ appliance = "camera" => wipe = "none")
          /\ try[t].at = "idle"
      BY DEF SaveAdmin, SetupIInv, SetupRight, SetupTypeOK
    <2>2. CASE appliance = "camera"
      <3> DEFINE x == [try[t] EXCEPT !.at = "join"]
      <3>1. x \in Attempts /\ x.at = "join" /\ try' = [try EXCEPT ![t] = x]
        BY <1>0, <2>2 DEF SaveAdmin, Attempts
      <3>2. memory' \in Memories /\ memory'.admin = "chosen" /\ memory'.address = memory.address /\ conf' = "unsynced"
            /\ disk' = WithValues(disk, memory')
        BY <1>0, <2>2 DEF SaveAdmin, Memories
      <3>3. disk' \in Disks /\ disk'.psk = disk.psk /\ disk'.wifi = disk.wifi /\ disk'.stamp = disk.stamp
            /\ disk'.wired = disk.wired /\ disk'.admin = "chosen" /\ disk'.address = memory'.address
        BY <1>0, <3>2, DiskOperations
      <3> HIDE DEF x
      <3>4. conf' \in ConfStates /\ radio' \in Kinds /\ credentials' \in BOOLEAN
        BY <2>1, <3>2 DEF ConfStates, SetupIInv, SetupTypeOK
      <3> QED
        BY <2>1, <2>2, <3>1, <3>2, <3>3, <3>4, AttemptKeeps
    <2>3. CASE appliance # "camera"
      <3>1. try[t] \in Attempts /\ try' = [try EXCEPT ![t] = try[t]] /\ UNCHANGED <<memory, conf>>
        BY <1>0, <2>3 DEF SaveAdmin, SetupIInv, SetupTypeOK
      <3>2. disk' \in Disks /\ disk'.psk = disk.psk /\ disk'.wifi = disk.wifi /\ disk'.stamp = disk.stamp
            /\ disk'.wired = disk.wired
        BY <1>0, <2>3 DEF SaveAdmin, Disks
      <3>3. radio' \in Kinds /\ credentials' \in BOOLEAN
        BY <2>1 DEF SetupIInv, SetupTypeOK
      <3> QED
        BY <1>0, <2>1, <2>3, <3>1, <3>2, <3>3, AttemptKeeps
    <2> QED
      BY <2>2, <2>3
  <1>11. CASE \E t \in Tries : Joined(t) \/ Mistaken(t)
    <2> PICK t \in Tries : Joined(t) \/ Mistaken(t)
      BY <1>11
    <2> DEFINE x == [try[t] EXCEPT !.at = IF appliance = "camera" THEN "address" ELSE "stamp"]
    <2>1. x \in Attempts /\ x.at \in {"address", "stamp"} /\ try' = [try EXCEPT ![t] = x] /\ try[t].at = "join"
          /\ (x.at = "stamp" => appliance = "server")
      BY <1>0 DEF Joined, Mistaken, Onward, Attempts
    <2>2. disk' \in Disks /\ disk'.psk = disk.psk /\ (disk.wifi => disk'.wifi) /\ disk'.address = disk.address
          /\ disk'.stamp = disk.stamp /\ disk'.wired = disk.wired /\ disk'.admin = disk.admin
          /\ (~muddled' => disk'.wifi)
      BY <1>0 DEF Joined, Mistaken, Disks
    <2>3. UNCHANGED <<appliance, memory, conf, wipe, wizard, gaveUp, handler, credentials>> /\ radio' \in Kinds
          /\ muddled' \in BOOLEAN /\ (muddled => muddled') /\ credentials' \in BOOLEAN
      <3>1. UNCHANGED <<appliance, memory, conf, wipe, wizard, gaveUp, handler, credentials>>
            /\ radio' \in {"client", "down"} /\ (muddled' = muddled \/ muddled' = TRUE)
        BY DEF Joined, Mistaken
      <3>2. muddled \in BOOLEAN /\ credentials \in BOOLEAN
        BY DEF SetupIInv, SetupTypeOK
      <3> QED
        BY <3>1, <3>2
    <2>4. /\ ~muddled => wipe = "none" /\ disk.psk /\ (appliance = "camera" => conf = "torn" \/ disk.admin = "chosen")
          /\ appliance = "camera" => memory.admin = "chosen"
      BY <2>1 DEF SetupIInv, SetupRight, TryRight, MemoryRight
    <2> HIDE DEF x
    <2> QED
      BY <1>0, <2>1, <2>2, <2>3, <2>4, AttemptKeeps
  <1>12. CASE \E t \in Tries : Refused(t) \/ AddressNotSaved(t) \/ TimedOut(t)
    <2> PICK t \in Tries : Refused(t) \/ AddressNotSaved(t) \/ TimedOut(t)
      BY <1>12
    <2>1. Resting \in Attempts /\ Resting.at = "idle" /\ try' = [try EXCEPT ![t] = Resting] /\ try[t].at # "idle"
      BY DEF Resting, Attempts, Refused, AddressNotSaved, TimedOut
    <2>2. UNCHANGED <<appliance, wipe, wizard, gaveUp, handler, muddled, credentials>> /\ radio' \in Kinds
          /\ muddled' \in BOOLEAN /\ credentials' \in BOOLEAN
      BY DEF Refused, AddressNotSaved, TimedOut, SetupIInv, SetupTypeOK
    <2>3. CASE Refused(t) \/ TimedOut(t)
      <3>1. disk' \in Disks /\ disk'.psk = disk.psk /\ (disk.wifi => disk'.wifi) /\ disk'.address = disk.address
            /\ disk'.stamp = disk.stamp /\ disk'.wired = disk.wired /\ disk'.admin = disk.admin
            /\ UNCHANGED <<memory, conf>>
        BY <1>0, <2>3 DEF Refused, TimedOut, Disks
      <3> QED
        BY <1>0, <2>1, <2>2, <3>1, AttemptKeeps
    <2>4. CASE AddressNotSaved(t)
      <3>1. disk' = Emptied(disk) /\ conf' = "torn" /\ memory' \in Memories /\ memory'.admin = memory.admin
            /\ memory'.address
        BY <1>0, <2>4 DEF AddressNotSaved, Memories
      <3>2. disk' \in Disks /\ disk'.psk = disk.psk /\ disk'.wifi = disk.wifi /\ ~disk'.address
            /\ disk'.stamp = disk.stamp /\ disk'.wired = disk.wired /\ conf' \in ConfStates
        BY <1>0, <3>1, DiskOperations DEF ConfStates
      <3> QED
        BY <2>1, <2>2, <3>1, <3>2, AttemptKeeps
    <2> QED
      BY <2>3, <2>4
  <1>13. CASE \E t \in Tries : SaveAddress(t)
    <2> PICK t \in Tries : SaveAddress(t)
      BY <1>13
    <2> DEFINE x == [try[t] EXCEPT !.at = "stamp"]
    <2>1. x \in Attempts /\ x.at = "stamp" /\ try' = [try EXCEPT ![t] = x] /\ try[t].at = "address"
      BY <1>0 DEF SaveAddress, Attempts
    <2>2. disk' = WithValues(disk, memory') /\ conf' = "unsynced" /\ memory' \in Memories /\ memory'.admin = memory.admin
          /\ memory'.address
      BY <1>0 DEF SaveAddress, Memories
    <2>3. disk' \in Disks /\ disk'.psk = disk.psk /\ disk'.wifi = disk.wifi /\ disk'.address /\ conf' \in ConfStates
          /\ disk'.stamp = disk.stamp /\ disk'.wired = disk.wired /\ disk'.admin = memory.admin
      <3>1. disk' = WithValues(disk, memory') /\ memory' \in Memories /\ disk \in Disks /\ appliance \in {"camera", "server"}
        BY <1>0, <2>2
      <3>2. disk' \in Disks /\ disk'.psk = disk.psk /\ disk'.wifi = disk.wifi /\ disk'.address = memory'.address
            /\ disk'.stamp = disk.stamp /\ disk'.wired = disk.wired /\ disk'.admin = memory'.admin
        BY <3>1, DiskOperations
      <3> QED
        BY <2>2, <3>2 DEF ConfStates
    <2>4. UNCHANGED <<appliance, wipe, wizard, gaveUp, handler, muddled, credentials, radio>>
          /\ radio' \in Kinds /\ muddled' \in BOOLEAN /\ credentials' \in BOOLEAN
      BY DEF SaveAddress, SetupIInv, SetupTypeOK
    <2>5. /\ ~muddled => wipe = "none" /\ disk.psk /\ disk.wifi
          /\ appliance = "camera" => memory.admin = "chosen"
      BY <2>1 DEF SetupIInv, SetupRight, TryRight, MemoryRight
    <2> HIDE DEF x
    <2> QED
      BY <2>1, <2>2, <2>3, <2>4, <2>5, AttemptKeeps
  <1>14. CASE \E t \in Tries : WriteStamp(t) \/ StampNotWritten(t)
    <2> PICK t \in Tries : WriteStamp(t) \/ StampNotWritten(t)
      BY <1>14
    <2>1. Resting \in Attempts /\ Resting.at = "idle" /\ try' = [try EXCEPT ![t] = Resting] /\ try[t].at = "stamp"
      BY DEF Resting, Attempts, WriteStamp, StampNotWritten
    <2>2. disk' \in Disks /\ disk'.psk = disk.psk /\ disk'.wifi = disk.wifi /\ disk'.address = disk.address
          /\ disk'.admin = disk.admin
          /\ ((disk'.stamp = disk.stamp /\ disk'.wired = disk.wired) \/ disk'.wired = try[t].wired)
      BY <1>0 DEF WriteStamp, StampNotWritten, Disks, Attempts
    <2>3. UNCHANGED <<appliance, memory, conf, wipe, wizard, gaveUp, handler, muddled>> /\ radio' \in Kinds
          /\ credentials' \in BOOLEAN /\ muddled' \in BOOLEAN
      BY DEF WriteStamp, StampNotWritten, SetupIInv, SetupTypeOK
    <2>4. /\ ~muddled => wipe = "none" /\ disk.psk /\ (disk.wifi \/ try[t].wired)
                         /\ (appliance = "camera" => conf = "torn" \/ (disk.admin = "chosen" /\ disk.address))
          /\ appliance = "camera" => memory.address
      BY <2>1 DEF SetupIInv, SetupRight, TryRight, MemoryRight
    <2>5. ~muddled' /\ disk'.stamp =>
             (disk.stamp /\ disk'.wired = disk.wired) \/ (wipe = "none" /\ Connectable' /\ (conf' = "torn" \/ Configured'))
      BY <2>2, <2>3, <2>4 DEF Connectable, Configured
    <2> QED
      BY <1>0, <2>1, <2>2, <2>3, <2>4, <2>5, AttemptKeeps
  <1>15. CASE \E t \in Tries, wired \in BOOLEAN : CompleteSetup(t, wired)
    <2> PICK t \in Tries, wired \in BOOLEAN : CompleteSetup(t, wired)
      BY <1>15
    <2> DEFINE x == [at |-> IF wired THEN "stamp" ELSE "join", wired |-> wired]
    <2>1. x \in Attempts /\ x.at \in {"stamp", "join"} /\ (x.at = "stamp" => x.wired) /\ try' = [try EXCEPT ![t] = x]
      BY DEF CompleteSetup, Attempts
    <2>2. UNCHANGED <<appliance, disk, memory, conf, wipe, wizard, gaveUp, handler, radio, credentials>>
          /\ appliance = "server" /\ disk.psk /\ muddled' = (muddled \/ wipe # "none")
      BY DEF CompleteSetup
    <2>3. muddled' \in BOOLEAN /\ radio' \in Kinds /\ credentials' \in BOOLEAN /\ (~muddled' => wipe = "none" /\ ~muddled)
      BY <2>2 DEF SetupIInv, SetupTypeOK
    <2> HIDE DEF x
    <2> QED
      BY <1>0, <2>1, <2>2, <2>3, AttemptKeeps
  <1>16. CASE AdminNotSaved
    <2>1. UNCHANGED <<appliance, radio, wizard, credentials, try, wipe, muddled, gaveUp>> /\ handler' = "idle"
          /\ handler = "admin" /\ SettingUp
      BY <1>16 DEF AdminNotSaved, SettingUp
    <2>2. CASE appliance = "camera"
      <3>1. disk' = Emptied(disk) /\ conf' = "torn" /\ memory' \in Memories /\ memory'.address = memory.address
            /\ (memory.admin = "chosen" => memory'.admin = "chosen")
        BY <1>0, <1>16, <2>2 DEF AdminNotSaved, Memories
      <3>2. disk' \in Disks /\ disk'.psk = disk.psk /\ disk'.wifi = disk.wifi /\ ~disk'.address
            /\ disk'.stamp = disk.stamp /\ disk'.wired = disk.wired
        BY <1>0, <3>1, DiskOperations
      <3>3. SetupTypeOK'
        BY <2>1, <3>1, <3>2 DEF SetupIInv, SetupTypeOK, Disks, Memories
      <3> QED
        BY <2>1, <2>2, <3>1, <3>2, <3>3 DEF SetupIInv, StampedIsReady, Connectable, SetupRight, TryRight, MemoryRight
    <2>3. CASE appliance # "camera"
      <3>1. UNCHANGED <<disk, memory, conf>>
        BY <1>16, <2>3 DEF AdminNotSaved
      <3> QED
        BY <2>1, <2>3, <3>1 DEF SetupIInv, SetupTypeOK, StampedIsReady, Connectable, Configured, SetupRight, TryRight, MemoryRight
    <2> QED
      BY <2>2, <2>3
  <1> QED
    BY <1>1, <1>2, <1>3, <1>4, <1>5, <1>6, <1>7, <1>8, <1>9, <1>10, <1>11, <1>12, <1>13, <1>14, <1>15, <1>16
    DEF SetupNext, Resetting, Wizard, Attempt

LEMMA SetupStutters == ASSUME SetupIInv, UNCHANGED setupVars PROVE SetupIInv'
  BY DEF SetupIInv, SetupTypeOK, StampedIsReady, Connectable, Configured, SetupRight, TryRight, MemoryRight,
         SettingUp, setupVars

-----------------------------------------------------------------------------
(* The watchdog.  A main thread that holds the notifier's lock runs, or    *)
(* its own signal handler has locked it out; until systemd is told of the  *)
(* end the notifier runs; and what has passed since the last ping is no    *)
(* longer than since the notifier's last look or, when the main thread is  *)
(* locked out, than a look and the age of its last beat together.          *)
NotifierRight ==
  /\ locked => signal \in {"none", "enter"} /\ ~stuck
  /\ ~notifying => signal \in {"join", "done"} /\ (ready => stopping)
PingsRight ==
  ready /\ ~stopping /\ ~slow =>
    /\ unpinged <= rest \/ (locked /\ signal = "enter" /\ unpinged <= Interval + beats["main"])
    /\ beats["main"] = Freshness => unpinged = 0
Phases == Looping \cup {"init", "validating", "starting", "teardown", "gone"}
RuntimeTypes ==
  /\ phase \in Phases /\ signal \in {"none", "enter", "join", "done"}
  /\ setUp \in BOOLEAN /\ paired \in BOOLEAN /\ locked \in BOOLEAN /\ stuck \in BOOLEAN
  /\ armed \in BOOLEAN /\ ready \in BOOLEAN /\ stopping \in BOOLEAN /\ notifying \in BOOLEAN /\ slow \in BOOLEAN
  /\ beats \in [{"main", "health"} -> 0..Freshness]
  /\ rest \in 0..Interval /\ unpinged \in 0..WatchdogSec
RuntimeIInv == RuntimeTypes /\ NotifierRight /\ PingsRight

LEMMA Ticks ==
    /\ Interval \in Nat /\ Freshness \in Nat /\ WatchdogSec \in Nat /\ Lap \in Nat
    /\ Lap < Freshness /\ 0 < Interval /\ Interval + Freshness <= WatchdogSec
    /\ 0 \in 0..Interval /\ 0 \in 0..WatchdogSec
  BY TimingAssumption

LEMMA RuntimeInitRight == RuntimeInit => RuntimeIInv
  <1> SUFFICES ASSUME RuntimeInit PROVE RuntimeIInv
    OBVIOUS
  <1>1. beats \in [{"main", "health"} -> 0..Freshness]
    BY Ticks DEF RuntimeInit
  <1>2. /\ phase = "init" /\ setUp \in BOOLEAN /\ paired \in BOOLEAN /\ ~locked /\ locked \in BOOLEAN
        /\ stuck \in BOOLEAN /\ signal = "none" /\ armed \in BOOLEAN /\ ready \in BOOLEAN /\ ~ready
        /\ stopping \in BOOLEAN /\ notifying /\ notifying \in BOOLEAN
        /\ rest = 0 /\ unpinged = 0 /\ slow \in BOOLEAN
    BY DEF RuntimeInit
  <1> QED
    BY <1>1, <1>2, Ticks DEF RuntimeIInv, RuntimeTypes, NotifierRight, PingsRight, Phases

LEMMA RuntimeGives == RuntimeIInv => RuntimeTypeOK
  BY DEF RuntimeIInv, RuntimeTypes, RuntimeTypeOK, Phases

(* A step that concerns neither the notifier nor the beats                 *)
LEMMA SteadyKeeps ==
    ASSUME RuntimeIInv, UNCHANGED <<locked, signal, ready, stopping, notifying, beats, rest, unpinged, slow>>,
           phase' \in Phases, setUp' \in BOOLEAN, paired' \in BOOLEAN, stuck' \in BOOLEAN, armed' \in BOOLEAN,
           locked => ~stuck'
    PROVE  RuntimeIInv'
  BY DEF RuntimeIInv, RuntimeTypes, NotifierRight, PingsRight

LEMMA RuntimeStep == ASSUME RuntimeIInv, RuntimeNext PROVE RuntimeIInv'
  <1>0. CASE Leave \/ SetupDone \/ PairingDone \/ Hang \/ Teardown
    <2>1. UNCHANGED <<locked, signal, ready, stopping, notifying, beats, rest, unpinged, slow, armed>>
      BY <1>0 DEF Leave, SetupDone, PairingDone, Hang, Teardown
    <2>2. phase' \in {phase, "gone", "teardown"} /\ setUp' \in {setUp, TRUE} /\ paired' \in {paired, TRUE}
          /\ stuck' \in {stuck, TRUE} /\ (locked => stuck' = stuck)
      BY <1>0 DEF Leave, SetupDone, PairingDone, Hang, Teardown
    <2> QED
      BY <2>1, <2>2, SteadyKeeps DEF RuntimeIInv, RuntimeTypes, NotifierRight, Phases
  <1> USE Ticks DEF RuntimeIInv, RuntimeTypes, NotifierRight, PingsRight
  <1>1. CASE Advance
    <2>1. phase' \in Phases
      BY <1>1 DEF Advance, Done, Order, Free, Alive, Phases, Looping
    <2>2. ready' \in BOOLEAN /\ (ready => ready')
      BY <1>1 DEF Advance
    <2> QED
      BY <1>1, <2>1, <2>2 DEF Advance, Flag
  <1>3. CASE BeginBeat
    <2>1. locked' = TRUE /\ signal = "none" /\ ~stuck
          /\ UNCHANGED <<phase, setUp, paired, stuck, signal, armed, ready, stopping, notifying, beats, rest, unpinged, slow>>
      BY <1>3 DEF BeginBeat, Free, Flag
    <2> QED
      BY <2>1
  <1>4. CASE EndBeat
    <2>1. locked' = FALSE /\ signal # "enter" /\ beats' \in [{"main", "health"} -> 0..Freshness] /\ beats'["main"] = 0
          /\ UNCHANGED <<phase, setUp, paired, stuck, signal, armed, ready, stopping, notifying, rest, unpinged, slow>>
      BY <1>4 DEF EndBeat, Free
    <2>2. RuntimeTypes' /\ NotifierRight'
      BY <2>1
    <2>3. PingsRight'
      BY <2>1
    <2> QED
      BY <2>2, <2>3
  <1>5. CASE HealthBeat
    BY <1>5 DEF HealthBeat
  <1>6. CASE \E b \in BOOLEAN : Signalled(b)
    BY <1>6 DEF Signalled
  <1>7. CASE StopNotifier
    BY <1>7 DEF StopNotifier
  <1>8. CASE ArmExit
    BY <1>8 DEF ArmExit
  <1>9. CASE \E b \in BOOLEAN : Revert(b)
    BY <1>9 DEF Revert, Flag, Phases
  <1>11. CASE Look
    <2>1. ~locked /\ notifying /\ rest' = 0
          /\ UNCHANGED <<phase, setUp, paired, locked, stuck, signal, armed, ready, stopping, notifying, beats>>
      BY <1>11 DEF Look
    <2>2. CASE ready /\ Progress
      <3>1. unpinged' = 0 /\ slow' = FALSE
        BY <1>11, <2>2 DEF Look
      <3>2. RuntimeTypes' /\ NotifierRight'
        <4>1. slow' \in BOOLEAN /\ unpinged' \in 0..WatchdogSec /\ rest' \in 0..Interval
          <5> HIDE DEF RuntimeIInv
          <5> QED
            BY <2>1, <3>1
        <4> QED
          BY <2>1, <4>1
      <3>3. PingsRight'
        BY <2>1, <3>1
      <3> QED
        BY <3>2, <3>3
    <2>3. CASE ~(ready /\ Progress)
      <3>1. UNCHANGED <<unpinged, slow>>
        BY <1>11, <2>3 DEF Look
      <3>2. ready => beats["main"] = Freshness
        BY <2>3 DEF Progress, Gate
      <3> QED
        BY <2>1, <3>1, <3>2
    <2> QED
      BY <2>2, <2>3
  <1>12. CASE Respawn
    <2>1. beats' \in [{"main", "health"} -> 0..Freshness]
      BY <1>12 DEF Respawn, NewProcess
    <2>2. /\ phase' = "init" /\ locked' = FALSE /\ stuck' = FALSE /\ signal' = "none" /\ armed' = FALSE
          /\ ready' = FALSE /\ stopping' = FALSE /\ notifying' = TRUE
          /\ rest' = 0 /\ unpinged' = 0 /\ slow' = FALSE /\ UNCHANGED <<setUp, paired>>
      BY <1>12 DEF Respawn, NewProcess
    <2>3. NotifierRight' /\ PingsRight'
      BY <2>2
    <2>4. RuntimeTypes'
      <3>1. /\ locked' \in BOOLEAN /\ stuck' \in BOOLEAN /\ armed' \in BOOLEAN /\ ready' \in BOOLEAN
            /\ stopping' \in BOOLEAN /\ notifying' \in BOOLEAN /\ slow' \in BOOLEAN /\ phase' \in Phases
            /\ signal' \in {"none", "enter", "join", "done"}
            /\ unpinged' \in 0..WatchdogSec /\ rest' \in 0..Interval /\ UNCHANGED <<setUp, paired>>
        <4> HIDE DEF RuntimeIInv
        <4> QED
          BY <2>2 DEF Phases
      <3> QED
        BY <2>1, <3>1
    <2> QED
      BY <2>3, <2>4
  <1>13. CASE TimePasses
    <2>1. /\ beats' \in [{"main", "health"} -> 0..Freshness] /\ rest' \in 0..Interval /\ unpinged' \in 0..WatchdogSec
          /\ beats'["main"] = Capped(beats["main"], Freshness)
          /\ slow' = (slow \/ (ready /\ beats'["main"] = Freshness)) /\ slow' \in BOOLEAN
      BY <1>13 DEF TimePasses, Capped
    <2>2. UNCHANGED <<phase, setUp, paired, locked, stuck, signal, armed, ready, stopping, notifying>>
          /\ rest' = Capped(rest, Interval) /\ unpinged' = Capped(unpinged, WatchdogSec)
      BY <1>13 DEF TimePasses
    <2>3. PingsRight'
      <3> SUFFICES ASSUME ready, ~stopping, ~slow'
                   PROVE  /\ unpinged' <= rest' \/ (locked /\ signal = "enter" /\ unpinged' <= Interval + beats'["main"])
                          /\ beats'["main"] = Freshness => unpinged' = 0
        BY <2>2
      <3>1. ~slow /\ beats'["main"] # Freshness /\ notifying
        BY <2>1
      <3>2. beats'["main"] = beats["main"] + 1
        BY <2>1, <3>1 DEF Capped
      <3>3. unpinged' <= unpinged + 1
        BY <2>2 DEF Capped
      <3>4. CASE locked
        <4>1. signal = "enter"
          BY <1>13, <3>4 DEF TimePasses, Free
        <4>2. unpinged <= Interval + beats["main"]
          BY <3>1
        <4> QED
          BY <3>1, <3>2, <3>3, <3>4, <4>1, <4>2, <2>1
      <3>5. CASE ~locked
        <4>1. rest' = rest + 1 /\ unpinged <= rest
          BY <1>13, <2>2, <3>1, <3>5 DEF TimePasses, Capped
        <4> QED
          BY <3>1, <3>3, <4>1, <2>1
      <3> QED
        BY <3>4, <3>5
    <2> QED
      BY <2>1, <2>2, <2>3
  <1>14. Leave \/ Advance \/ SetupDone \/ PairingDone \/ BeginBeat \/ Hang \/ EndBeat \/ HealthBeat
         \/ StopNotifier \/ ArmExit \/ Teardown \/ Look \/ Respawn \/ TimePasses
         \/ (\E b \in BOOLEAN : Signalled(b)) \/ (\E b \in BOOLEAN : Revert(b))
    BY DEF RuntimeNext, Systemd, ShutdownEnds, ForceExit, SecondSignal, WatchdogKill, StartTimeout, StopTimeout
  <1> QED
    BY <1>0, <1>1, <1>3, <1>4, <1>5, <1>6, <1>7, <1>8, <1>9, <1>11, <1>12, <1>13, <1>14

LEMMA RuntimeStutters == ASSUME RuntimeIInv, UNCHANGED runtimeVars PROVE RuntimeIInv'
  BY DEF RuntimeIInv, RuntimeTypes, NotifierRight, PingsRight, runtimeVars

LEMMA KillsTheSlow == ASSUME RuntimeIInv, WatchdogKill PROVE slow
  BY Ticks DEF RuntimeIInv, RuntimeTypes, PingsRight, WatchdogKill, Watched

-----------------------------------------------------------------------------
(* The resolver                                                            *)
PulseSteps == {"idle", "lookup", "send", "clear"}
ResolverIInv == ResolverTypeOK /\ pulse \in [at : PulseSteps, next : PulseSteps]

LEMMA ResolverInitRight == ResolverInit => ResolverIInv
  <1> SUFFICES ASSUME ResolverInit PROVE ResolverIInv
    OBVIOUS
  <1>1. pulse \in [at : PulseSteps, next : PulseSteps] /\ {pulse.at, pulse.next} \subseteq PulseSteps
    BY DEF ResolverInit, PulseSteps, Asleep, At
  <1>2. {resolved, cache} \subseteq Known /\ {named, fault} \subseteq BOOLEAN
    BY DEF ResolverInit
  <1>3. real \in Homes /\ search = "trying" /\ failures = 0 /\ moves = 0
    BY DEF ResolverInit
  <1> QED
    BY <1>1, <1>2, <1>3, ThresholdAssumption DEF ResolverIInv, ResolverTypeOK, PulseSteps

LEMMA ResolverStep == ASSUME ResolverIInv, ResolverNext PROVE ResolverIInv'
  <1> USE ThresholdAssumption DEF ResolverIInv, ResolverTypeOK, PulseSteps, Asleep, At
  <1>1. \A h \in Homes : h.found \in Known /\ h.advertised \in Known
    BY DEF Homes, Known
  <1>2. Unknown \in Known
    BY DEF Known
  <1>3. CASE Searching
    BY <1>1, <1>2, <1>3 DEF Searching, Found, Deadline, AddFault, SearchEnds, Settled
  <1>4. CASE NextPulse \/ LookUp \/ PulseEnds
    <2>1. CASE NextPulse
      BY <2>1 DEF NextPulse
    <2>2. CASE LookUp
      BY <1>1, <2>2 DEF LookUp
    <2>3. CASE PulseEnds
      BY <2>3 DEF PulseEnds, Settled
    <2> QED
      BY <1>4, <2>1, <2>2, <2>3
  <1>5. CASE Answered
    BY <1>1, <1>5 DEF Answered
  <1>6. CASE Unanswered
    BY <1>6 DEF Unanswered
  <1>7. CASE ResolverStarts \/ NameComesOrGoes \/ \E home \in Homes : Move(home)
    <2>1. moves' \in 0..MaxMoves
      BY <1>7 DEF ResolverStarts, NameComesOrGoes, Move, Moved
    <2>2. CASE ResolverStarts
      <3>1. resolved' \in Known /\ {named', fault'} \subseteq BOOLEAN /\ search' = "trying" /\ failures' = 0
            /\ UNCHANGED <<real, cache>>
        BY <1>2, <2>2 DEF ResolverStarts
      <3>2. pulse' \in [at : PulseSteps, next : PulseSteps] /\ {pulse'.at, pulse'.next} \subseteq PulseSteps
        BY <2>2 DEF ResolverStarts
      <3> HIDE DEF Asleep, At
      <3> QED
        BY <2>1, <3>1, <3>2
    <2>3. CASE NameComesOrGoes \/ \E home \in Homes : Move(home)
      <3>1. {named', fault'} \subseteq BOOLEAN /\ real' \in Homes
            /\ UNCHANGED <<resolved, cache, search, pulse, failures>>
        BY <2>3 DEF NameComesOrGoes, Move
      <3> QED
        BY <2>1, <3>1
    <2> QED
      BY <1>7, <2>2, <2>3
  <1> QED
    BY <1>3, <1>4, <1>5, <1>6, <1>7 DEF ResolverNext, Beating

LEMMA ResolverStutters == ASSUME ResolverIInv, UNCHANGED resolverVars PROVE ResolverIInv'
  BY DEF ResolverIInv, ResolverTypeOK, resolverVars

-----------------------------------------------------------------------------
(* A camera's configuration on both sides                                  *)
Values == 0..MaxEdits
Plans == [value : Values, at : 0..(Lag + MaxEdits + 1)]
Configs == [pipe : Values, motion : Values, plan : Plans]
CameraRecords == [pipe : Values, motion : Values, plan : Plans, sync : {"synced", "pending", "trust_lost"}]
ValuesOf(f) == IF f = "plan" THEN Plans ELSE Values
Answers == {a \in UNION {[S -> Plans \cup Values] : S \in SUBSET Fields} : \A f \in DOMAIN a : a[f] \in ValuesOf(f)}
Reports == [pipe : Values, plan : Plans]
Updates == [at : {"push", "save"}, field : Fields, seen : CameraRecords, new : CameraRecords]
Takings == [at : {"save"}, seen : CameraRecords, new : CameraRecords]
SentBeats == [at : {"sent"}, pipe : Values, plan : Plans]
SavedBeats == [at : {"save"}, seen : CameraRecords, new : CameraRecords, answer : Answers, twice : BOOLEAN]
ReplyBeats == [at : {"reply"}, answer : Answers]

SyncIInv ==
  /\ record \in CameraRecords /\ camera \in Configs
  /\ update \in {NotBusy} \cup Updates /\ taking \in {NotBusy} \cup Takings
  /\ beat \in {NotBusy} \cup SentBeats \cup SavedBeats \cup ReplyBeats
  /\ notices \subseteq Reports /\ owed \in Nat
  /\ edits \in 0..MaxEdits /\ losses \in 0..MaxLosses
  /\ clock \in (Lag + 1)..(Lag + 1 + edits)

LEMMA SyncNumbers == MaxEdits \in Nat /\ MaxLosses \in Nat /\ Lag \in Nat
  BY SyncBounds

LEMMA LocalStamp ==
    ASSUME NEW e \in 0..MaxEdits, NEW c \in (Lag + 1)..(Lag + 1 + e)
    PROVE  c - Lag \in 0..(Lag + MaxEdits + 1)
  <1>1. e \in Int /\ e <= MaxEdits /\ c \in Int /\ Lag + 1 <= c /\ c <= Lag + 1 + e
    BY SyncNumbers
  <1> QED
    BY <1>1, SyncNumbers

LEMMA IdleIs == NotBusy.at = "idle"
  BY DEF NotBusy

LEMMA SyncInitRight == SyncInit => SyncIInv
  <1> SUFFICES ASSUME SyncInit PROVE SyncIInv
    OBVIOUS
  <1>1. Plan(0, 0) \in Plans /\ 0 \in Values
    BY SyncNumbers DEF Plan, Plans, Values
  <1>2. record \in CameraRecords /\ camera \in Configs
    BY <1>1 DEF SyncInit, CameraRecords, Configs
  <1> QED
    BY <1>2, SyncNumbers DEF SyncInit, SyncIInv

LEMMA EditedType ==
    ASSUME NEW f \in Fields, NEW at \in 0..(Lag + MaxEdits + 1), edits + 1 \in Values
    PROVE  /\ \A r \in CameraRecords : Edited(r, f, at) \in CameraRecords
           /\ \A c \in Configs : Edited(c, f, at) \in Configs
  <1>1. Plan(edits + 1, at) \in Plans
    BY DEF Plan, Plans
  <1>2. CASE f = "plan"
    BY <1>1, <1>2 DEF Edited, CameraRecords, Configs
  <1>3. CASE f # "plan"
    BY <1>3 DEF Edited, CameraRecords, Configs, Fields
  <1> QED
    BY <1>2, <1>3

LEMMA AppliedType ==
    ASSUME SyncIInv, NEW a, Apply(a), \A f \in DOMAIN a \cap Fields : a[f] \in ValuesOf(f)
    PROVE  camera' \in Configs
  <1> DEFINE v(f) == IF f \in DOMAIN a THEN a[f] ELSE camera[f]
  <1>1. camera' = [f \in Fields |-> v(f)]
    BY DEF Apply
  <1>2. v("pipe") \in Values /\ v("motion") \in Values /\ v("plan") \in Plans
    BY DEF SyncIInv, Configs, ValuesOf, Fields
  <1>3. camera' = [pipe |-> v("pipe"), motion |-> v("motion"), plan |-> v("plan")]
    BY <1>1 DEF Fields
  <1> HIDE DEF v
  <1> QED
    BY <1>2, <1>3 DEF Configs

LEMMA AcceptedType ==
    ASSUME NEW r \in CameraRecords, NEW n \in Reports PROVE Accepted(r, n) \in CameraRecords
  BY DEF Accepted, CameraRecords, Reports

LEMMA ReportedType ==
    ASSUME NEW r \in CameraRecords, NEW b \in SentBeats PROVE Reported(Adopted(r, b), b) \in CameraRecords
  <1>1. Adopted(r, b) \in CameraRecords
    BY DEF Adopted, CameraRecords, SentBeats
  <1>2. \A q \in CameraRecords : Reported(q, b) \in CameraRecords
    BY DEF Reported, CameraRecords, SentBeats
  <1> QED
    BY <1>1, <1>2

LEMMA AnswerType ==
    ASSUME NEW r \in CameraRecords, NEW b PROVE Answer(r, b) \in Answers
  <1> DEFINE S == (IF r.sync = "pending" THEN Fields ELSE {}) \cup (IF Newer(r.plan, b.plan) THEN {"plan"} ELSE {})
  <1>1. S \in SUBSET Fields
    BY DEF Fields
  <1>2. Answer(r, b) = [f \in S |-> r[f]]
    BY DEF Answer
  <1>3. \A f \in Fields : r[f] \in ValuesOf(f) /\ r[f] \in Plans \cup Values
    BY DEF CameraRecords, Fields, ValuesOf
  <1> HIDE DEF S
  <1> QED
    BY <1>1, <1>2, <1>3 DEF Answers

LEMMA SyncStep == ASSUME SyncIInv, SyncNext PROVE SyncIInv'
  <1>1. CASE \E f \in Fields : BeginUpdate(f)
    <2> PICK f \in Fields : BeginUpdate(f)
      BY <1>1
    <2>1. edits' = edits + 1 /\ edits < MaxEdits /\ clock' \in {clock, clock + 1}
          /\ update' = [at |-> "push", field |-> f, seen |-> record, new |-> Edited(record, f, clock')]
          /\ UNCHANGED <<record, camera, beat, owed, notices, taking, losses>>
      BY DEF BeginUpdate, Edit
    <2>2. edits' \in 0..MaxEdits /\ edits + 1 \in Values /\ clock' \in (Lag + 1)..(Lag + 1 + edits')
          /\ clock' \in 0..(Lag + MaxEdits + 1)
      BY <2>1, SyncNumbers DEF SyncIInv, Values
    <2>3. Edited(record, f, clock') \in CameraRecords
      BY <2>2, EditedType DEF SyncIInv
    <2>4. update' \in Updates
      BY <2>1, <2>3 DEF Updates, SyncIInv
    <2> QED
      BY <2>1, <2>2, <2>4 DEF SyncIInv
  <1>2. CASE \E f \in Fields : LocalEdit(f)
    <2> PICK f \in Fields : LocalEdit(f)
      BY <1>2
    <2>1. edits' = edits + 1 /\ edits < MaxEdits /\ clock' \in {clock, clock + 1} /\ owed' = owed + 1
          /\ camera' = Edited(camera, f, clock' - Lag)
          /\ UNCHANGED <<record, update, beat, notices, taking, losses>>
      BY DEF LocalEdit, Edit
    <2>2. edits' \in 0..MaxEdits /\ edits + 1 \in Values /\ clock' \in (Lag + 1)..(Lag + 1 + edits')
          /\ clock' - Lag \in 0..(Lag + MaxEdits + 1)
      <3>1. edits \in 0..MaxEdits /\ clock \in (Lag + 1)..(Lag + 1 + edits)
        BY DEF SyncIInv
      <3>2. edits' \in 0..MaxEdits /\ edits + 1 \in Values /\ clock' \in (Lag + 1)..(Lag + 1 + edits')
        BY <2>1, <3>1, SyncNumbers DEF Values
      <3>3. clock' - Lag \in 0..(Lag + MaxEdits + 1)
        BY <3>2, LocalStamp
      <3> QED
        BY <3>2, <3>3
    <2>3. camera' \in Configs
      BY <2>1, <2>2, EditedType DEF SyncIInv
    <2> QED
      BY <2>1, <2>2, <2>3 DEF SyncIInv
  <1>3. ASSUME NEW x \in {"synced", "pending", "trust_lost"}, update.at = "push", Pushed(x)
        PROVE  update' \in Updates /\ update \in Updates
    <2>1. update \in Updates
      BY <1>3, IdleIs DEF SyncIInv
    <2> DEFINE n == [update.new EXCEPT !.sync = x]
    <2>2. n \in CameraRecords
      BY <2>1 DEF Updates, CameraRecords
    <2>3. update' = [update EXCEPT !.at = "save", !.new = n]
      BY <1>3, <2>1 DEF Pushed, Updates
    <2> HIDE DEF n
    <2> QED
      BY <2>1, <2>2, <2>3 DEF Updates
  <1>4. ASSUME update \in Updates, Apply([f \in {update.field} |-> update.new[f]])
        PROVE  camera' \in Configs
    <2> DEFINE a == [f \in {update.field} |-> update.new[f]]
    <2>1. update.field \in Fields /\ update.new \in CameraRecords
      BY <1>4 DEF Updates
    <2>2. \A f \in Fields : update.new[f] \in ValuesOf(f)
      BY <2>1 DEF CameraRecords, Fields, ValuesOf
    <2>3. \A f \in DOMAIN a \cap Fields : a[f] \in ValuesOf(f)
      BY <2>2
    <2> QED
      BY <1>4, <2>3, AppliedType
  <1>5. CASE Push
    <2>1. update' \in Updates /\ camera' \in Configs
      BY <1>3, <1>4, <1>5 DEF Push
    <2> QED
      BY <1>5, <2>1 DEF Push, SyncIInv
  <1>6. CASE PushFails(TRUE, "pending") \/ PushFails(FALSE, "pending") \/ PushFails(FALSE, "trust_lost")
    <2>1. update' \in Updates /\ camera' \in Configs
      BY <1>3, <1>4, <1>6 DEF PushFails, SyncIInv
    <2>2. losses' \in 0..MaxLosses /\ UNCHANGED <<record, beat, owed, notices, taking, clock, edits>>
      BY <1>6, SyncNumbers DEF PushFails, SyncIInv
    <2> QED
      BY <2>1, <2>2 DEF SyncIInv
  <1>7. CASE EndUpdate
    <2>1. update \in Updates
      BY <1>7, IdleIs DEF EndUpdate, SyncIInv
    <2> QED
      BY <1>7, <2>1 DEF EndUpdate, Save, SyncIInv, Updates
  <1>8. CASE SendNotice
    <2>1. [pipe |-> camera.pipe, plan |-> camera.plan] \in Reports
      BY DEF SyncIInv, Configs, Reports
    <2> QED
      BY <1>8, <2>1 DEF SendNotice, SyncIInv
  <1>9. CASE \E n \in notices : LoseNotice(n)
    BY <1>9, SyncNumbers DEF LoseNotice, SyncIInv
  <1>10. CASE \E n \in notices : TakeNotice(n)
    <2> PICK n \in notices : TakeNotice(n)
      BY <1>10
    <2>1. Accepted(record, n) \in CameraRecords
      BY AcceptedType DEF SyncIInv
    <2>2. taking' \in Takings
      BY <2>1 DEF TakeNotice, Takings, SyncIInv
    <2> QED
      BY <2>2 DEF TakeNotice, SyncIInv
  <1>11. CASE SaveNotice
    <2>1. taking \in Takings
      BY <1>11, IdleIs DEF SaveNotice, SyncIInv
    <2> QED
      BY <1>11, <2>1 DEF SaveNotice, Save, SyncIInv, Takings
  <1>12. CASE SendBeat
    <2>1. beat' \in SentBeats
      BY <1>12 DEF SendBeat, SentBeats, SyncIInv, Configs
    <2> QED
      BY <1>12, <2>1 DEF SendBeat, SyncIInv
  <1>13. CASE LoseBeat \/ RefuseAnswer
    BY <1>13, SyncNumbers DEF LoseBeat, RefuseAnswer, SyncIInv
  <1>14. CASE TakeBeat
    <2> DEFINE n == Reported(Adopted(record, beat), beat)
               w == Newer(n.plan, beat.plan)
    <2>1. beat \in SentBeats
      BY <1>14, IdleIs DEF TakeBeat, SyncIInv, SentBeats, SavedBeats, ReplyBeats
    <2>2. n \in CameraRecords
      BY <2>1, ReportedType DEF SyncIInv
    <2>3. beat' = [at |-> "save", seen |-> record, new |-> n, answer |-> Answer(n, beat), twice |-> w]
      BY <1>14 DEF TakeBeat
    <2>4. w \in BOOLEAN
      BY DEF Newer
    <2> HIDE DEF n, w
    <2>5. Answer(n, beat) \in Answers
      BY <2>2, AnswerType
    <2>6. beat' \in SavedBeats
      BY <2>2, <2>3, <2>4, <2>5 DEF SavedBeats, SyncIInv
    <2> QED
      BY <1>14, <2>6 DEF TakeBeat, SyncIInv
  <1>15. CASE SaveBeat
    <2>1. beat \in SavedBeats
      BY <1>15, IdleIs DEF SaveBeat, SyncIInv, SentBeats, SavedBeats, ReplyBeats
    <2>2. beat' \in SavedBeats \cup ReplyBeats
      BY <1>15, <2>1 DEF SaveBeat, SavedBeats, ReplyBeats
    <2>3. record' \in CameraRecords
      BY <1>15, <2>1 DEF SaveBeat, Save, SavedBeats
    <2> QED
      BY <1>15, <2>2, <2>3 DEF SaveBeat, SyncIInv
  <1>16. CASE TakeAnswer
    <2>1. beat \in ReplyBeats
      BY <1>16, IdleIs DEF TakeAnswer, SyncIInv, SentBeats, SavedBeats, ReplyBeats
    <2>2. \A f \in DOMAIN beat.answer \cap Fields : beat.answer[f] \in ValuesOf(f)
      BY <2>1 DEF ReplyBeats, Answers
    <2>3. camera' \in Configs
      BY <1>16, <2>2, AppliedType DEF TakeAnswer
    <2>4. owed' \in Nat /\ beat' = NotBusy /\ UNCHANGED <<record, update, notices, taking, clock, edits, losses>>
      BY <1>16 DEF TakeAnswer, SyncIInv
    <2> QED
      BY <2>3, <2>4 DEF SyncIInv
  <1>17. CASE Repair
    <2>1. record' \in CameraRecords
      BY <1>17 DEF Repair, SyncIInv, CameraRecords
    <2> QED
      BY <1>17, <2>1 DEF Repair, SyncIInv
  <1> QED
    BY <1>1, <1>2, <1>5, <1>6, <1>7, <1>8, <1>9, <1>10, <1>11, <1>12, <1>13, <1>14, <1>15, <1>16, <1>17
    DEF SyncNext, ServerSyncs, Beats

LEMMA SyncStutters == ASSUME SyncIInv, UNCHANGED syncVars PROVE SyncIInv'
  BY DEF SyncIInv, syncVars

LEMMA SyncGives == ASSUME SyncIInv PROVE SyncTypeOK
  <1>1. update.at \in {"idle", "push", "save"}
    BY IdleIs DEF SyncIInv, Updates
  <1>2. taking.at \in {"idle", "save"}
    BY IdleIs DEF SyncIInv, Takings
  <1>3. beat.at \in {"idle", "sent", "save", "reply"}
    BY IdleIs DEF SyncIInv, SentBeats, SavedBeats, ReplyBeats
  <1>4. \A p \in {record.plan, camera.plan} : p.value \in 0..MaxEdits /\ p.at \in 0..(Lag + MaxEdits + 1)
    BY DEF SyncIInv, CameraRecords, Configs, Plans, Values
  <1>5. Config(record).pipe \in 0..MaxEdits /\ record.motion \in 0..MaxEdits
        /\ record.sync \in {"synced", "pending", "trust_lost"}
        /\ camera.pipe \in 0..MaxEdits /\ camera.motion \in 0..MaxEdits
    BY DEF Config, SyncIInv, CameraRecords, Configs, Values
  <1> QED
    BY <1>1, <1>2, <1>3, <1>4, <1>5 DEF SyncIInv, SyncTypeOK

-----------------------------------------------------------------------------
(* The parts together                                                      *)
ApplianceIInv == SyncIInv /\ RestartIInv /\ SetupIInv /\ RuntimeIInv /\ ResolverIInv

LEMMA ApplianceStarts == ApplianceInit => ApplianceIInv
  BY SyncInitRight, RestartInitRight, SetupInitRight, RuntimeInitRight, ResolverInitRight DEF ApplianceInit, ApplianceIInv

LEMMA ApplianceStep == ApplianceIInv /\ [ApplianceNext]_applianceVars => ApplianceIInv'
  <1> SUFFICES ASSUME ApplianceIInv, [ApplianceNext]_applianceVars PROVE ApplianceIInv'
    OBVIOUS
  <1> USE DEF ApplianceIInv
  <1>1. CASE InSync(SyncNext)
    BY <1>1, SyncStep, RestartStutters, SetupStutters, RuntimeStutters, ResolverStutters DEF InSync
  <1>2. CASE InRestart(RestartNext)
    BY <1>2, SyncStutters, RestartStep, SetupStutters, RuntimeStutters, ResolverStutters DEF InRestart
  <1>3. CASE InSetup(SetupNext)
    BY <1>3, SyncStutters, RestartStutters, SetupStep, RuntimeStutters, ResolverStutters DEF InSetup
  <1>4. CASE InRuntime(RuntimeNext)
    BY <1>4, SyncStutters, RestartStutters, SetupStutters, RuntimeStep, ResolverStutters DEF InRuntime
  <1>5. CASE InResolver(ResolverNext)
    BY <1>5, SyncStutters, RestartStutters, SetupStutters, RuntimeStutters, ResolverStep DEF InResolver
  <1>6. CASE UNCHANGED applianceVars
    BY <1>6, SyncStutters, RestartStutters, SetupStutters, RuntimeStutters, ResolverStutters DEF applianceVars
  <1> QED
    BY <1>1, <1>2, <1>3, <1>4, <1>5, <1>6 DEF ApplianceNext

LEMMA ApplianceStays == ApplianceSpec => []ApplianceIInv
  BY ApplianceStarts, ApplianceStep, PTL DEF ApplianceSpec

(* In every reachable state, whatever the bounds, the attempts and the     *)
(* addresses: the types; a scheduled minute whose note stands brings at    *)
(* most one reboot (check_once, _has_run, _mark_run); and an appliance     *)
(* that is stamped as set up has a network to join, and a camera whose     *)
(* file was not cut short its configuration, unless a reset and a set-up   *)
(* overlapped, the reset could not remove the stamp or a failed join       *)
(* passed for one (_do_connect, complete_setup, execute_reset).            *)
THEOREM ApplianceIsRight == ApplianceSpec => []ApplianceInv
  <1>1. ApplianceIInv => ApplianceInv
    BY SyncGives, RuntimeGives
    DEF ApplianceIInv, ApplianceInv, ApplianceTypeOK, RestartIInv, RestartTypes, SetupIInv, ResolverIInv
  <1> QED
    BY <1>1, ApplianceStays, PTL

(* The watchdog's kill is earned: as long as the main thread has beaten in *)
(* time since the last ping, systemd kills no camera, for every interval   *)
(* and freshness that together fit WatchdogSec (_run_loop, _tick,          *)
(* _fresh_component).                                                      *)
THEOREM WatchdogKillsTheSlow == ApplianceSpec => KillIsEarned
  <1>1. ApplianceIInv /\ [ApplianceNext]_applianceVars => [WatchdogKill => slow]_runtimeVars
    BY KillsTheSlow DEF ApplianceIInv
  <1> QED
    BY <1>1, ApplianceStays, PTL DEF ApplianceSpec, KillIsEarned

-----------------------------------------------------------------------------
(* The alert centre: what is about to be marked as read was listed.        *)
AlertIInv ==
  /\ AlertTypeOK /\ ReadWasListed
  /\ \A u \in People : marking[u] \subseteq listed[u]

LEMMA AlertStarts == AlertInit => AlertIInv
  BY AlertAssumption DEF AlertInit, AlertIInv, AlertTypeOK, ReadWasListed

LEMMA AlertStutters == AlertIInv /\ UNCHANGED alertVars => AlertIInv'
  BY DEF AlertIInv, AlertTypeOK, ReadWasListed, alertVars

LEMMA AlertStep == ASSUME AlertIInv, AlertNext PROVE AlertIInv'
  <1> USE AlertAssumption DEF AlertIInv, AlertTypeOK, ReadWasListed, Act
  <1>1. ASSUME NEW a \in AlertIds, Appear(a) PROVE AlertIInv'
    BY <1>1 DEF Appear
  <1>2. ASSUME NEW a \in AlertIds, Vanish(a) PROVE AlertIInv'
    BY <1>2 DEF Vanish
  <1>3. ASSUME NEW u \in People, MarkAllEnd(u) PROVE AlertIInv'
    BY <1>3 DEF MarkAllEnd
  <1>4. ASSUME NEW u \in People, NEW s \in Sources, MarkAllBegin(u, s) PROVE AlertIInv'
    <2> DEFINE shown == {a \in present \cap Filtered(s) : a \in Lines => role[u] = "admin"}
    <2>1. Unread(u) \cap Filtered(s) \subseteq shown /\ shown \subseteq AlertIds
      BY DEF Unread, Computed
    <2>2. /\ marking' = [marking EXCEPT ![u] = Unread(u) \cap Filtered(s)]
          /\ listed' = [listed EXCEPT ![u] = @ \cup shown]
          /\ UNCHANGED <<present, role, read, clicked, news>> /\ acts' \in 0..MaxActs
      BY <1>4 DEF MarkAllBegin
    <2> HIDE DEF shown
    <2> QED
      BY <2>1, <2>2
  <1>5. ASSUME NEW u \in People, NEW a \in AlertIds, MarkRead(u, a) PROVE AlertIInv'
    BY <1>5 DEF MarkRead
  <1>6. ASSUME NEW u \in People, NEW r \in {"admin", "viewer"}, Recreate(u, r) PROVE AlertIInv'
    BY <1>6 DEF Recreate
  <1> QED
    BY <1>1, <1>2, <1>3, <1>4, <1>5, <1>6 DEF AlertNext

-----------------------------------------------------------------------------
(* The event store: sequences of events with identifiers of their own.     *)
Store(es) ==
  /\ es \in Seq(Event) /\ Len(es) <= MaxStored
  /\ \A i, j \in 1..Len(es) : es[i].id = es[j].id => i = j

(* A set of times has a newest one.                                        *)
LEMMA NewestTime ==
    ASSUME NEW S \in SUBSET (Time \cup {NoTime}), S # {}
    PROVE  Max(S) \in S /\ \A y \in S : y <= Max(S)
  <1> DEFINE T == {n \in Nat : \E y \in S : n = MaxTime - y}
  <1>1. MaxTime \in Nat /\ \A y \in S : y \in Int /\ MaxTime - y \in Nat
    BY MotionAssumption DEF Time, NoTime
  <1>2. T \subseteq Nat /\ T # {}
    BY <1>1
  <1>3. PICK n \in T : \A k \in T : ~(<<k, n>> \in OpToRel(<, Nat))
    BY <1>2, NatLessThanWellFounded, WFMin
  <1>4. PICK x \in S : n = MaxTime - x
    OBVIOUS
  <1>5. \A y \in S : x >= y
    <2> SUFFICES ASSUME NEW y \in S PROVE x >= y
      OBVIOUS
    <2>1. MaxTime - y \in T
      BY <1>1
    <2>2. ~(MaxTime - y < n)
      BY <1>3, <2>1, <1>2 DEF OpToRel
    <2> QED
      BY <1>1, <1>4, <2>2
  <1>6. Max(S) \in S /\ \A y \in S : Max(S) >= y
    BY <1>5 DEF Max
  <1> QED
    BY <1>1, <1>6

LEMMA EventFacts ==
    ASSUME NEW e \in Event
    PROVE  /\ e.id \in Ids /\ e.cam \in Cameras /\ e.started \in Time /\ e.ended \in Time \cup {NoTime}
           /\ e.strong \in BOOLEAN /\ e.dur \in (-MaxTime)..MaxTime /\ e.clip \in BOOLEAN
           /\ MaxTime \in Nat
  BY MotionAssumption DEF Event

LEMMA EventStarts == \A e \in Event : e.started \in Int
  BY DEF Event, Time

LEMMA StoreFacts ==
    ASSUME NEW es, Store(es)
    PROVE  /\ Len(es) \in Nat /\ DOMAIN es = 1..Len(es) /\ es \in [1..Len(es) -> Event]
           /\ \A i \in DOMAIN es : es[i] \in Event
  BY DEF Store

(* A store that is changed in place, every event keeping its identifier.   *)
LEMMA InPlace ==
    ASSUME NEW es, Store(es), NEW fs \in [DOMAIN es -> Event], \A i \in DOMAIN es : fs[i].id = es[i].id
    PROVE  Store(fs) /\ Len(fs) = Len(es) /\ DOMAIN fs = DOMAIN es
  <1>1. Len(es) \in Nat /\ DOMAIN es = 1..Len(es)
    BY StoreFacts
  <1>2. fs \in Seq(Event) /\ Len(fs) = Len(es) /\ DOMAIN fs = DOMAIN es
    BY <1>1
  <1> QED
    BY <1>1, <1>2 DEF Store

(* An event that begins closes the open ones of its camera, and retimes no *)
(* event.                                                                  *)
LEMMA AutoCloseTypes ==
    ASSUME NEW es, Store(es), NEW e \in Event
    PROVE  /\ Store(AutoClose(es, e)) /\ Len(AutoClose(es, e)) = Len(es)
           /\ \A i \in 1..Len(es) : /\ AutoClose(es, e)[i].id = es[i].id
                                    /\ AutoClose(es, e)[i].started = es[i].started
  <1> DEFINE fs == AutoClose(es, e)
  <1>1. Len(es) \in Nat /\ DOMAIN es = 1..Len(es) /\ \A i \in DOMAIN es : es[i] \in Event
    BY StoreFacts
  <1>2. DOMAIN fs = DOMAIN es
    BY DEF AutoClose
  <1>3. ASSUME NEW i \in DOMAIN es
        PROVE  fs[i] \in Event /\ fs[i].id = es[i].id /\ fs[i].started = es[i].started
    <2> DEFINE d == es[i]
               g == [d EXCEPT !.ended = e.started, !.dur = e.started - d.started]
    <2>1. fs[i] = d \/ fs[i] = g
      BY DEF AutoClose
    <2>2. d \in Event
      BY <1>1
    <2>3. e.started - d.started \in (-MaxTime)..MaxTime /\ e.started \in Time
      BY <2>2, EventFacts DEF Time
    <2>4. g \in Event /\ g.id = d.id /\ g.started = d.started
      BY <2>2, <2>3 DEF Event
    <2> QED
      BY <2>1, <2>2, <2>4
  <1>4. fs \in [DOMAIN es -> Event]
    BY <1>2, <1>3 DEF AutoClose
  <1> HIDE DEF fs
  <1>5. Store(fs) /\ Len(fs) = Len(es)
    BY <1>3, <1>4, InPlace
  <1> QED
    BY <1>1, <1>3, <1>5 DEF fs

(* What Put leaves: a store again, in which every event is the new one or  *)
(* an old one that keeps its start; nothing is lost as long as there is    *)
(* room.                                                                   *)
PutLeaves(es, e, fs) ==
  /\ \A j \in DOMAIN fs : fs[j] = e \/ (fs[j].id # e.id
       /\ \E i \in DOMAIN es : fs[j].id = es[i].id /\ fs[j].started = es[i].started)
  /\ Find(es, e.id) # {} \/ Len(es) < MaxStored =>
       /\ \E j \in DOMAIN fs : fs[j] = e
       /\ \A i \in DOMAIN es : \E j \in DOMAIN fs : fs[j].id = es[i].id

LEMMA PutTypes ==
    ASSUME NEW es, Store(es), NEW e \in Event
    PROVE  Store(Put(es, e)) /\ PutLeaves(es, e, Put(es, e))
  <1> DEFINE fs == Put(es, e)
  <1>1. Len(es) \in Nat /\ DOMAIN es = 1..Len(es) /\ \A i \in DOMAIN es : es[i] \in Event
    BY StoreFacts
  <1>2. CASE Find(es, e.id) # {}
    <2>1. fs = [i \in DOMAIN es |-> IF es[i].id = e.id THEN e ELSE es[i]]
      BY <1>2 DEF Put
    <2> HIDE DEF fs
    <2>2. fs \in [DOMAIN es -> Event]
      BY <1>1, <2>1
    <2>3. \A i \in DOMAIN es : fs[i].id = es[i].id /\ (fs[i] = e \/ (fs[i].id # e.id /\ fs[i] = es[i]))
      BY <2>1
    <2>4. Store(fs) /\ DOMAIN fs = DOMAIN es
      BY <2>2, <2>3, InPlace
    <2>5. PICK k \in DOMAIN es : es[k].id = e.id
      BY <1>2 DEF Find
    <2>6. fs[k] = e
      BY <2>1, <2>5
    <2> QED
      BY <2>3, <2>4, <2>5, <2>6 DEF fs, PutLeaves
  <1>3. CASE Find(es, e.id) = {}
    <2> DEFINE as == AutoClose(es, e)
               bs == Append(as, e)
    <2>1. fs = Compact(bs)
      BY <1>3 DEF Put
    <2>2. /\ Store(as) /\ Len(as) = Len(es)
          /\ \A i \in 1..Len(es) : as[i].id = es[i].id /\ as[i].started = es[i].started
      BY AutoCloseTypes
    <2>3. as \in Seq(Event) /\ DOMAIN as = 1..Len(es)
      BY <2>2, StoreFacts
    <2> HIDE DEF as
    <2>4. /\ bs \in Seq(Event) /\ Len(bs) = Len(es) + 1 /\ bs # <<>>
          /\ \A i \in 1..Len(es) : bs[i] = as[i]
          /\ bs[Len(es) + 1] = e
      <3>0. as \in Seq(Event)
        BY <2>3
      <3>1. bs \in Seq(Event) /\ bs # <<>>
        BY <3>0, AppendProperties
      <3>2. Len(bs) = Len(as) + 1 /\ bs[Len(as) + 1] = e
        BY <3>0, AppendProperties
      <3>3. \A i \in 1..Len(as) : bs[i] = as[i]
        BY <3>0, AppendProperties
      <3> QED
        BY <2>2, <3>1, <3>2, <3>3
    <2>5. \A i \in 1..Len(es) : es[i].id # e.id
      BY <1>1, <1>3 DEF Find
    <2> HIDE DEF bs
    <2>6. \A i, j \in 1..(Len(es) + 1) : bs[i].id = bs[j].id => i = j
      <3> SUFFICES ASSUME NEW i \in 1..(Len(es) + 1), NEW j \in 1..(Len(es) + 1), bs[i].id = bs[j].id
                   PROVE  i = j
        OBVIOUS
      <3>1. (i \in 1..Len(es) \/ i = Len(es) + 1) /\ (j \in 1..Len(es) \/ j = Len(es) + 1)
        BY <1>1
      <3> QED
        BY <2>2, <2>4, <2>5, <3>1 DEF Store
    <2>7. \A i \in 1..(Len(es) + 1) :
            bs[i] = e \/ (bs[i].id # e.id /\ \E k \in DOMAIN es : bs[i].id = es[k].id /\ bs[i].started = es[k].started)
      <3> SUFFICES ASSUME NEW i \in 1..(Len(es) + 1), bs[i] # e
                   PROVE  bs[i].id # e.id /\ \E k \in DOMAIN es : bs[i].id = es[k].id /\ bs[i].started = es[k].started
        OBVIOUS
      <3>1. i \in 1..Len(es)
        BY <1>1, <2>4
      <3> QED
        BY <1>1, <2>2, <2>4, <2>5, <3>1
    <2>8. MaxStored \in Nat \ {0} /\ Len(es) <= MaxStored
      BY MotionAssumption DEF Store
    <2>9. CASE Len(bs) > MaxStored
      <3>1. fs = Tail(bs) /\ Len(es) = MaxStored
        BY <1>1, <2>1, <2>4, <2>8, <2>9 DEF Compact
      <3>2. fs \in Seq(Event) /\ Len(fs) = Len(es) /\ DOMAIN fs = 1..Len(es) /\ \A i \in 1..Len(es) : fs[i] = bs[i + 1]
        BY <1>1, <2>4, <3>1, HeadTailProperties, LenProperties
      <3> HIDE DEF fs
      <3>3. \A i \in 1..Len(es) : i + 1 \in 1..(Len(es) + 1)
        BY <1>1
      <3>4. Store(fs)
        <4>1. ASSUME NEW i \in 1..Len(es), NEW j \in 1..Len(es), fs[i].id = fs[j].id PROVE i = j
          <5>1. i + 1 = j + 1
            BY <2>6, <3>2, <3>3, <4>1
          <5> QED
            BY <5>1
        <4> QED
          BY <2>8, <3>2, <4>1 DEF Store
      <3>5. ~(Len(es) < MaxStored)
        BY <1>1, <3>1
      <3>6. \A j \in DOMAIN fs :
              fs[j] = e \/ (fs[j].id # e.id /\ \E i \in DOMAIN es : fs[j].id = es[i].id /\ fs[j].started = es[i].started)
        BY <2>7, <3>2, <3>3
      <3> QED
        BY <1>3, <3>4, <3>5, <3>6 DEF fs, PutLeaves
    <2>10. CASE ~(Len(bs) > MaxStored)
      <3>1. fs = bs
        BY <2>1, <2>10 DEF Compact
      <3>2. DOMAIN bs = 1..(Len(es) + 1) /\ Len(bs) <= MaxStored
        BY <1>1, <2>4, <2>8, <2>10, LenProperties
      <3>3. Store(bs)
        BY <2>4, <2>6, <3>2 DEF Store
      <3>4. Len(es) + 1 \in DOMAIN bs /\ \A i \in DOMAIN es : i \in DOMAIN bs /\ bs[i].id = es[i].id
        <4>1. ASSUME NEW i \in 1..Len(es) PROVE i \in 1..(Len(es) + 1) /\ bs[i].id = es[i].id
          <5>1. bs[i] = as[i] /\ as[i].id = es[i].id
            BY <2>2, <2>4
          <5> QED
            BY <1>1, <5>1
        <4> QED
          BY <1>1, <3>2, <4>1
      <3> QED
        BY <2>4, <2>7, <3>1, <3>2, <3>3, <3>4 DEF PutLeaves
    <2> QED
      BY <2>9, <2>10
  <1> QED
    BY <1>2, <1>3

-----------------------------------------------------------------------------
(* The motions.  Nothing is dated in the future, no identifier is used     *)
(* before it is issued, and what a tab holds are alerts.                   *)
Detectors == [above : 0..(MinStart - 1), below : 0..(MinEnd - 1), began : Time \cup {NoTime}, id : 0..MaxMotions]
Rows == [seen : Time \cup {NoTime}, prefs : Prefs]
TabStates == [pc : {"idle", "select", "mark", "prefs"}, seen : Time \cup {NoTime}, prefs : Prefs,
              notes : [Cameras -> Time \cup {NoTime}], inbox : SUBSET Alerts]

CamerasRight ==
  /\ now \in Time /\ issued \in 0..MaxMotions
  /\ det \in [Cameras -> Detectors] /\ \A c \in Cameras : det[c].began <= now /\ det[c].id <= issued
  /\ net \subseteq Request /\ \A m \in net : m.at <= now /\ m.id <= issued
StoreRight ==
  /\ lastStart \in [Cameras -> Time \cup {NoTime}]
  /\ Store(events) /\ \A i \in DOMAIN events : events[i].id <= issued
WebRight ==
  /\ throttles \subseteq Throttles /\ lastNote \in [Cameras -> Time \cup {NoTime}]
  /\ row \in [Users -> Rows] /\ tab \in [Tabs -> TabStates] /\ acked \in [Users -> SUBSET Alerts]
  /\ \A x \in Tabs : \A a \in tab[x].inbox : a.src = "throttle" => a.id \in Time
MotionIInv == CamerasRight /\ StoreRight /\ WebRight /\ changes \in 0..MaxChanges

LEMMA MotionNumbers ==
    /\ MinStart \in Nat \ {0} /\ MinEnd \in Nat \ {0} /\ MaxMotions \in Nat /\ MaxChanges \in Nat /\ MaxTime \in Nat
    /\ MaxStored \in Nat \ {0} /\ Chosen \in Prefs /\ (\A x \in Tabs : x.user \in Users)
    /\ Time \subseteq Int /\ NoTime \in Int /\ NoTime \notin Time
    /\ (\A t \in Time : 0 <= t /\ t <= MaxTime /\ t > NoTime) /\ 0 \in Time
  BY MotionAssumption DEF Time, NoTime

LEMMA MotionIsTyped == MotionIInv => TypeOK
  BY DEF MotionIInv, CamerasRight, StoreRight, WebRight, TypeOK, Store, Rows, TabStates, Detectors

LEMMA MotionStarts == Init => MotionIInv
  <1> SUFFICES ASSUME Init PROVE MotionIInv
    OBVIOUS
  <1> USE MotionNumbers DEF Init
  <1>1. Idle \in Detectors /\ Idle.began <= now /\ Idle.id <= issued
    BY DEF Idle, Detectors
  <1>2. CamerasRight
    BY <1>1 DEF CamerasRight
  <1>3. Store(events)
    BY DEF Store
  <1>4. StoreRight
    BY <1>3 DEF StoreRight
  <1>5. Rest \in TabStates /\ Rest.inbox = {}
    BY DEF Rest, TabStates
  <1>6. WebRight
    BY <1>5 DEF WebRight, Rows
  <1> QED
    BY <1>2, <1>4, <1>6 DEF MotionIInv

LEMMA CamerasStutter == CamerasRight /\ UNCHANGED <<now, issued, det, net>> => CamerasRight'
  BY DEF CamerasRight

LEMMA StoreStutters ==
    ASSUME StoreRight, issued \in Int, issued' \in Int, issued <= issued', UNCHANGED <<lastStart, events>>
    PROVE  StoreRight'
  <1>1. \A i \in DOMAIN events : events[i].id \in Int
    <2> SUFFICES ASSUME NEW i \in DOMAIN events PROVE events[i].id \in Int
      OBVIOUS
    <2>1. events[i] \in Event
      BY StoreFacts DEF StoreRight
    <2> QED
      BY <2>1, MotionNumbers DEF Event, Ids
  <1> QED
    BY <1>1 DEF StoreRight, Store

LEMMA WebStutters == WebRight /\ UNCHANGED <<throttles, lastNote, row, tab, acked>> => WebRight'
  BY DEF WebRight

LEMMA MotionStutters == MotionIInv /\ UNCHANGED vars => MotionIInv'
  <1> SUFFICES ASSUME MotionIInv, UNCHANGED vars PROVE MotionIInv'
    OBVIOUS
  <1>1. issued \in Int /\ issued <= issued
    BY MotionNumbers DEF MotionIInv, CamerasRight
  <1> QED
    BY <1>1, CamerasStutter, StoreStutters, WebStutters DEF vars, MotionIInv

(* What a camera does leaves the store and the browsers as they are.       *)
LEMMA CameraStep ==
    ASSUME MotionIInv, CamerasRight', Camera, issued <= issued', changes' \in 0..MaxChanges
    PROVE  MotionIInv'
  <1>1. issued \in Int /\ issued' \in Int
    BY MotionNumbers DEF MotionIInv, CamerasRight
  <1> QED
    BY <1>1, StoreStutters, WebStutters DEF MotionIInv, Camera

LEMMA DetectorSet ==
    ASSUME CamerasRight, NEW c \in Cameras, NEW d \in Detectors,
           issued' \in 0..MaxMotions, issued <= issued', d.began <= now, d.id <= issued',
           det' = [det EXCEPT ![c] = d], now' = now,
           net' \subseteq Request, \A m \in net' : m.at <= now /\ m.id <= issued'
    PROVE  CamerasRight'
  <1>1. \A b \in Cameras : det[b] \in Detectors /\ det[b].id \in Int /\ det[b].id <= issued
    BY DEF CamerasRight, Detectors
  <1>2. \A b \in Cameras : det'[b] = IF b = c THEN d ELSE det[b]
    BY DEF CamerasRight
  <1>3. \A b \in Cameras : det'[b].began <= now /\ det'[b].id <= issued'
    BY <1>1, <1>2, MotionNumbers DEF CamerasRight
  <1>4. det' \in [Cameras -> Detectors]
    BY <1>2 DEF CamerasRight
  <1> QED
    BY <1>3, <1>4 DEF CamerasRight

(* The net after a request that carries the present time.                  *)
LEMMA PostTypes ==
    ASSUME CamerasRight, NEW c \in Cameras, NEW ph \in {"start", "end"}, NEW id \in Ids, NEW dur \in Time,
           issued' \in 0..MaxMotions, issued <= issued', id <= issued', Post(c, ph, id, dur)
    PROVE  net' \subseteq Request /\ \A m \in net' : m.at <= now /\ m.id <= issued'
  <1> DEFINE r == [cam |-> c, phase |-> ph, id |-> id, at |-> now, strong |-> id \in Strong, dur |-> dur]
  <1>1. r \in Request /\ r.at = now /\ r.id = id
    BY DEF Request, CamerasRight
  <1>2. net' = net \cup {r}
    BY DEF Post
  <1> HIDE DEF r
  <1>3. \A m \in net : m \in Request /\ m.at <= now /\ m.id <= issued /\ m.id \in Int
    BY MotionNumbers DEF CamerasRight, Request, Ids
  <1> QED
    BY <1>1, <1>2, <1>3, MotionNumbers DEF CamerasRight

LEMMA NetKept ==
    ASSUME CamerasRight, issued' \in 0..MaxMotions, issued <= issued', net' \subseteq net
    PROVE  net' \subseteq Request /\ \A m \in net' : m.at <= now /\ m.id <= issued'
  <1>1. \A m \in net : m \in Request /\ m.at <= now /\ m.id <= issued /\ m.id \in Int
    BY MotionNumbers DEF CamerasRight, Request, Ids
  <1> QED
    BY <1>1, MotionNumbers DEF CamerasRight

(* The counters of a detector stay below their thresholds.                 *)
LEMMA DetectorEdits ==
    ASSUME NEW d \in Detectors
    PROVE  /\ \A a \in 0..(MinStart - 1), b \in 0..(MinEnd - 1), t \in Time \cup {NoTime}, i \in 0..MaxMotions :
                /\ [d EXCEPT !.above = a] \in Detectors /\ [d EXCEPT !.below = b] \in Detectors
                /\ [d EXCEPT !.above = a, !.below = b] \in Detectors
                /\ [d EXCEPT !.below = b, !.above = a] \in Detectors
                /\ [d EXCEPT !.above = a, !.below = b, !.began = t] \in Detectors
                /\ [d EXCEPT !.below = b, !.id = i] \in Detectors
           /\ 0 \in 0..(MinStart - 1) /\ 0 \in 0..(MinEnd - 1)
           /\ d.above + 1 < MinStart => d.above + 1 \in 0..(MinStart - 1)
           /\ d.below + 1 < MinEnd => d.below + 1 \in 0..(MinEnd - 1)
           /\ d = [above |-> d.above, below |-> d.below, began |-> d.began, id |-> d.id]
  <1>1. MinStart \in Nat \ {0} /\ MinEnd \in Nat \ {0}
    BY MotionNumbers
  <1>2. \A a \in 0..(MinStart - 1), b \in 0..(MinEnd - 1), t \in Time \cup {NoTime}, i \in 0..MaxMotions :
                /\ [d EXCEPT !.above = a] \in Detectors /\ [d EXCEPT !.below = b] \in Detectors
                /\ [d EXCEPT !.above = a, !.below = b] \in Detectors
                /\ [d EXCEPT !.below = b, !.above = a] \in Detectors
                /\ [d EXCEPT !.above = a, !.below = b, !.began = t] \in Detectors
                /\ [d EXCEPT !.below = b, !.id = i] \in Detectors
    BY DEF Detectors
  <1>3. 0 \in 0..(MinStart - 1) /\ 0 \in 0..(MinEnd - 1)
    BY <1>1
  <1>4. (d.above + 1 < MinStart => d.above + 1 \in 0..(MinStart - 1)) /\ (d.below + 1 < MinEnd => d.below + 1 \in 0..(MinEnd - 1))
    BY <1>1 DEF Detectors
  <1>5. d = [above |-> d.above, below |-> d.below, began |-> d.began, id |-> d.id]
    BY DEF Detectors
  <1> QED
    BY <1>2, <1>3, <1>4, <1>5

LEMMA FrameStep == ASSUME MotionIInv, NEW c \in Cameras, NEW s \in Scores, Frame(c, s) PROVE MotionIInv'
  <1> DEFINE d == det[c]
  <1>0. CamerasRight /\ Camera /\ UNCHANGED changes /\ now' = now /\ now <= now
    BY MotionNumbers DEF MotionIInv, Frame, Camera, CamerasRight
  <1>1. /\ d \in Detectors /\ d.began <= now /\ d.id <= issued /\ issued \in 0..MaxMotions /\ now \in Time
        /\ d.above \in 0..(MinStart - 1) /\ d.below \in 0..(MinEnd - 1) /\ d.began \in Time \cup {NoTime}
        /\ d.id \in 0..MaxMotions
    BY <1>0 DEF CamerasRight, Detectors
  <1>a. d \in Detectors
    BY <1>1
  <1>2. Idle \in Detectors /\ Idle.began <= now /\ Idle.id <= issued
    BY <1>1, MotionNumbers DEF Idle, Detectors
  <1>3. CASE Onset(c, s)
    <2> DEFINE n == IF s # "high" THEN [d EXCEPT !.above = 0]
                    ELSE IF d.above + 1 < MinStart THEN [d EXCEPT !.above = d.above + 1, !.below = 0]
                    ELSE [d EXCEPT !.above = 0, !.below = 0, !.began = now]
    <2>1. det' = [det EXCEPT ![c] = n] /\ UNCHANGED <<net, issued>>
      BY <1>3 DEF Onset
    <2>2. n \in Detectors /\ n.began <= now /\ n.id <= issued
      <3>1. n \in Detectors
        BY <1>1, DetectorEdits
      <3>2. n.id = d.id /\ (n.began = d.began \/ n.began = now)
        BY <1>a DEF Detectors
      <3> QED
        BY <1>0, <1>1, <3>1, <3>2
    <2> HIDE DEF n
    <2>3. issued <= issued' /\ issued' \in 0..MaxMotions
      BY <1>1, <2>1
    <2>4. net' \subseteq Request /\ \A m \in net' : m.at <= now /\ m.id <= issued'
      BY <1>0, <2>1, <2>3, NetKept
    <2>5. CamerasRight'
      BY <1>0, <2>1, <2>2, <2>3, <2>4, DetectorSet
    <2> QED
      BY <1>0, <2>3, <2>5, CameraStep DEF MotionIInv
  <1>4. CASE KeepsMoving(c, s)
    <2>1. CASE d.id = 0 /\ now - d.began >= MinDuration /\ issued < MaxMotions /\ now + ReapAge <= MaxTime
      <3> DEFINE n == [d EXCEPT !.below = 0, !.id = issued + 1]
      <3>1. det' = [det EXCEPT ![c].below = 0, ![c].id = issued + 1] /\ issued' = issued + 1 /\ Post(c, "start", issued + 1, 0)
        BY <1>4, <2>1 DEF KeepsMoving
      <3>2. det' = [det EXCEPT ![c] = n]
        BY <1>0, <3>1 DEF CamerasRight, Detectors
      <3>3. issued' \in 0..MaxMotions /\ issued <= issued' /\ issued' \in Ids /\ issued' = issued + 1
        BY <1>1, <2>1, <3>1, MotionNumbers DEF Ids
      <3>4. n \in Detectors /\ n.began <= now /\ n.id <= issued'
        <4>1. n \in Detectors
          BY <1>1, <3>3, DetectorEdits
        <4>2. n.id = issued' /\ n.began = d.began
          BY <1>a, <3>1 DEF Detectors
        <4> QED
          BY <1>1, <3>3, <4>1, <4>2
      <3>5. net' \subseteq Request /\ \A m \in net' : m.at <= now /\ m.id <= issued'
        BY <1>0, <3>1, <3>3, PostTypes, MotionNumbers
      <3> HIDE DEF n
      <3>6. CamerasRight'
        BY <1>0, <3>2, <3>3, <3>4, <3>5, DetectorSet
      <3> QED
        BY <1>0, <3>3, <3>6, CameraStep DEF MotionIInv
    <2>2. CASE ~(d.id = 0 /\ now - d.began >= MinDuration /\ issued < MaxMotions /\ now + ReapAge <= MaxTime)
      <3> DEFINE n == [d EXCEPT !.below = 0]
      <3>1. det' = [det EXCEPT ![c].below = 0] /\ UNCHANGED <<net, issued>>
        BY <1>4, <2>2 DEF KeepsMoving
      <3>2. det' = [det EXCEPT ![c] = n]
        BY <1>0, <3>1 DEF CamerasRight, Detectors
      <3>3. issued' \in 0..MaxMotions /\ issued <= issued'
        BY <1>1, <3>1
      <3>4. n \in Detectors /\ n.began <= now /\ n.id <= issued'
        BY <1>1, <3>1, MotionNumbers DEF Detectors
      <3>5. net' \subseteq Request /\ \A m \in net' : m.at <= now /\ m.id <= issued'
        BY <1>0, <3>1, <3>3, NetKept
      <3> HIDE DEF n
      <3>6. CamerasRight'
        BY <1>0, <3>2, <3>3, <3>4, <3>5, DetectorSet
      <3> QED
        BY <1>0, <3>3, <3>6, CameraStep DEF MotionIInv
    <2> QED
      BY <2>1, <2>2
  <1>5. CASE Calms(c, s)
    <2>0. issued' = issued /\ issued' \in 0..MaxMotions /\ issued <= issued' /\ d.began # NoTime
      BY <1>1, <1>5 DEF Calms
    <2>1. CASE d.below + 1 < MinEnd
      <3> DEFINE n == [d EXCEPT !.below = d.below + 1, !.above = 0]
      <3>1. det' = [det EXCEPT ![c].below = @ + 1, ![c].above = 0] /\ UNCHANGED net
        BY <1>5, <2>1 DEF Calms
      <3>2. det' = [det EXCEPT ![c] = n]
        BY <1>0, <3>1 DEF CamerasRight, Detectors
      <3>4. n \in Detectors /\ n.began <= now /\ n.id <= issued'
        <4>1. n \in Detectors
          BY <1>1, <2>1, DetectorEdits
        <4>2. n.id = d.id /\ n.began = d.began
          BY <1>a DEF Detectors
        <4> QED
          BY <1>1, <2>0, <4>1, <4>2
      <3>5. net' \subseteq Request /\ \A m \in net' : m.at <= now /\ m.id <= issued'
        BY <1>0, <3>1, <2>0, NetKept
      <3> HIDE DEF n
      <3>6. CamerasRight'
        BY <1>0, <3>2, <2>0, <3>4, <3>5, DetectorSet
      <3> QED
        BY <1>0, <2>0, <3>6, CameraStep DEF MotionIInv
    <2>2. CASE ~(d.below + 1 < MinEnd)
      <3>1. det' = [det EXCEPT ![c] = Idle] /\ IF d.id = 0 THEN UNCHANGED net ELSE Post(c, "end", d.id, now - d.began)
        BY <1>5, <2>2 DEF Calms
      <3>2. now - d.began \in Time /\ (d.id # 0 => d.id \in Ids /\ d.id <= issued')
        BY <1>1, <2>0, MotionNumbers DEF Time, Ids
      <3>3. net' \subseteq Request /\ \A m \in net' : m.at <= now /\ m.id <= issued'
        <4>1. CASE d.id = 0
          BY <1>0, <2>0, <3>1, <4>1, NetKept
        <4>2. CASE d.id # 0
          BY <1>0, <2>0, <3>1, <3>2, <4>2, PostTypes
        <4> QED
          BY <4>1, <4>2
      <3>4. CamerasRight'
        BY <1>0, <1>2, <2>0, <3>1, <3>3, DetectorSet
      <3> QED
        BY <1>0, <2>0, <3>4, CameraStep DEF MotionIInv
    <2> QED
      BY <2>1, <2>2
  <1> QED
    BY <1>3, <1>4, <1>5 DEF Frame

LEMMA ResetStep == ASSUME MotionIInv, NEW c \in Cameras, Reset(c) PROVE MotionIInv'
  <1>0. CamerasRight /\ Camera /\ UNCHANGED <<net, issued, now>> /\ changes' \in 0..MaxChanges /\ issued \in 0..MaxMotions
        /\ det' = [det EXCEPT ![c] = Idle] /\ now \in Time
    BY MotionNumbers DEF MotionIInv, Reset, Camera, CamerasRight, Change
  <1>1. issued <= issued' /\ issued' \in 0..MaxMotions
    BY <1>0
  <1>2. Idle \in Detectors /\ Idle.began <= now /\ Idle.id <= issued'
    BY <1>0, MotionNumbers DEF Idle, Detectors
  <1>3. net' \subseteq Request /\ \A m \in net' : m.at <= now /\ m.id <= issued'
    BY <1>0, <1>1, NetKept
  <1>4. CamerasRight'
    BY <1>0, <1>1, <1>2, <1>3, DetectorSet
  <1> QED
    BY <1>0, <1>1, <1>4, CameraStep

LEMMA LoseStep == ASSUME MotionIInv, NEW m \in net, Lose(m) PROVE MotionIInv'
  <1>0. CamerasRight /\ Camera /\ UNCHANGED <<det, issued, now>> /\ changes' \in 0..MaxChanges /\ issued \in 0..MaxMotions
        /\ net' \subseteq net
    BY MotionNumbers DEF MotionIInv, Lose, Camera, CamerasRight, Change
  <1>1. issued <= issued' /\ issued' \in 0..MaxMotions
    BY <1>0
  <1>4. CamerasRight'
    BY <1>0 DEF CamerasRight
  <1> QED
    BY <1>0, <1>1, <1>4, CameraStep

(* What the server does with its store leaves the cameras and the browsers *)
(* as they are.                                                            *)
LEMMA ServerStep ==
    ASSUME MotionIInv, net' \subseteq net, UNCHANGED <<now, det, issued, throttles, row, lastNote, tab, acked>>,
           StoreRight', changes' \in 0..MaxChanges
    PROVE  MotionIInv'
  <1>1. CamerasRight'
    BY DEF MotionIInv, CamerasRight
  <1> QED
    BY <1>1, WebStutters DEF MotionIInv

LEMMA RequestFacts ==
    ASSUME CamerasRight, NEW m \in net
    PROVE  /\ m.cam \in Cameras /\ m.id \in Ids /\ m.at \in Time /\ m.strong \in BOOLEAN /\ m.dur \in Time
           /\ m.id <= issued /\ m.at <= now
  BY DEF CamerasRight, Request

LEMMA PutStep ==
    ASSUME StoreRight, NEW e \in Event, e.id <= issued, events' = Put(events, e), issued' = issued,
           lastStart' \in [Cameras -> Time \cup {NoTime}]
    PROVE  StoreRight'
  <1>1. Store(events) /\ \A i \in DOMAIN events : events[i].id <= issued
    BY DEF StoreRight
  <1>2. Store(events') /\ \A j \in DOMAIN events' : events'[j] = e \/ \E i \in DOMAIN events : events'[j].id = events[i].id
    <2>1. Store(events') /\ PutLeaves(events, e, events')
      BY <1>1, PutTypes
    <2> QED
      BY <2>1 DEF PutLeaves
  <1> QED
    BY <1>1, <1>2 DEF StoreRight, Store

LEMMA EventMade ==
    ASSUME NEW i \in Ids, NEW c \in Cameras, NEW s \in Time, NEW e \in Time \cup {NoTime}, NEW b \in BOOLEAN,
           NEW d \in Time, NEW k \in BOOLEAN
    PROVE  [id |-> i, cam |-> c, started |-> s, ended |-> e, strong |-> b, dur |-> d, clip |-> k] \in Event
  BY MotionNumbers DEF Event, Time

LEMMA FoundIn ==
    ASSUME NEW es, Store(es), NEW id, Find(es, id) # {}
    PROVE  LET k == CHOOSE i \in Find(es, id) : TRUE IN
           k \in DOMAIN es /\ es[k].id = id /\ es[k] \in Event /\ \A i \in Find(es, id) : i = k
  BY StoreFacts DEF Find, Store

LEMMA StartLimitedStep == ASSUME MotionIInv, NEW m \in net, StartLimited(m) PROVE MotionIInv'
  <1>1. StoreRight'
    BY StoreStutters, MotionNumbers DEF MotionIInv, CamerasRight, StartLimited, Server
  <1> QED
    BY <1>1, ServerStep DEF StartLimited, Server, MotionIInv

LEMMA StartRecordedStep == ASSUME MotionIInv, NEW m \in net, StartRecorded(m) PROVE MotionIInv'
  <1> DEFINE e == [id |-> m.id, cam |-> m.cam, started |-> m.at, ended |-> NoTime,
                   strong |-> m.strong, dur |-> 0, clip |-> FALSE]
  <1>1. /\ events' = Put(events, e) /\ net' = net \ {m} /\ lastStart' = [lastStart EXCEPT ![m.cam] = now] /\ Server
    BY DEF StartRecorded
  <1>2. CamerasRight /\ StoreRight /\ changes \in 0..MaxChanges
    BY DEF MotionIInv
  <1>3. e \in Event /\ e.id <= issued
    BY <1>2, RequestFacts, EventMade, MotionNumbers
  <1> HIDE DEF e
  <1>4. lastStart' \in [Cameras -> Time \cup {NoTime}]
    BY <1>1, <1>2 DEF StoreRight, CamerasRight
  <1>5. StoreRight'
    BY <1>1, <1>2, <1>3, <1>4, PutStep DEF Server
  <1> QED
    BY <1>1, <1>2, <1>5, ServerStep DEF Server

(* The event an end request leaves: the one it finds, closed, or a closed  *)
(* one of its own.                                                         *)
Ended(m) ==
  IF Find(events, m.id) = {}
  THEN [id |-> m.id, cam |-> m.cam, started |-> m.at, ended |-> m.at, strong |-> m.strong,
        dur |-> m.dur, clip |-> m.id \in ClipAtEnd]
  ELSE LET e == events[CHOOSE i \in Find(events, m.id) : TRUE] IN
       [e EXCEPT !.ended = m.at, !.strong = @ \/ m.strong, !.dur = m.dur, !.clip = @ \/ m.id \in ClipAtEnd]

LEMMA EndedTypes ==
    ASSUME CamerasRight, StoreRight, NEW m \in net
    PROVE  /\ Ended(m) \in Event /\ Ended(m).id = m.id
           /\ Find(events, m.id) = {} => Ended(m).started = m.at
           /\ \A i \in Find(events, m.id) : Ended(m).started = events[i].started
  <1>1. /\ m.cam \in Cameras /\ m.id \in Ids /\ m.at \in Time /\ m.strong \in BOOLEAN /\ m.dur \in Time
    BY RequestFacts
  <1>2. CASE Find(events, m.id) = {}
    <2> DEFINE e == [id |-> m.id, cam |-> m.cam, started |-> m.at, ended |-> m.at, strong |-> m.strong,
                     dur |-> m.dur, clip |-> m.id \in ClipAtEnd]
    <2>1. Ended(m) = e
      BY <1>2 DEF Ended
    <2>2. (m.id \in ClipAtEnd) \in BOOLEAN
      OBVIOUS
    <2>3. e \in Event
      BY <1>1, <2>2, EventMade
    <2> QED
      BY <1>2, <2>1, <2>3
  <1>3. CASE Find(events, m.id) # {}
    <2> DEFINE k == CHOOSE i \in Find(events, m.id) : TRUE
               e == events[k]
               b == e.strong \/ m.strong
               l == e.clip \/ m.id \in ClipAtEnd
               f == [e EXCEPT !.ended = m.at, !.strong = b, !.dur = m.dur, !.clip = l]
    <2>1. Ended(m) = f
      BY <1>3 DEF Ended
    <2>2. e.id = m.id /\ e \in Event /\ \A i \in Find(events, m.id) : i = k
      BY <1>3, FoundIn DEF StoreRight
    <2> HIDE DEF k, e
    <2>3. b \in BOOLEAN /\ l \in BOOLEAN
      OBVIOUS
    <2> HIDE DEF b, l
    <2>4. m.dur \in (-MaxTime)..MaxTime
      BY <1>1, MotionNumbers DEF Time
    <2>5. f \in Event /\ f.id = e.id /\ f.started = e.started
      BY <1>1, <2>2, <2>3, <2>4 DEF Event
    <2> QED
      BY <1>3, <2>1, <2>2, <2>5 DEF e
  <1> QED
    BY <1>2, <1>3

LEMMA EndRecordedStep == ASSUME MotionIInv, NEW m \in net, EndRecorded(m) PROVE MotionIInv'
  <1>1. events' = Put(events, Ended(m)) /\ net' = net \ {m} /\ UNCHANGED lastStart /\ Server
    BY DEF EndRecorded, Ended
  <1>2. CamerasRight /\ StoreRight /\ changes \in 0..MaxChanges
    BY DEF MotionIInv
  <1>3. Ended(m) \in Event /\ Ended(m).id <= issued
    BY <1>2, EndedTypes, RequestFacts
  <1>4. StoreRight'
    BY <1>1, <1>2, <1>3, PutStep DEF Server, StoreRight
  <1> QED
    BY <1>1, <1>2, <1>4, ServerStep DEF Server

LEMMA ReapTypes ==
    ASSUME StoreRight, Reap
    PROVE  Store(events') /\ DOMAIN events' = DOMAIN events
           /\ \A i \in DOMAIN events : events'[i].id = events[i].id /\ events'[i].started = events[i].started
  <1>1. Store(events) /\ \A i \in DOMAIN events : events[i] \in Event
    BY StoreFacts DEF StoreRight
  <1>2. events' = [i \in DOMAIN events |->
          IF Stale(events[i]) THEN [events[i] EXCEPT !.ended = events[i].started, !.dur = 0] ELSE events[i]]
    BY DEF Reap
  <1>3. ASSUME NEW i \in DOMAIN events
        PROVE  events'[i] \in Event /\ events'[i].id = events[i].id /\ events'[i].started = events[i].started
    <2> DEFINE e == events[i]
               f == [e EXCEPT !.ended = e.started, !.dur = 0]
    <2>1. e \in Event /\ (events'[i] = e \/ events'[i] = f)
      BY <1>1, <1>2
    <2>2. e.started \in Time /\ 0 \in (-MaxTime)..MaxTime
      BY <2>1, EventFacts
    <2> HIDE DEF e
    <2>3. f \in Event /\ f.id = e.id /\ f.started = e.started
      BY <2>1, <2>2 DEF Event
    <2> QED
      BY <2>1, <2>3 DEF e
  <1>4. events' \in [DOMAIN events -> Event]
    BY <1>2, <1>3
  <1> QED
    BY <1>1, <1>3, <1>4, InPlace

LEMMA ReapStep == ASSUME MotionIInv, Reap PROVE MotionIInv'
  <1>1. StoreRight /\ changes \in 0..MaxChanges /\ UNCHANGED <<net, lastStart>> /\ Server
    BY DEF MotionIInv, Reap
  <1>2. StoreRight'
    BY <1>1, ReapTypes DEF StoreRight, Server
  <1> QED
    BY <1>1, <1>2, ServerStep DEF Server

LEMMA AttachTypes ==
    ASSUME StoreRight, AttachClips
    PROVE  Store(events') /\ DOMAIN events' = DOMAIN events
           /\ \A i \in DOMAIN events : events'[i].id = events[i].id /\ events'[i].started = events[i].started
  <1>1. Store(events) /\ \A i \in DOMAIN events : events[i] \in Event
    BY StoreFacts DEF StoreRight
  <1>2. PICK k \in DOMAIN events : events' = [events EXCEPT ![k].clip = TRUE]
    BY DEF AttachClips
  <1> DEFINE f == [events[k] EXCEPT !.clip = TRUE]
  <1>3. f \in Event /\ f.id = events[k].id /\ f.started = events[k].started
    BY <1>1 DEF Event
  <1>4. events' = [events EXCEPT ![k] = f] /\ events \in [DOMAIN events -> Event]
    BY <1>1, <1>2, StoreFacts
  <1> HIDE DEF f
  <1>5. events' \in [DOMAIN events -> Event]
    BY <1>3, <1>4
  <1>6. \A i \in DOMAIN events : events'[i].id = events[i].id /\ events'[i].started = events[i].started
    BY <1>3, <1>4
  <1> QED
    BY <1>1, <1>5, <1>6, InPlace

LEMMA AttachStep == ASSUME MotionIInv, AttachClips PROVE MotionIInv'
  <1>1. StoreRight /\ changes' \in 0..MaxChanges /\ UNCHANGED <<net, lastStart>>
        /\ UNCHANGED <<now, det, issued, throttles, row, lastNote, tab, acked>>
    BY MotionNumbers DEF MotionIInv, AttachClips, Change
  <1>2. StoreRight'
    BY <1>1, AttachTypes DEF StoreRight
  <1> QED
    BY <1>1, <1>2, ServerStep

(* What a browser asks for leaves the cameras and the store as they are.   *)
LEMMA WebStep ==
    ASSUME MotionIInv, Web, WebRight', changes' \in 0..MaxChanges
    PROVE  MotionIInv'
  <1>1. issued \in Int /\ issued <= issued
    BY MotionNumbers DEF MotionIInv, CamerasRight
  <1> QED
    BY <1>1, CamerasStutter, StoreStutters DEF MotionIInv, Web

LEMMA TabSet ==
    ASSUME WebRight, NEW x \in Tabs, NEW s \in TabStates, tab' = [tab EXCEPT ![x] = s],
           \A a \in s.inbox : a.src = "throttle" => a.id \in Time,
           throttles' = throttles, lastNote' \in [Cameras -> Time \cup {NoTime}], row' \in [Users -> Rows],
           acked' \in [Users -> SUBSET Alerts]
    PROVE  WebRight'
  BY DEF WebRight

LEMMA RestTypes == Rest \in TabStates /\ Rest.inbox = {} /\ Rest.pc = "idle"
  BY MotionNumbers DEF Rest, TabStates

LEMMA BeginStep ==
    ASSUME MotionIInv, NEW x \in Tabs, NEW pc \in {"select", "mark", "prefs"}, Begin(x, pc), changes' \in 0..MaxChanges
    PROVE  MotionIInv'
  <1> DEFINE t == tab[x]
             n == IF pc = "select" THEN lastNote ELSE t.notes
             s == [t EXCEPT !.pc = pc, !.seen = row[x.user].seen, !.prefs = row[x.user].prefs, !.notes = n]
  <1>1. WebRight /\ t \in TabStates /\ row[x.user] \in Rows /\ lastNote \in [Cameras -> Time \cup {NoTime}]
    BY MotionNumbers DEF MotionIInv, WebRight
  <1>2. tab' = [tab EXCEPT ![x] = s] /\ UNCHANGED <<row, lastNote, acked>> /\ Web
    BY DEF Begin
  <1> HIDE DEF t
  <1>3. n \in [Cameras -> Time \cup {NoTime}]
    BY <1>1 DEF TabStates
  <1> HIDE DEF n
  <1>4. s \in TabStates /\ s.inbox = t.inbox
    BY <1>1, <1>3 DEF TabStates, Rows
  <1> HIDE DEF s
  <1>5. \A a \in s.inbox : a.src = "throttle" => a.id \in Time
    BY <1>1, <1>4 DEF WebRight, t
  <1>6. WebRight'
    BY <1>1, <1>2, <1>4, <1>5, TabSet DEF Web, WebRight
  <1> QED
    BY <1>2, <1>6, WebStep

(* What is offered are alerts: closed motions newer than the cursor and    *)
(* throttling warnings newer than it.                                      *)
LEMMA OfferedTypes ==
    ASSUME StoreRight, WebRight, NEW x \in Tabs, NEW a \in Offered(x)
    PROVE  /\ a \in Alerts /\ a.src \in {"motion", "throttle"}
           /\ a.src = "throttle" => a.id \in Time /\ a.id > tab[x].seen
           /\ a.src = "motion" => \E i \in DOMAIN events : events[i].id = a.id /\ events[i].started > tab[x].seen
  <1>1. CASE \E i \in Candidates(x) : a = Motion(events[i])
    <2> PICK i \in Candidates(x) : a = Motion(events[i])
      BY <1>1
    <2>1. i \in DOMAIN events /\ events[i].started > tab[x].seen
      BY DEF Candidates
    <2>2. events[i] \in Event
      BY <2>1, StoreFacts DEF StoreRight
    <2>3. a.src = "motion" /\ a.cam = events[i].cam /\ a.id = events[i].id /\ a \in Alerts
      BY <2>2, EventFacts DEF Motion, Alerts, Ids
    <2> QED
      BY <2>1, <2>3
  <1>2. CASE \E w \in throttles : w.at > tab[x].seen /\ a = Throttle(w)
    <2> PICK w \in throttles : w.at > tab[x].seen /\ a = Throttle(w)
      BY <1>2
    <2>1. w.cam \in Cameras /\ w.at \in Time
      BY DEF WebRight, Throttles
    <2>2. a.src = "throttle" /\ a.id = w.at /\ a \in Alerts
      BY <2>1 DEF Throttle, Alerts, Time
    <2> QED
      BY <2>1, <2>2
  <1> QED
    BY <1>1, <1>2 DEF Offered

LEMMA SelectEndStep == ASSUME MotionIInv, NEW x \in Tabs, SelectEnd(x) PROVE MotionIInv'
  <1> DEFINE s == [Rest EXCEPT !.inbox = Offered(x)]
  <1>1. WebRight /\ StoreRight /\ now \in Time /\ changes' \in 0..MaxChanges
    BY DEF MotionIInv, CamerasRight, SelectEnd
  <1>2. tab' = [tab EXCEPT ![x] = s] /\ Web /\ UNCHANGED <<row, acked>>
        /\ lastNote' = [c \in Cameras |-> IF \E i \in Candidates(x) : events[i].cam = c THEN now ELSE lastNote[c]]
    BY DEF SelectEnd
  <1>3. \A a \in Offered(x) : a \in Alerts /\ (a.src = "throttle" => a.id \in Time)
    BY <1>1, OfferedTypes
  <1>4. s \in TabStates /\ s.inbox = Offered(x)
    BY <1>3, RestTypes DEF TabStates
  <1>5. lastNote' \in [Cameras -> Time \cup {NoTime}]
    BY <1>1, <1>2 DEF WebRight
  <1> HIDE DEF s
  <1>6. WebRight'
    BY <1>1, <1>2, <1>3, <1>4, <1>5, TabSet DEF Web, WebRight
  <1> QED
    BY <1>1, <1>2, <1>6, WebStep

(* What a mark-as-seen request knows of the alerts, when they were and     *)
(* which is the newest.                                                    *)
KnownTo(x) == {a \in tab[x].inbox : a.src = "throttle" \/ Find(events, a.id) # {}}
WhenWas(a) == IF a.src = "throttle" THEN a.id ELSE events[CHOOSE i \in Find(events, a.id) : TRUE].started
NewestSeen(x) == Max({NoTime} \cup {WhenWas(a) : a \in KnownTo(x)})

LEMMA MarkEndIs ==
    ASSUME NEW x \in Tabs, MarkEnd(x)
    PROVE  /\ tab[x].pc = "mark"
           /\ row' = IF NewestSeen(x) > tab[x].seen
                     THEN [row EXCEPT ![x.user] = [seen |-> NewestSeen(x), prefs |-> tab[x].prefs]] ELSE row
           /\ acked' = [acked EXCEPT ![x.user] = @ \cup KnownTo(x)]
           /\ tab' = [tab EXCEPT ![x] = Rest] /\ UNCHANGED <<lastNote, changes>> /\ Web
  BY DEF MarkEnd, KnownTo, WhenWas, NewestSeen

LEMMA NewestSeenTypes ==
    ASSUME StoreRight, WebRight, NEW x \in Tabs
    PROVE  /\ NewestSeen(x) \in Time \cup {NoTime} /\ KnownTo(x) \subseteq Alerts
           /\ \A a \in KnownTo(x) : WhenWas(a) \in Time /\ WhenWas(a) <= NewestSeen(x)
  <1> DEFINE S == {NoTime} \cup {WhenWas(a) : a \in KnownTo(x)}
  <1>1. KnownTo(x) \subseteq Alerts /\ KnownTo(x) \subseteq tab[x].inbox
    BY DEF KnownTo, WebRight, TabStates
  <1>2. ASSUME NEW a \in KnownTo(x) PROVE WhenWas(a) \in Time
    <2>1. CASE a.src = "throttle"
      BY <1>1, <2>1 DEF WhenWas, WebRight
    <2>2. CASE a.src # "throttle"
      <3>1. Find(events, a.id) # {}
        BY <2>2 DEF KnownTo
      <3>2. events[CHOOSE i \in Find(events, a.id) : TRUE] \in Event
        BY <3>1, FoundIn DEF StoreRight
      <3> QED
        BY <2>2, <3>2, EventFacts DEF WhenWas
    <2> QED
      BY <2>1, <2>2
  <1>3. S \in SUBSET (Time \cup {NoTime}) /\ S # {}
    BY <1>2
  <1>4. Max(S) \in S /\ \A y \in S : y <= Max(S)
    BY <1>3, NewestTime
  <1>5. NewestSeen(x) = Max(S)
    BY DEF NewestSeen
  <1> QED
    BY <1>1, <1>2, <1>3, <1>4, <1>5

LEMMA MarkEndStep == ASSUME MotionIInv, NEW x \in Tabs, MarkEnd(x) PROVE MotionIInv'
  <1>1. WebRight /\ StoreRight /\ changes' \in 0..MaxChanges /\ x.user \in Users /\ tab[x] \in TabStates
    BY MarkEndIs, MotionNumbers DEF MotionIInv, WebRight
  <1> DEFINE r == [seen |-> NewestSeen(x), prefs |-> tab[x].prefs]
  <1>2. r \in Rows
    BY <1>1, NewestSeenTypes DEF Rows, TabStates
  <1>3. row' \in [Users -> Rows]
    <2>1. row' = row \/ row' = [row EXCEPT ![x.user] = r]
      BY MarkEndIs
    <2> HIDE DEF r
    <2> QED
      BY <1>1, <1>2, <2>1 DEF WebRight
  <1>4. acked' \in [Users -> SUBSET Alerts]
    <2>1. acked \in [Users -> SUBSET Alerts] /\ KnownTo(x) \subseteq Alerts
      BY <1>1, NewestSeenTypes DEF WebRight
    <2>2. acked' = [acked EXCEPT ![x.user] = @ \cup KnownTo(x)]
      BY MarkEndIs
    <2> QED
      BY <1>1, <2>1, <2>2
  <1>5. WebRight'
    BY <1>1, <1>3, <1>4, MarkEndIs, RestTypes, TabSet DEF Web, WebRight
  <1> QED
    BY <1>1, <1>5, MarkEndIs, WebStep

LEMMA PrefsEndStep == ASSUME MotionIInv, NEW x \in Tabs, PrefsEnd(x) PROVE MotionIInv'
  <1> DEFINE s == [Rest EXCEPT !.inbox = tab[x].inbox]
  <1>1. WebRight /\ changes' \in 0..MaxChanges /\ x.user \in Users /\ tab[x] \in TabStates /\ UNCHANGED <<lastNote, acked>>
        /\ Web /\ tab' = [tab EXCEPT ![x] = s]
    BY MotionNumbers DEF MotionIInv, WebRight, PrefsEnd
  <1>2. PICK p \in Prefs : row' = [row EXCEPT ![x.user] = [seen |-> tab[x].seen, prefs |-> p]]
    BY DEF PrefsEnd
  <1>3. row' \in [Users -> Rows]
    <2>1. [seen |-> tab[x].seen, prefs |-> p] \in Rows
      BY <1>1 DEF Rows, TabStates
    <2> QED
      BY <1>1, <1>2, <2>1 DEF WebRight
  <1>4. s \in TabStates /\ s.inbox = tab[x].inbox
    BY <1>1, RestTypes DEF TabStates
  <1> HIDE DEF s
  <1>5. WebRight'
    BY <1>1, <1>3, <1>4, TabSet DEF Web, WebRight
  <1> QED
    BY <1>1, <1>5, WebStep

LEMMA CloseTabStep == ASSUME MotionIInv, NEW x \in Tabs, CloseTab(x) PROVE MotionIInv'
  <1>1. WebRight /\ changes' \in 0..MaxChanges /\ UNCHANGED <<row, lastNote, acked>> /\ Web /\ tab' = [tab EXCEPT ![x] = Rest]
    BY DEF MotionIInv, CloseTab
  <1>2. WebRight'
    BY <1>1, RestTypes, TabSet DEF Web, WebRight
  <1> QED
    BY <1>1, <1>2, WebStep

LEMMA ThrottledStep == ASSUME MotionIInv, NEW c \in Cameras, Throttled(c) PROVE MotionIInv'
  <1>1. CamerasRight /\ StoreRight /\ WebRight /\ changes' \in 0..MaxChanges /\ now \in Time /\ issued \in Int /\ issued <= issued
    BY MotionNumbers DEF MotionIInv, Throttled, Change, CamerasRight
  <1>2. throttles' = throttles \cup {[cam |-> c, at |-> now]}
        /\ UNCHANGED <<now, det, issued, net, lastStart, events, row, lastNote, tab, acked>>
    BY DEF Throttled
  <1>3. CamerasRight' /\ StoreRight'
    BY <1>1, <1>2, CamerasStutter, StoreStutters
  <1>4. WebRight'
    BY <1>1, <1>2 DEF WebRight, Throttles
  <1> QED
    BY <1>1, <1>3, <1>4 DEF MotionIInv

LEMMA TickStep == ASSUME MotionIInv, Tick PROVE MotionIInv'
  <1>1. CamerasRight /\ StoreRight /\ WebRight /\ now \in Time /\ issued \in Int /\ issued <= issued
    BY MotionNumbers DEF MotionIInv, CamerasRight
  <1>2. now' = now + 1 /\ now' \in Time
        /\ UNCHANGED <<det, issued, net, lastStart, events, throttles, row, lastNote, tab, acked, changes>>
    BY <1>1, MotionNumbers DEF Tick, Time
  <1>3. StoreRight' /\ WebRight'
    BY <1>1, <1>2, StoreStutters, WebStutters
  <1>4. (\A c \in Cameras : det[c].began \in Int) /\ (\A m \in net : m.at \in Int)
    BY <1>1, MotionNumbers DEF CamerasRight, Detectors, Request
  <1>5. \A t \in Int : t <= now => t <= now'
    BY <1>1, <1>2, MotionNumbers
  <1>6. CamerasRight'
    BY <1>1, <1>2, <1>4, <1>5 DEF CamerasRight
  <1> QED
    BY <1>2, <1>3, <1>6 DEF MotionIInv

LEMMA MotionStep == ASSUME MotionIInv, Next PROVE MotionIInv'
  <1>1. ASSUME NEW c \in Cameras, NEW s \in Scores, Frame(c, s) PROVE MotionIInv'
    BY <1>1, FrameStep
  <1>2. ASSUME NEW c \in Cameras, Reset(c) \/ Throttled(c) PROVE MotionIInv'
    BY <1>2, ResetStep, ThrottledStep
  <1>3. ASSUME NEW m \in net, Lose(m) \/ StartLimited(m) \/ StartRecorded(m) \/ EndRecorded(m) PROVE MotionIInv'
    BY <1>3, LoseStep, StartLimitedStep, StartRecordedStep, EndRecordedStep
  <1>4. ASSUME NEW x \in Tabs, SelectBegin(x) \/ MarkBegin(x) \/ PrefsBegin(x) PROVE MotionIInv'
    <2>1. changes' \in 0..MaxChanges
      BY <1>4, MotionNumbers DEF MotionIInv, SelectBegin, MarkBegin, PrefsBegin, Change
    <2>2. PICK pc \in {"select", "mark", "prefs"} : Begin(x, pc)
      BY <1>4 DEF SelectBegin, MarkBegin, PrefsBegin
    <2> QED
      BY <2>1, <2>2, BeginStep
  <1>5. ASSUME NEW x \in Tabs, SelectEnd(x) \/ MarkEnd(x) \/ PrefsEnd(x) \/ CloseTab(x) PROVE MotionIInv'
    BY <1>5, SelectEndStep, MarkEndStep, PrefsEndStep, CloseTabStep
  <1>6. CASE AttachClips \/ Reap \/ Tick
    BY <1>6, AttachStep, ReapStep, TickStep
  <1> QED
    BY <1>1, <1>2, <1>3, <1>4, <1>5, <1>6 DEF Next

-----------------------------------------------------------------------------
(* The motions and the alert centre together.                              *)
eventsVars == <<vars, alertVars, eventsPart>>
EventsIInv == MotionIInv /\ AlertIInv

LEMMA EventsStep == EventsIInv /\ [EventsNext]_eventsVars => EventsIInv'
  <1> SUFFICES ASSUME EventsIInv, [EventsNext]_eventsVars PROVE EventsIInv'
    OBVIOUS
  <1> USE DEF EventsIInv
  <1>1. CASE InMotion(Next)
    BY <1>1, MotionStep, AlertStutters DEF InMotion, alertVars
  <1>2. CASE InAlerts(AlertNext)
    BY <1>2, AlertStep, MotionStutters DEF InAlerts, vars
  <1>3. CASE UNCHANGED eventsVars
    BY <1>3, MotionStutters, AlertStutters DEF eventsVars
  <1> QED
    BY <1>1, <1>2, <1>3 DEF EventsNext

LEMMA EventsStay == EventsSpec => []EventsIInv
  <1>1. EventsInit => EventsIInv
    BY MotionStarts, AlertStarts DEF EventsInit, EventsIInv
  <1> QED
    BY <1>1, EventsStep, PTL DEF EventsSpec, eventsVars

(* In every reachable state, for all cameras, tabs, thresholds and bounds: *)
(* the types, with a store that holds no identifier twice and no more      *)
(* events than MAX_EVENTS, however starts and ends are lost, delayed and   *)
(* reordered (MotionEventStore); and an alert that is read was marked by   *)
(* itself or was on the list of a mark-all-read when that was asked for    *)
(* (mark_all_read).                                                        *)
THEOREM EventsAreRight == EventsSpec => []EventsInv
  <1>1. EventsIInv => EventsInv
    BY MotionIsTyped DEF EventsIInv, EventsInv, EventsTypeOK, AlertIInv
  <1> QED
    BY <1>1, EventsStay, PTL

-----------------------------------------------------------------------------
(* What was seen is not offered again.  Two things are needed for it: that *)
(* no user has two tabs, and that the store has room for every motion (an  *)
(* event that compaction has dropped comes back, as a new one, with its    *)
(* late end).                                                              *)
OneTabEach == \A x, y \in Tabs : x.user = y.user => x = y
RoomForAll == MaxMotions <= MaxStored

(* A motion has one start request; it is older than the end, and than the  *)
(* event that is stored under its identifier.                              *)
StartsFirst ==
  /\ \A m, k \in net : m.phase = "start" /\ m.id = k.id => m = k \/ (k.phase = "end" /\ m.at <= k.at)
  /\ \A m \in net : m.phase = "start" => \A i \in DOMAIN events : events[i].id = m.id => m.at <= events[i].started

(* A request in progress has its user's cursor, and what the user has      *)
(* marked as seen is not newer than the cursor; a motion among it is still *)
(* stored.                                                                 *)
TabsCurrent == \A x \in Tabs : tab[x].pc # "idle" => tab[x].seen = row[x.user].seen
SeenSince(u, a) ==
  /\ a.src = "throttle" => a.id <= row[u].seen
  /\ a.src = "motion" => /\ \E i \in DOMAIN events : events[i].id = a.id
                         /\ \A i \in DOMAIN events : events[i].id = a.id => events[i].started <= row[u].seen
CursorRight == \A u \in Users : \A a \in acked[u] : SeenSince(u, a)
SeenIInv == OneTabEach /\ RoomForAll /\ StartsFirst /\ TabsCurrent /\ CursorRight

(* There is room for an event with an identifier that is not stored.       *)
LEMMA RoomForOne ==
    ASSUME RoomForAll, NEW es, Store(es), NEW e \in Event, Find(es, e.id) = {}
    PROVE  Len(es) < MaxStored
  <1> DEFINE n == Len(es)
             f == [i \in 1..(n + 1) |-> IF i <= n THEN es[i].id ELSE e.id]
  <1>1. n \in Nat /\ DOMAIN es = 1..n /\ \A i \in 1..n : es[i] \in Event
    BY StoreFacts
  <1> HIDE DEF n
  <1>2. \A i \in 1..n : es[i].id \in Ids /\ es[i].id # e.id
    BY <1>1, EventFacts DEF Find
  <1>3. e.id \in Ids
    BY EventFacts
  <1>4. \A i \in 1..(n + 1) : (i <= n => i \in 1..n) /\ (~(i <= n) => i = n + 1)
    BY <1>1
  <1>5. f \in [1..(n + 1) -> Ids]
    BY <1>2, <1>3, <1>4
  <1>6. \A i, j \in 1..n : es[i].id = es[j].id => i = j
    BY DEF Store, n
  <1>7. \A i, j \in 1..(n + 1) : f[i] = f[j] => i = j
    BY <1>2, <1>4, <1>6
  <1> HIDE DEF f
  <1>8. f \in Injection(1..(n + 1), Ids)
    BY <1>5, <1>7 DEF Injection, IsInjective
  <1>9. IsFiniteSet(Ids) /\ Cardinality(Ids) = MaxMotions
    <2>1. IsFiniteSet(1..MaxMotions) /\ Cardinality(1..MaxMotions) = IF 1 > MaxMotions THEN 0 ELSE MaxMotions - 1 + 1
      <3>1. 1 \in Int /\ MaxMotions \in Int
        BY MotionNumbers
      <3> QED
        BY <3>1, FS_Interval
    <2> QED
      BY <2>1, MotionNumbers DEF Ids
  <1>10. Cardinality(1..(n + 1)) <= MaxMotions
    BY <1>8, <1>9, FS_Injection
  <1>11. Cardinality(1..(n + 1)) = n + 1
    <2>1. Cardinality(1..(n + 1)) = IF 1 > n + 1 THEN 0 ELSE (n + 1) - 1 + 1
      BY <1>1, FS_Interval
    <2> QED
      BY <1>1, <2>1
  <1> QED
    BY <1>1, <1>10, <1>11, MotionNumbers DEF RoomForAll, n

(* Steps that post nothing and retime nothing.                             *)
Retained ==
  /\ net' \subseteq net
  /\ \A j \in DOMAIN events' : \E i \in DOMAIN events :
       events'[j].id = events[i].id /\ events'[j].started = events[i].started
  /\ \A i \in DOMAIN events : \E j \in DOMAIN events' : events'[j].id = events[i].id

LEMMA StartsRetained == ASSUME StartsFirst, Retained PROVE StartsFirst'
  BY DEF StartsFirst, Retained

LEMMA CursorRetained ==
    ASSUME CursorRight, Retained, UNCHANGED <<row, acked>> PROVE CursorRight'
  <1> SUFFICES ASSUME NEW u \in Users, NEW a \in acked[u] PROVE SeenSince(u, a)'
    BY DEF CursorRight
  <1>1. SeenSince(u, a)
    BY DEF CursorRight
  <1> QED
    BY <1>1 DEF SeenSince, Retained

LEMMA SeenRetained ==
    ASSUME SeenIInv, Retained, UNCHANGED <<row, acked, tab>> PROVE SeenIInv'
  BY StartsRetained, CursorRetained DEF SeenIInv, TabsCurrent, OneTabEach, RoomForAll

LEMMA NothingStored == UNCHANGED <<net, events>> => Retained
  BY DEF Retained

LEMMA StartKnown ==
    ASSUME MotionIInv, SeenIInv, NEW m \in net, StartRecorded(m) PROVE SeenIInv'
  <1> DEFINE e == [id |-> m.id, cam |-> m.cam, started |-> m.at, ended |-> NoTime,
                   strong |-> m.strong, dur |-> 0, clip |-> FALSE]
  <1>1. events' = Put(events, e) /\ net' = net \ {m} /\ UNCHANGED <<row, acked, tab>> /\ m.phase = "start"
    BY DEF StartRecorded, Server
  <1>2. CamerasRight /\ Store(events)
    BY DEF MotionIInv, StoreRight
  <1>3. e \in Event /\ e.id = m.id /\ e.started = m.at /\ m.at \in Time
    BY <1>2, RequestFacts, EventMade, MotionNumbers
  <1> HIDE DEF e
  <1>4. Find(events, e.id) # {} \/ Len(events) < MaxStored
    BY <1>2, <1>3, RoomForOne DEF SeenIInv
  <1>5. /\ \A j \in DOMAIN events' : events'[j] = e \/ (events'[j].id # e.id
              /\ \E i \in DOMAIN events : events'[j].id = events[i].id /\ events'[j].started = events[i].started)
        /\ \E j \in DOMAIN events' : events'[j] = e
        /\ \A i \in DOMAIN events : \E j \in DOMAIN events' : events'[j].id = events[i].id
    <2>1. PutLeaves(events, e, events')
      BY <1>1, <1>2, <1>3, PutTypes
    <2> QED
      BY <1>4, <2>1 DEF PutLeaves
  <1>6. StartsFirst'
    <2>1. \A k \in net' : k.phase = "start" => k \in net /\ k.id # m.id
      BY <1>1 DEF SeenIInv, StartsFirst
    <2>2. ASSUME NEW k \in net', k.phase = "start", NEW j \in DOMAIN events', events'[j].id = k.id
          PROVE  k.at <= events'[j].started
      BY <1>3, <1>5, <2>1, <2>2 DEF SeenIInv, StartsFirst
    <2>3. net' \subseteq net
      BY <1>1
    <2> QED
      BY <2>2, <2>3 DEF SeenIInv, StartsFirst
  <1>7. CursorRight'
    <2> SUFFICES ASSUME NEW u \in Users, NEW a \in acked[u] PROVE SeenSince(u, a)'
      BY <1>1 DEF CursorRight
    <2>1. SeenSince(u, a)
      BY DEF SeenIInv, CursorRight
    <2>2. CASE a.src = "motion" /\ a.id = m.id
      <3>1. PICK i \in DOMAIN events : events[i].id = m.id /\ events[i].started <= row[u].seen
        BY <2>1, <2>2 DEF SeenSince
      <3>2. m.at <= events[i].started
        BY <1>1, <3>1 DEF SeenIInv, StartsFirst
      <3>3. events[i].started \in Int /\ row[u].seen \in Int /\ m.at \in Int
        <4>1. events[i] \in Event /\ row[u] \in Rows
          BY <1>2, StoreFacts DEF MotionIInv, WebRight
        <4> QED
          BY <1>3, <4>1, EventFacts, MotionNumbers DEF Rows
      <3>4. m.at <= row[u].seen
        BY <3>1, <3>2, <3>3
      <3>5. \A j \in DOMAIN events' : events'[j].id = m.id => events'[j].started = m.at
        BY <1>3, <1>5
      <3> QED
        BY <1>1, <1>3, <1>5, <2>2, <3>4, <3>5 DEF SeenSince
    <2>3. CASE ~(a.src = "motion" /\ a.id = m.id)
      BY <1>1, <1>3, <1>5, <2>1, <2>3 DEF SeenSince
    <2> QED
      BY <2>2, <2>3
  <1> QED
    BY <1>1, <1>6, <1>7 DEF SeenIInv, TabsCurrent, OneTabEach, RoomForAll

LEMMA EndKnown ==
    ASSUME MotionIInv, SeenIInv, NEW m \in net, EndRecorded(m) PROVE SeenIInv'
  <1> DEFINE e == Ended(m)
  <1>1. events' = Put(events, e) /\ net' = net \ {m} /\ UNCHANGED <<row, acked, tab>> /\ m.phase = "end"
    BY DEF EndRecorded, Server, Ended
  <1>2. CamerasRight /\ StoreRight /\ Store(events)
    BY DEF MotionIInv, StoreRight
  <1>3. /\ e \in Event /\ e.id = m.id
        /\ Find(events, m.id) = {} => e.started = m.at
        /\ \A i \in Find(events, m.id) : e.started = events[i].started
    BY <1>2, EndedTypes
  <1> HIDE DEF e
  <1>4. Find(events, e.id) # {} \/ Len(events) < MaxStored
    BY <1>2, <1>3, RoomForOne DEF SeenIInv
  <1>5. /\ \A j \in DOMAIN events' : events'[j] = e \/ (events'[j].id # e.id
              /\ \E i \in DOMAIN events : events'[j].id = events[i].id /\ events'[j].started = events[i].started)
        /\ \E j \in DOMAIN events' : events'[j] = e
        /\ \A i \in DOMAIN events : \E j \in DOMAIN events' : events'[j].id = events[i].id
    <2>1. PutLeaves(events, e, events')
      BY <1>1, <1>2, <1>3, PutTypes
    <2> QED
      BY <1>4, <2>1 DEF PutLeaves
  <1>6. CASE Find(events, m.id) # {}
    <2>1. PICK i \in DOMAIN events : events[i].id = m.id /\ e.started = events[i].started
      BY <1>3, <1>6 DEF Find
    <2>2. Retained
      BY <1>1, <1>3, <1>5, <2>1 DEF Retained
    <2> QED
      BY <1>1, <2>2, SeenRetained
  <1>7. CASE Find(events, m.id) = {}
    <2>1. e.started = m.at /\ \A i \in DOMAIN events : events[i].id # m.id
      BY <1>3, <1>7 DEF Find
    <2>2. ASSUME NEW k \in net', k.phase = "start", NEW j \in DOMAIN events', events'[j].id = k.id
          PROVE  k.at <= events'[j].started
      <3>1. CASE events'[j] = e
        BY <1>1, <1>3, <2>1, <2>2, <3>1 DEF SeenIInv, StartsFirst
      <3>2. CASE events'[j] # e
        BY <1>1, <1>5, <2>2, <3>2 DEF SeenIInv, StartsFirst
      <3> QED
        BY <3>1, <3>2
    <2>3. StartsFirst'
      BY <1>1, <2>2 DEF SeenIInv, StartsFirst
    <2>4. CursorRight'
      <3> SUFFICES ASSUME NEW u \in Users, NEW a \in acked[u] PROVE SeenSince(u, a)'
        BY <1>1 DEF CursorRight
      <3>1. SeenSince(u, a)
        BY DEF SeenIInv, CursorRight
      <3>2. ~(a.src = "motion" /\ a.id = m.id)
        BY <2>1, <3>1 DEF SeenSince
      <3> QED
        BY <1>1, <1>3, <1>5, <3>1, <3>2 DEF SeenSince
    <2> QED
      BY <1>1, <2>3, <2>4 DEF SeenIInv, TabsCurrent, OneTabEach, RoomForAll
  <1> QED
    BY <1>6, <1>7

LEMMA PostStartKnown ==
    ASSUME MotionIInv, SeenIInv, NEW c \in Cameras, Post(c, "start", issued + 1, 0), UNCHANGED <<events, row, acked, tab>>
    PROVE  SeenIInv'
  <1> DEFINE r == [cam |-> c, phase |-> "start", id |-> issued + 1, at |-> now, strong |-> issued + 1 \in Strong, dur |-> 0]
  <1>1. net' = net \cup {r} /\ r.id = issued + 1 /\ r.phase = "start"
    BY DEF Post
  <1> HIDE DEF r
  <1>2. \A m \in net : m.id # issued + 1
    <2> SUFFICES ASSUME NEW m \in net PROVE m.id # issued + 1
      OBVIOUS
    <2>1. m.id \in Ids /\ m.id <= issued /\ issued \in 0..MaxMotions
      BY RequestFacts DEF MotionIInv, CamerasRight
    <2> QED
      BY <2>1, MotionNumbers DEF Ids
  <1>3. \A i \in DOMAIN events : events[i].id # issued + 1
    <2> SUFFICES ASSUME NEW i \in DOMAIN events PROVE events[i].id # issued + 1
      OBVIOUS
    <2>1. events[i].id <= issued /\ issued \in 0..MaxMotions /\ events[i] \in Event
      BY StoreFacts DEF MotionIInv, StoreRight, CamerasRight
    <2> QED
      BY <2>1, EventFacts, MotionNumbers DEF Ids
  <1>4. StartsFirst'
    BY <1>1, <1>2, <1>3 DEF SeenIInv, StartsFirst
  <1> QED
    BY <1>4 DEF SeenIInv, TabsCurrent, CursorRight, SeenSince, OneTabEach, RoomForAll

LEMMA PostEndKnown ==
    ASSUME MotionIInv, SeenIInv, NEW c \in Cameras, NEW id, NEW dur, Post(c, "end", id, dur),
           UNCHANGED <<events, row, acked, tab>>
    PROVE  SeenIInv'
  <1> DEFINE r == [cam |-> c, phase |-> "end", id |-> id, at |-> now, strong |-> id \in Strong, dur |-> dur]
  <1>1. net' = net \cup {r} /\ r.phase = "end" /\ r.at = now
    BY DEF Post
  <1> HIDE DEF r
  <1>2. \A m \in net : m.at <= now
    BY DEF MotionIInv, CamerasRight
  <1>3. "start" # "end"
    OBVIOUS
  <1>4. StartsFirst'
    BY <1>1, <1>2, <1>3 DEF SeenIInv, StartsFirst
  <1> QED
    BY <1>4 DEF SeenIInv, TabsCurrent, CursorRight, SeenSince, OneTabEach, RoomForAll

LEMMA FrameKnown ==
    ASSUME MotionIInv, SeenIInv, NEW c \in Cameras, NEW s \in Scores, Frame(c, s) PROVE SeenIInv'
  <1>1. UNCHANGED <<events, row, acked, tab>>
    BY DEF Frame, Camera
  <1>2. CASE UNCHANGED net
    BY <1>1, <1>2, NothingStored, SeenRetained
  <1>3. CASE Post(c, "start", issued + 1, 0)
    BY <1>1, <1>3, PostStartKnown
  <1>4. CASE Post(c, "end", det[c].id, now - det[c].began)
    BY <1>1, <1>4, PostEndKnown
  <1> QED
    BY <1>2, <1>3, <1>4 DEF Frame, Onset, KeepsMoving, Calms

(* A user's cursor is an integer.                                          *)
LEMMA CursorType == ASSUME WebRight, NEW u \in Users PROVE row[u].seen \in Int
  <1>1. row[u] \in Rows
    BY DEF WebRight
  <1> QED
    BY <1>1, MotionNumbers DEF Rows

(* A request that does not move its user's cursor.                         *)
LEMMA TabKnown ==
    ASSUME WebRight, SeenIInv, NEW x \in Tabs, NEW s, tab' = [tab EXCEPT ![x] = s],
           s.pc # "idle" => s.seen = row[x.user].seen, UNCHANGED <<net, events, acked>>,
           \A u \in Users : row'[u].seen = row[u].seen
    PROVE  SeenIInv'
  <1>1. \A y \in Tabs : tab'[y] = IF y = x THEN s ELSE tab[y]
    BY DEF WebRight
  <1>2. TabsCurrent'
    BY <1>1, MotionNumbers DEF SeenIInv, TabsCurrent
  <1>3. CursorRight'
    BY DEF SeenIInv, CursorRight, SeenSince
  <1> QED
    BY <1>2, <1>3 DEF SeenIInv, StartsFirst, OneTabEach, RoomForAll

LEMMA BeginKnown ==
    ASSUME MotionIInv, SeenIInv, NEW x \in Tabs, NEW pc \in {"select", "mark", "prefs"}, Begin(x, pc) PROVE SeenIInv'
  <1> DEFINE t == tab[x]
             n == IF pc = "select" THEN lastNote ELSE t.notes
             s == [t EXCEPT !.pc = pc, !.seen = row[x.user].seen, !.prefs = row[x.user].prefs, !.notes = n]
  <1>1. tab' = [tab EXCEPT ![x] = s] /\ UNCHANGED <<row, acked, net, events>>
    BY DEF Begin, Web
  <1>2. WebRight /\ t \in TabStates
    BY DEF MotionIInv, WebRight
  <1> HIDE DEF t
  <1> HIDE DEF n
  <1>3. s.seen = row[x.user].seen
    BY <1>2 DEF TabStates
  <1> HIDE DEF s
  <1> QED
    BY <1>1, <1>2, <1>3, TabKnown

(* The cursor only moves forward, and over everything that the request     *)
(* reports as seen.                                                        *)
LEMMA MarkKnown == ASSUME MotionIInv, SeenIInv, NEW x \in Tabs, MarkEnd(x) PROVE SeenIInv'
  <1> DEFINE v == x.user
  <1>1. WebRight /\ StoreRight /\ Store(events) /\ v \in Users /\ tab[x].seen = row[v].seen
    BY MarkEndIs, MotionNumbers DEF MotionIInv, StoreRight, SeenIInv, TabsCurrent
  <1>2. /\ tab' = [tab EXCEPT ![x] = Rest] /\ UNCHANGED <<net, events>>
        /\ acked' = [acked EXCEPT ![v] = @ \cup KnownTo(x)]
        /\ row' = IF NewestSeen(x) > tab[x].seen
                  THEN [row EXCEPT ![v] = [seen |-> NewestSeen(x), prefs |-> tab[x].prefs]] ELSE row
    BY MarkEndIs DEF Web
  <1>3. /\ NewestSeen(x) \in Int /\ KnownTo(x) \subseteq Alerts
        /\ \A a \in KnownTo(x) : WhenWas(a) \in Int /\ WhenWas(a) <= NewestSeen(x)
    BY <1>1, NewestSeenTypes, MotionNumbers
  <1>4. /\ row'[v].seen = IF NewestSeen(x) > row[v].seen THEN NewestSeen(x) ELSE row[v].seen
        /\ \A u \in Users : u # v => row'[u] = row[u] /\ acked'[u] = acked[u]
        /\ acked'[v] = acked[v] \cup KnownTo(x)
    BY <1>1, <1>2 DEF WebRight
  <1>5. row[v].seen \in Int /\ row'[v].seen \in Int /\ row[v].seen <= row'[v].seen /\ NewestSeen(x) <= row'[v].seen
    BY <1>1, <1>3, <1>4, CursorType
  <1>6. TabsCurrent'
    <2> SUFFICES ASSUME NEW y \in Tabs, tab'[y].pc # "idle" PROVE tab'[y].seen = row'[y.user].seen
      BY DEF TabsCurrent
    <2>1. y # x /\ tab'[y] = tab[y]
      BY <1>1, <1>2, RestTypes DEF WebRight
    <2>2. y.user # v /\ y.user \in Users
      BY <2>1, MotionNumbers DEF SeenIInv, OneTabEach
    <2> QED
      BY <1>4, <2>1, <2>2 DEF SeenIInv, TabsCurrent
  <1>7. CursorRight'
    <2> SUFFICES ASSUME NEW u \in Users, NEW a \in acked'[u] PROVE SeenSince(u, a)'
      BY DEF CursorRight
    <2>1. CASE a \in acked[u]
      <3>1. SeenSince(u, a) /\ a \in Alerts
        BY <1>1, <2>1 DEF SeenIInv, CursorRight, WebRight
      <3>2. row[u].seen \in Int /\ row'[u].seen \in Int /\ row[u].seen <= row'[u].seen
        BY <1>1, <1>4, <1>5, CursorType
      <3>3. a.id \in Int /\ \A i \in DOMAIN events : events[i].started \in Int
        <4>1. \A i \in DOMAIN events : events[i] \in Event
          BY <1>1, StoreFacts
        <4> QED
          BY <3>1, <4>1, EventStarts DEF Alerts
      <3> QED
        BY <1>2, <3>1, <3>2, <3>3 DEF SeenSince
    <2>2. CASE a \notin acked[u]
      <3>1. u = v /\ a \in KnownTo(x)
        BY <1>4, <2>2
      <3>2. WhenWas(a) <= row'[u].seen
        BY <1>3, <1>5, <3>1
      <3>3. CASE a.src = "throttle"
        BY <3>2, <3>3 DEF WhenWas, SeenSince
      <3>4. CASE a.src # "throttle"
        <4>1. Find(events, a.id) # {}
          BY <3>1, <3>4 DEF KnownTo
        <4> DEFINE k == CHOOSE i \in Find(events, a.id) : TRUE
        <4>2. k \in DOMAIN events /\ events[k].id = a.id /\ \A i \in Find(events, a.id) : i = k
          BY <1>1, <4>1, FoundIn
        <4>3. WhenWas(a) = events[k].started
          BY <3>4 DEF WhenWas
        <4> HIDE DEF k
        <4>4. \A i \in DOMAIN events : events[i].id = a.id => i = k
          BY <4>2 DEF Find
        <4> QED
          BY <1>2, <3>2, <3>4, <4>2, <4>3, <4>4 DEF SeenSince
      <3> QED
        BY <3>3, <3>4
    <2> QED
      BY <2>1, <2>2
  <1> QED
    BY <1>2, <1>6, <1>7 DEF SeenIInv, StartsFirst, OneTabEach, RoomForAll

LEMMA OtherTabsKnown ==
    ASSUME MotionIInv, SeenIInv, NEW x \in Tabs, SelectEnd(x) \/ PrefsEnd(x) \/ CloseTab(x) PROVE SeenIInv'
  <1>1. PICK s : tab' = [tab EXCEPT ![x] = s] /\ s.pc = "idle"
    <2>1. \A b : [Rest EXCEPT !.inbox = b].pc = "idle"
      BY DEF Rest
    <2>2. CASE SelectEnd(x)
      <3>1. tab' = [tab EXCEPT ![x] = [Rest EXCEPT !.inbox = Offered(x)]]
        BY <2>2 DEF SelectEnd
      <3> QED
        BY <2>1, <3>1
    <2>3. CASE PrefsEnd(x)
      <3>1. tab' = [tab EXCEPT ![x] = [Rest EXCEPT !.inbox = tab[x].inbox]]
        BY <2>3 DEF PrefsEnd
      <3> QED
        BY <2>1, <3>1
    <2>4. CASE CloseTab(x)
      BY <2>4, RestTypes DEF CloseTab
    <2> QED
      BY <2>2, <2>3, <2>4
  <1>2. UNCHANGED <<net, events, acked>>
    BY DEF SelectEnd, PrefsEnd, CloseTab, Web
  <1>3. WebRight
    BY DEF MotionIInv
  <1>4. \A u \in Users : row'[u].seen = row[u].seen
    <2>1. CASE SelectEnd(x) \/ CloseTab(x)
      BY <2>1 DEF SelectEnd, CloseTab
    <2>2. CASE PrefsEnd(x)
      <3>1. tab[x].seen = row[x.user].seen
        BY <2>2 DEF PrefsEnd, SeenIInv, TabsCurrent
      <3> QED
        BY <1>3, <2>2, <3>1 DEF PrefsEnd, WebRight
    <2> QED
      BY <2>1, <2>2
  <1> QED
    BY <1>1, <1>2, <1>3, <1>4, TabKnown

LEMMA SeenStep == ASSUME MotionIInv, SeenIInv, Next PROVE SeenIInv'
  <1>1. ASSUME NEW c \in Cameras, NEW s \in Scores, Frame(c, s) PROVE SeenIInv'
    BY <1>1, FrameKnown
  <1>2. ASSUME NEW c \in Cameras, Reset(c) \/ Throttled(c) PROVE SeenIInv'
    BY <1>2, NothingStored, SeenRetained DEF Reset, Throttled, Camera
  <1>3. ASSUME NEW m \in net, Lose(m) \/ StartLimited(m) PROVE SeenIInv'
    <2>1. Retained /\ UNCHANGED <<row, acked, tab>>
      BY <1>3 DEF Lose, StartLimited, Camera, Server, Retained
    <2> QED
      BY <2>1, SeenRetained
  <1>4. ASSUME NEW m \in net, StartRecorded(m) \/ EndRecorded(m) PROVE SeenIInv'
    BY <1>4, StartKnown, EndKnown
  <1>5. ASSUME NEW x \in Tabs, SelectBegin(x) \/ MarkBegin(x) \/ PrefsBegin(x) PROVE SeenIInv'
    BY <1>5, BeginKnown DEF SelectBegin, MarkBegin, PrefsBegin
  <1>6. ASSUME NEW x \in Tabs, MarkEnd(x) \/ SelectEnd(x) \/ PrefsEnd(x) \/ CloseTab(x) PROVE SeenIInv'
    BY <1>6, MarkKnown, OtherTabsKnown
  <1>7. CASE AttachClips
    <2>1. Retained /\ UNCHANGED <<row, acked, tab>>
      BY <1>7, AttachTypes DEF AttachClips, Retained, MotionIInv
    <2> QED
      BY <2>1, SeenRetained
  <1>8. CASE Reap
    <2>1. Retained /\ UNCHANGED <<row, acked, tab>>
      BY <1>8, ReapTypes DEF Reap, Server, Retained, MotionIInv
    <2> QED
      BY <2>1, SeenRetained
  <1>9. CASE Tick
    BY <1>9, NothingStored, SeenRetained DEF Tick
  <1> QED
    BY <1>1, <1>2, <1>3, <1>4, <1>5, <1>6, <1>7, <1>8, <1>9 DEF Next

(* The step that fills an inbox looks past the cursor.                     *)
LEMMA OfferedIsNew ==
    ASSUME MotionIInv, SeenIInv, Next, NEW x \in Tabs, tab'[x].inbox # tab[x].inbox
    PROVE  tab'[x].inbox \cap acked[x.user] = {}
  <1>1. WebRight /\ StoreRight /\ x.user \in Users /\ tab \in [Tabs -> TabStates]
    BY MotionNumbers DEF MotionIInv, WebRight
  <1>2. ASSUME NEW y \in Tabs, SelectEnd(y) PROVE tab'[x].inbox \cap acked[x.user] = {}
    <2>1. y = x /\ tab'[x].inbox = Offered(x) /\ tab[x].pc = "select"
      BY <1>1, <1>2 DEF SelectEnd, Rest
    <2>2. tab[x].seen = row[x.user].seen
      BY <2>1 DEF SeenIInv, TabsCurrent
    <2> SUFFICES ASSUME NEW a \in Offered(x), a \in acked[x.user] PROVE FALSE
      BY <2>1
    <2>3. SeenSince(x.user, a)
      BY <1>1 DEF SeenIInv, CursorRight
    <2>4. /\ a \in Alerts /\ a.src \in {"motion", "throttle"}
          /\ a.src = "throttle" => a.id \in Time /\ a.id > row[x.user].seen
          /\ a.src = "motion" => \E i \in DOMAIN events : events[i].id = a.id /\ events[i].started > row[x.user].seen
      BY <1>1, <2>2, OfferedTypes
    <2>5. row[x.user].seen \in Int
      BY <1>1, CursorType
    <2>6. CASE a.src = "throttle"
      BY <2>3, <2>4, <2>5, <2>6 DEF SeenSince, Time
    <2>7. CASE a.src = "motion"
      <3>1. PICK i \in DOMAIN events : events[i].id = a.id /\ events[i].started > row[x.user].seen
        BY <2>4, <2>7
      <3>2. events[i].started <= row[x.user].seen
        BY <2>3, <2>7, <3>1 DEF SeenSince
      <3>3. events[i] \in Event
        BY <1>1, StoreFacts DEF StoreRight
      <3> QED
        BY <2>5, <3>1, <3>2, <3>3, EventStarts
    <2> QED
      BY <2>4, <2>6, <2>7
  <1>3. ASSUME NEW y \in Tabs, MarkEnd(y) \/ CloseTab(y) PROVE tab'[x].inbox \cap acked[x.user] = {}
    <2>1. tab' = [tab EXCEPT ![y] = Rest]
      BY <1>3 DEF MarkEnd, CloseTab
    <2> QED
      BY <1>1, <2>1, RestTypes
  <1>4. ASSUME NEW y \in Tabs, PrefsEnd(y) PROVE FALSE
    <2>1. tab' = [tab EXCEPT ![y] = [Rest EXCEPT !.inbox = tab[y].inbox]]
      BY <1>4 DEF PrefsEnd
    <2>2. [Rest EXCEPT !.inbox = tab[y].inbox].inbox = tab[y].inbox
      BY DEF Rest
    <2> QED
      BY <1>1, <2>1, <2>2
  <1>5. ASSUME NEW y \in Tabs, NEW pc, Begin(y, pc) PROVE FALSE
    <2> DEFINE t == tab[y]
               n == IF pc = "select" THEN lastNote ELSE t.notes
               s == [t EXCEPT !.pc = pc, !.seen = row[y.user].seen, !.prefs = row[y.user].prefs, !.notes = n]
    <2>1. tab' = [tab EXCEPT ![y] = s]
      BY <1>5 DEF Begin
    <2>2. t \in TabStates
      BY <1>1
    <2> HIDE DEF t, n
    <2>3. s.inbox = t.inbox
      BY <2>2 DEF TabStates
    <2> HIDE DEF s
    <2> QED
      BY <1>1, <2>1, <2>3 DEF t
  <1>6. tab' # tab
    OBVIOUS
  <1> QED
    BY <1>2, <1>3, <1>4, <1>5, <1>6
    DEF Next, Frame, Camera, Reset, Lose, StartLimited, StartRecorded, EndRecorded, Server, SelectBegin, MarkBegin,
        PrefsBegin, AttachClips, Reap, Tick, Throttled

LEMMA SeenStutters == SeenIInv /\ UNCHANGED vars => SeenIInv'
  <1> SUFFICES ASSUME SeenIInv, UNCHANGED vars PROVE SeenIInv'
    OBVIOUS
  <1> QED
    BY NothingStored, SeenRetained DEF vars

(* As long as no user has two tabs and the store has not been compacted:   *)
(* what a browser has reported as seen is not offered to its user again,   *)
(* although starts and ends come late, are lost and are stored out of      *)
(* order, and events are re-timed (select_for_user, mark_seen).            *)
THEOREM SeenIsNotOffered == OneTabEach /\ RoomForAll /\ EventsSpec => NothingNotifiedTwice
  <1>1. OneTabEach /\ RoomForAll /\ EventsInit => SeenIInv
    <2> SUFFICES ASSUME OneTabEach, RoomForAll, Init PROVE SeenIInv
      BY DEF EventsInit
    <2>1. net = {} /\ acked = [u \in Users |-> {}] /\ \A x \in Tabs : tab[x].pc = "idle"
      BY RestTypes DEF Init
    <2> QED
      BY <2>1 DEF SeenIInv, StartsFirst, TabsCurrent, CursorRight
  <1>2. EventsIInv /\ SeenIInv /\ [EventsNext]_eventsVars => SeenIInv'
    BY SeenStep, SeenStutters DEF EventsIInv, EventsNext, InMotion, InAlerts, eventsVars
  <1>3. EventsIInv /\ SeenIInv /\ [EventsNext]_eventsVars =>
        [\A x \in Tabs : tab'[x].inbox # tab[x].inbox => tab'[x].inbox \cap acked[x.user] = {}]_vars
    BY OfferedIsNew DEF EventsIInv, EventsNext, InMotion, InAlerts, eventsVars
  <1> QED
    BY <1>1, <1>2, <1>3, EventsStay, PTL DEF EventsSpec, NothingNotifiedTwice, eventsVars
=============================================================================
