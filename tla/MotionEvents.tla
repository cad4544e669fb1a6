---------------------------- MODULE MotionEvents ----------------------------
(***************************************************************************)
(* A motion from the camera's frames to the user's browser: the detector's *)
(* hysteresis, the signed start and end requests, the server's rate limit  *)
(* and event store with its auto-close and reaper, and the notifications   *)
(* that browsers poll and mark as seen.  A request may be lost, or handled *)
(* after the camera has given up on it.  Times are ticks; a score is its   *)
(* side of the two thresholds.                                             *)
(***************************************************************************)
EXTENDS Integers, Sequences, FiniteSets, FiniteSetsExt, SequencesExt

CONSTANTS
  Cameras, Users,
  Tabs,         \* browser tabs: [id, user]
  MinStart,     \* min_start_frames
  MinEnd,       \* min_end_frames
  MinDuration,  \* min_event_duration_seconds, and the rule's minimum
  RateLimit,    \* _MOTION_RATE_LIMIT_SECONDS
  ReapAge,      \* max_age_seconds of reap_stale
  PostRoll,     \* post_roll_seconds of is_camera_active
  Coalesce,     \* coalesce_seconds
  DayLength,    \* ticks per day
  Week,         \* days per week
  Strong,       \* motions whose peak score is above the notification threshold
  ClipAtEnd,    \* motions whose clip is finalised when their end arrives
  Prefs,        \* preferences a user may choose: [enabled, rule]
  Chosen,       \* preferences chosen before
  MaxStored,    \* MAX_EVENTS
  MaxMotions,   \* bound: motions announced
  MaxChanges,   \* bound: resets, losses, throttling warnings, lookups of clips and changes of preferences
  MaxTime       \* bound: the clock; no motion is announced later than ReapAge before it

NoTime == -1
Time == 0..MaxTime
Ids == 1..MaxMotions
Windows == [days : SUBSET (0..(Week - 1)), start : 0..(DayLength - 1), end : 0..(DayLength - 1)]
Rules == [on : BOOLEAN, quiet : SUBSET Windows]

ASSUME MotionAssumption ==
  /\ MinStart \in Nat \ {0} /\ MinEnd \in Nat \ {0} /\ MinDuration \in Nat
  /\ RateLimit \in Nat /\ ReapAge \in Nat /\ PostRoll \in Nat /\ Coalesce \in Nat \ {0}
  /\ DayLength \in Nat \ {0} /\ Week \in Nat \ {0} /\ MaxStored \in Nat \ {0}
  /\ MaxMotions \in Nat /\ MaxChanges \in Nat /\ MaxTime \in Nat
  /\ \A tab \in Tabs : tab.user \in Users
  /\ \A p \in Prefs : p.enabled \in BOOLEAN /\ p.rule \in [Cameras -> Rules]
  /\ Chosen \in Prefs

VARIABLES
  now,
  det,       \* of each camera: the detector [above, below, began, id]
  issued,    \* event ids issued so far
  net,       \* requests sent and not yet handled
  lastStart, \* _motion_rate_last_start
  events,    \* the event store, oldest first
  throttles, \* throttling warnings in the audit log: [cam, at]
  row,       \* of each user: [seen, prefs]
  lastNote,  \* of each camera: last_notification_at
  tab,       \* of each tab: the request in progress and what it holds
  acked,     \* of each user: the alerts marked as seen by a finished request
  changes

vars == <<now, det, issued, net, lastStart, events, throttles, row, lastNote, tab, acked, changes>>

Idle == [above |-> 0, below |-> 0, began |-> NoTime, id |-> 0]
Request == [cam : Cameras, phase : {"start", "end"}, id : Ids, at : Time, strong : BOOLEAN, dur : Time]
Event == [id : Ids, cam : Cameras, started : Time, ended : Time \cup {NoTime}, strong : BOOLEAN,
          dur : (-MaxTime)..MaxTime, clip : BOOLEAN]
Motion(e) == [src |-> "motion", cam |-> e.cam, id |-> e.id]
Throttle(w) == [src |-> "throttle", cam |-> w.cam, id |-> w.at]
Throttles == [cam : Cameras, at : Time]
Alerts == [src : {"motion", "throttle"}, cam : Cameras, id : Nat]
Rest == [pc |-> "idle", seen |-> NoTime, prefs |-> Chosen,
         notes |-> [c \in Cameras |-> NoTime], inbox |-> {}]

TypeOK ==
  /\ now \in Time /\ issued \in 0..MaxMotions /\ changes \in 0..MaxChanges
  /\ det \in [Cameras -> [above : 0..(MinStart - 1), below : 0..(MinEnd - 1), began : Time \cup {NoTime},
                          id : 0..MaxMotions]]
  /\ net \subseteq Request /\ lastStart \in [Cameras -> Time \cup {NoTime}]
  /\ events \in Seq(Event) /\ Len(events) <= MaxStored
  /\ \A i, j \in 1..Len(events) : events[i].id = events[j].id => i = j
  /\ throttles \subseteq Throttles /\ lastNote \in [Cameras -> Time \cup {NoTime}]
  /\ row \in [Users -> [seen : Time \cup {NoTime}, prefs : Prefs]]
  /\ \A x \in Tabs : tab[x].pc \in {"idle", "select", "mark", "prefs"} /\ tab[x].inbox \subseteq Alerts

Init ==
  /\ now = 0 /\ det = [c \in Cameras |-> Idle] /\ issued = 0 /\ net = {}
  /\ lastStart = [c \in Cameras |-> NoTime] /\ events = <<>> /\ throttles = {}
  /\ row = [u \in Users |-> [seen |-> NoTime, prefs |-> Chosen]]
  /\ lastNote = [c \in Cameras |-> NoTime] /\ tab = [x \in Tabs |-> Rest]
  /\ acked = [u \in Users |-> {}] /\ changes = 0

(***************************************************************************)
(* The camera.  A frame advances the hysteresis; the runner polls the      *)
(* detector after it and posts the transition it finds.                    *)
(***************************************************************************)
Scores == {"low", "mid", "high"}  \* <= end threshold, between, >= start threshold

Post(c, phase, id, dur) ==
  net' = net \cup {[cam |-> c, phase |-> phase, id |-> id, at |-> now, strong |-> id \in Strong, dur |-> dur]}

Onset(c, s) ==
  LET d == det[c] IN
  /\ d.began = NoTime
  /\ det' = [det EXCEPT ![c] =
       IF s # "high" THEN [d EXCEPT !.above = 0]
       ELSE IF d.above + 1 < MinStart THEN [d EXCEPT !.above = @ + 1, !.below = 0]
       ELSE [d EXCEPT !.above = 0, !.below = 0, !.began = now]]
  /\ UNCHANGED <<net, issued>>

KeepsMoving(c, s) ==
  LET d == det[c] IN
  /\ d.began # NoTime /\ s # "low"
  /\ IF d.id = 0 /\ now - d.began >= MinDuration /\ issued < MaxMotions /\ now + ReapAge <= MaxTime
     THEN /\ issued' = issued + 1
          /\ det' = [det EXCEPT ![c].below = 0, ![c].id = issued + 1]
          /\ Post(c, "start", issued + 1, 0)
     ELSE det' = [det EXCEPT ![c].below = 0] /\ UNCHANGED <<net, issued>>

Calms(c, s) ==
  LET d == det[c] IN
  /\ d.began # NoTime /\ s = "low"
  /\ IF d.below + 1 < MinEnd
     THEN det' = [det EXCEPT ![c].below = @ + 1, ![c].above = 0] /\ UNCHANGED net
     ELSE /\ det' = [det EXCEPT ![c] = Idle]
          /\ IF d.id = 0 THEN UNCHANGED net
             ELSE Post(c, "end", d.id, now - d.began)
  /\ UNCHANGED issued

Change == changes < MaxChanges /\ changes' = changes + 1
Camera == UNCHANGED <<now, lastStart, events, throttles, row, lastNote, tab, acked>>
Frame(c, s) == (Onset(c, s) \/ KeepsMoving(c, s) \/ Calms(c, s)) /\ Camera /\ UNCHANGED changes

\* The stream restarts: history and the event in progress are dropped.
Reset(c) == det[c] # Idle /\ det' = [det EXCEPT ![c] = Idle] /\ Change /\ Camera /\ UNCHANGED <<net, issued>>

\* The request never reaches the server, or is refused there.
Lose(m) == net' = net \ {m} /\ Change /\ Camera /\ UNCHANGED <<det, issued>>

(***************************************************************************)
(* The server's event store.                                               *)
(***************************************************************************)
Find(es, id) == {i \in DOMAIN es : es[i].id = id}
Open(e) == e.ended = NoTime

AutoClose(es, e) ==
  [i \in DOMAIN es |->
     IF Open(e) /\ Open(es[i]) /\ es[i].cam = e.cam
     THEN [es[i] EXCEPT !.ended = e.started,
                        !.dur = e.started - es[i].started]
     ELSE es[i]]

\* Compaction drops the oldest tenth, one at least: one, at the sizes checked.
Compact(es) == IF Len(es) > MaxStored THEN Tail(es) ELSE es

Put(es, e) ==
  IF Find(es, e.id) # {} THEN [i \in DOMAIN es |-> IF es[i].id = e.id THEN e ELSE es[i]]
  ELSE Compact(Append(AutoClose(es, e), e))

Server == UNCHANGED <<now, det, issued, throttles, row, lastNote, tab, acked, changes>>

StartLimited(m) ==
  /\ m.phase = "start" /\ lastStart[m.cam] # NoTime /\ now - lastStart[m.cam] < RateLimit
  /\ net' = net \ {m} /\ UNCHANGED <<lastStart, events>> /\ Server

StartRecorded(m) ==
  /\ m.phase = "start" /\ (lastStart[m.cam] = NoTime \/ now - lastStart[m.cam] >= RateLimit)
  /\ net' = net \ {m} /\ lastStart' = [lastStart EXCEPT ![m.cam] = now]
  /\ events' = Put(events, [id |-> m.id, cam |-> m.cam, started |-> m.at, ended |-> NoTime,
                            strong |-> m.strong, dur |-> 0, clip |-> FALSE])
  /\ Server

\* The end closes the event it finds, or creates a closed one; then the
\* correlator may already know a clip.
EndRecorded(m) ==
  /\ m.phase = "end" /\ net' = net \ {m} /\ UNCHANGED lastStart
  /\ events' = Put(events,
       IF Find(events, m.id) = {}
       THEN [id |-> m.id, cam |-> m.cam, started |-> m.at, ended |-> m.at, strong |-> m.strong,
             dur |-> m.dur, clip |-> m.id \in ClipAtEnd]
       ELSE LET e == events[CHOOSE i \in Find(events, m.id) : TRUE] IN
            [e EXCEPT !.ended = m.at, !.strong = @ \/ m.strong, !.dur = m.dur, !.clip = @ \/ m.id \in ClipAtEnd])
  /\ Server

\* mutant of Stale: no event is ever old enough
StaleNever(e) == Open(e) /\ now - e.started > MaxTime

Stale(e) == Open(e) /\ now - e.started >= ReapAge

Reap ==
  /\ \E i \in DOMAIN events : Stale(events[i])
  /\ events' = [i \in DOMAIN events |->
       IF Stale(events[i]) THEN [events[i] EXCEPT !.ended = events[i].started, !.dur = 0] ELSE events[i]]
  /\ UNCHANGED <<net, lastStart>> /\ Server

\* is_camera_active: the newest event of the camera alone decides.
IsCameraActive(c) ==
  LET mine == {i \in DOMAIN events : events[i].cam = c} IN
  /\ mine # {}
  /\ LET e == events[Max(mine)] IN Open(e) \/ now - e.ended <= PostRoll

\* The events page, or a click on one event, looks up missing clips.
AttachClips ==
  /\ Change
  /\ \E i \in DOMAIN events : ~events[i].clip /\ events' = [events EXCEPT ![i].clip = TRUE]
  /\ UNCHANGED <<now, det, issued, net, lastStart, throttles, row, lastNote, tab, acked>>

(***************************************************************************)
(* Notifications.  Every request reads the user's row, works, and saves    *)
(* the whole row; the rows of the cameras are read when it begins.         *)
(***************************************************************************)
\* A window whose end is not after its start spills into the next day.
InWindow(w, t) ==
  LET day == (t \div DayLength) % Week
      at  == t % DayLength
  IN IF w.end > w.start
     THEN day \in w.days /\ w.start <= at /\ at < w.end
     ELSE \/ day \in w.days /\ at >= w.start
          \/ (day + Week - 1) % Week \in w.days /\ at < w.end

Quiet(rule, t) == \E w \in rule.quiet : InWindow(w, t)

\* mutant of Candidates: an event that started with the newest seen one is new again
CandidatesAgain(x) ==
  {i \in DOMAIN events :
     LET e == events[i] IN
     /\ ~Open(e) /\ e.started >= tab[x].seen /\ e.strong
     /\ tab[x].prefs.rule[e.cam].on /\ e.dur >= MinDuration
     /\ ~Quiet(tab[x].prefs.rule[e.cam], e.ended)
     /\ tab[x].notes[e.cam] = NoTime \/ now - tab[x].notes[e.cam] >= Coalesce}

\* What passes the filters for one tab, but for the coalescing of motions.
Candidates(x) ==
  {i \in DOMAIN events :
     LET e == events[i] IN
     /\ ~Open(e) /\ e.started > tab[x].seen /\ e.strong
     /\ tab[x].prefs.rule[e.cam].on /\ e.dur >= MinDuration
     /\ ~Quiet(tab[x].prefs.rule[e.cam], e.ended)
     /\ tab[x].notes[e.cam] = NoTime \/ now - tab[x].notes[e.cam] >= Coalesce}

\* The newest of each camera: it renews last_notification_at for the others.
Offered(x) ==
  {Motion(events[i]) : i \in {i \in Candidates(x) : \A j \in Candidates(x) : events[j].cam = events[i].cam => j <= i}}
  \cup {Throttle(w) : w \in {w \in throttles : w.at > tab[x].seen /\ tab[x].prefs.rule[w.cam].on
                                               /\ ~Quiet(tab[x].prefs.rule[w.cam], w.at)}}

Web == UNCHANGED <<now, det, issued, net, lastStart, events, throttles>>

\* A request of tab x begins: it has the user's row as it is now.
Begin(x, pc) ==
  /\ tab[x].pc = "idle"
  /\ tab' = [tab EXCEPT ![x] = [@ EXCEPT !.pc = pc, !.seen = row[x.user].seen,
                                         !.prefs = row[x.user].prefs,
                                         !.notes = IF pc = "select" THEN lastNote ELSE tab[x].notes]]
  /\ UNCHANGED <<row, lastNote, acked>> /\ Web

SelectBegin(x) == row[x.user].prefs.enabled /\ tab[x].inbox = {} /\ Begin(x, "select") /\ UNCHANGED changes
MarkBegin(x) == tab[x].inbox # {} /\ Begin(x, "mark") /\ UNCHANGED changes
PrefsBegin(x) == Change /\ Begin(x, "prefs")

SelectEnd(x) ==
  /\ tab[x].pc = "select"
  /\ tab' = [tab EXCEPT ![x] = [Rest EXCEPT !.inbox = Offered(x)]]
  /\ lastNote' = [c \in Cameras |-> IF \E i \in Candidates(x) : events[i].cam = c THEN now ELSE lastNote[c]]
  /\ UNCHANGED <<row, acked, changes>> /\ Web

\* The cursor moves to the newest start among the alerts the server still knows.
MarkEnd(x) ==
  LET known  == {a \in tab[x].inbox : a.src = "throttle" \/ Find(events, a.id) # {}}
      at(a)  == IF a.src = "throttle" THEN a.id ELSE events[CHOOSE i \in Find(events, a.id) : TRUE].started
      latest == Max({NoTime} \cup {at(a) : a \in known})
  IN /\ tab[x].pc = "mark"
     /\ row' = IF latest > tab[x].seen
               THEN [row EXCEPT ![x.user] = [seen |-> latest, prefs |-> tab[x].prefs]] ELSE row
     /\ acked' = [acked EXCEPT ![x.user] = @ \cup known]
     /\ tab' = [tab EXCEPT ![x] = Rest] /\ UNCHANGED <<lastNote, changes>> /\ Web

PrefsEnd(x) ==
  /\ tab[x].pc = "prefs"
  /\ \E p \in Prefs : row' = [row EXCEPT ![x.user] = [seen |-> tab[x].seen, prefs |-> p]]
  /\ tab' = [tab EXCEPT ![x] = [Rest EXCEPT !.inbox = tab[x].inbox]]
  /\ UNCHANGED <<lastNote, acked, changes>> /\ Web

\* The tab is closed with alerts it has not reported as seen.
CloseTab(x) == tab[x].pc = "idle" /\ tab[x].inbox # {} /\ tab' = [tab EXCEPT ![x] = Rest]
               /\ UNCHANGED <<row, lastNote, acked, changes>> /\ Web

\* A heartbeat reports throttling: an audit entry.
Throttled(c) ==
  /\ Change /\ throttles' = throttles \cup {[cam |-> c, at |-> now]}
  /\ UNCHANGED <<now, det, issued, net, lastStart, events, row, lastNote, tab, acked>>

Tick == now < MaxTime /\ now' = now + 1
        /\ UNCHANGED <<det, issued, net, lastStart, events, throttles, row, lastNote, tab, acked, changes>>

Next ==
  \/ \E c \in Cameras : (\E s \in Scores : Frame(c, s)) \/ Reset(c) \/ Throttled(c)
  \/ \E m \in net : Lose(m) \/ StartLimited(m) \/ StartRecorded(m) \/ EndRecorded(m)
  \/ \E x \in Tabs : SelectBegin(x) \/ SelectEnd(x) \/ MarkBegin(x) \/ MarkEnd(x)
                     \/ PrefsBegin(x) \/ PrefsEnd(x) \/ CloseTab(x)
  \/ AttachClips \/ Reap \/ Tick

\* Time passes and the staleness checker runs.
Spec == Init /\ [][Next]_vars /\ WF_vars(Tick) /\ WF_vars(Reap)

(***************************************************************************)
(* What is checked.                                                        *)
(***************************************************************************)
\* An event that is open in the store is closed in the end, whatever became
\* of the camera and of its requests: by its end, by the next start of the
\* camera or by the reaper.
EventsClose ==
  \A id \in Ids : (\E i \in DOMAIN events : events[i].id = id /\ Open(events[i]))
                  ~> ~(\E i \in DOMAIN events : events[i].id = id /\ Open(events[i]))

\* What a browser has reported as seen is not offered to its user again: the
\* cursor only moves over what was seen, and no event moves past the cursor,
\* although starts and ends are stored out of order and events are re-timed.
NothingNotifiedTwice ==
  [][\A x \in Tabs : tab'[x].inbox # tab[x].inbox =>
       tab'[x].inbox \cap acked[x.user] = {}]_vars

\* A motion that passes every filter of a user, on a camera for which there
\* was no notification yet, is not below the user's cursor.
NothingMissed ==
  \A u \in Users : \A i \in DOMAIN events :
    LET e == events[i] IN
    (/\ ~Open(e) /\ e.strong /\ e.dur >= MinDuration /\ row[u].prefs.rule[e.cam].on
     /\ ~Quiet(row[u].prefs.rule[e.cam], e.ended) /\ lastNote[e.cam] = NoTime)
      => e.started > row[u].seen

\* The end of an event is not undone: a closed event stays closed.
EndIsKept ==
  [][\A i \in DOMAIN events : \A j \in DOMAIN events' :
       (events[i].id = events'[j].id /\ ~Open(events[i])) => ~Open(events'[j])]_vars

\* A camera with an event in progress is in its motion window.
ActiveWhileOpen == \A i \in DOMAIN events : Open(events[i]) => IsCameraActive(events[i].cam)
=============================================================================
