------------------------------ MODULE Webhooks ------------------------------
(***************************************************************************)
(* Webhook destinations and their delivery: the destinations live in       *)
(* settings.json, which every writer reads, changes and saves whole.  The  *)
(* webhook service does so under its own lock; the settings page, the      *)
(* backup settings, the restart schedule and the USB choice do so without. *)
(***************************************************************************)
EXTENDS Naturals, FiniteSets, Sequences, SequencesExt
CONSTANTS
  Dests,       \* destination ids; each is created at most once
  Classes,     \* event classes
  Workers,     \* delivery threads of the service
  Requests,    \* threads that serve the admin's requests
  Retries,     \* Len(RETRY_DELAYS_SECONDS)
  DegradedAfter, \* DEGRADED_FAILURE_THRESHOLD
  MaxEvents,   \* bound: events, test posts and restarts
  MaxRequests  \* bound: configuration requests
ASSUME HookBounds ==
  /\ {Retries, MaxEvents, MaxRequests} \subseteq Nat /\ DegradedAfter \in Nat \ {0}
  /\ IsFiniteSet(Dests) /\ "free" \notin Workers \cup Requests
VARIABLES
  settings,    \* the file: [hook, rest]
  editing,     \* _settings_lock: the thread that holds it, or "free"
  edit,        \* per thread, the change it is making
  tasks,       \* _queue
  post,        \* per thread, the delivery it is making
  sending,     \* _destination_locks: per destination, the thread that holds it
  asked,       \* history: the settings as the saved requests asked for them
  overlaid,    \* history: a save rested on settings another save had changed
  failing,     \* history: failures of a destination since its last success
  alarms,      \* history: degraded alarms raised since then
  crashed,     \* history: the process was restarted
  minted,      \* ids that were ever given to a destination
  hookEvents, requests
hookVars == <<settings, editing, edit, tasks, post, sending, asked, overlaid, failing, alarms, crashed, minted, hookEvents, requests>>

Threads == Workers \cup Requests
NoHook == [made |-> FALSE, on |-> FALSE, wants |-> {}, failures |-> 0, degraded |-> FALSE]
NoEdit == [kind |-> "none", to |-> "none", at |-> "none", seen |-> "none", new |-> "none"]
NoPost == [at |-> "idle", to |-> "none", class |-> "none", test |-> FALSE, left |-> 0, ok |-> FALSE,
           again |-> FALSE, alarm |-> FALSE]
Choice(h) == [made |-> h.made, on |-> h.on, wants |-> h.wants]
Matches(h, c) == h.made /\ h.on /\ c \in h.wants

(* consecutive_failures and degraded after one attempt                     *)
Marked(h, ok) ==
  [h EXCEPT !.failures = IF ok THEN 0 ELSE @ + 1,
            !.degraded = ~ok /\ (@ \/ h.failures + 1 >= DegradedAfter)]
DegradedNow(h, ok) == ~ok /\ ~h.degraded /\ Marked(h, ok).degraded

HookInit ==
  /\ settings = [hook |-> [d \in Dests |-> NoHook], rest |-> 0]
  /\ editing = "free" /\ edit = [t \in Threads |-> NoEdit]
  /\ tasks = <<>> /\ post = [t \in Threads |-> NoPost] /\ sending = [d \in Dests |-> "free"]
  /\ asked = [hook |-> [d \in Dests |-> Choice(NoHook)], rest |-> 0] /\ overlaid = FALSE
  /\ failing = [d \in Dests |-> 0] /\ alarms = [d \in Dests |-> 0]
  /\ crashed = FALSE /\ minted = {} /\ hookEvents = 0 /\ requests = 0

(* get_settings at the start of a change                                   *)
BeginEdit(t, k, d, new) ==
  edit' = [edit EXCEPT ![t] = [kind |-> k, to |-> d, at |-> "save", seen |-> settings, new |-> new]]

\* mutant of BeginLocked: the change is made without _settings_lock
BeginUnlocked(t, k, d, new) == BeginEdit(t, k, d, new) /\ UNCHANGED editing

BeginLocked(t, k, d, new) == editing = "free" /\ editing' = t /\ BeginEdit(t, k, d, new)

FreeThread(t) == edit[t].kind = "none" /\ post[t].at = "idle"
NewEdit(t) == t \in Requests /\ FreeThread(t) /\ requests < MaxRequests /\ requests' = requests + 1

CreateDestination(t, d, c) ==
  /\ NewEdit(t) /\ d \notin minted /\ minted' = minted \cup {d}
  /\ BeginLocked(t, "create", d, [NoHook EXCEPT !.made = TRUE, !.on = TRUE, !.wants = c])
  /\ UNCHANGED <<settings, tasks, post, sending, asked, overlaid, failing, alarms, crashed, hookEvents>>

DeleteDestination(t, d) ==
  /\ NewEdit(t) /\ settings.hook[d].made
  /\ BeginLocked(t, "delete", d, NoHook)
  /\ UNCHANGED <<minted, settings, tasks, post, sending, asked, overlaid, failing, alarms, crashed, hookEvents>>

SetEnabled(t, d, on) ==
  /\ NewEdit(t) /\ settings.hook[d].made
  /\ BeginLocked(t, "enable", d, [settings.hook[d] EXCEPT !.on = on])
  /\ UNCHANGED <<minted, settings, tasks, post, sending, asked, overlaid, failing, alarms, crashed, hookEvents>>

(* A PUT: the fields it does not name are filled in from the destination   *)
(* as it is before the lock is taken.                                      *)
CleanUpdate(t, d, c) ==
  /\ NewEdit(t) /\ settings.hook[d].made
  /\ edit' = [edit EXCEPT ![t] = [kind |-> "update", to |-> d, at |-> "clean", seen |-> settings,
                                  new |-> [settings.hook[d] EXCEPT !.wants = c]]]
  /\ UNCHANGED <<minted, settings, editing, tasks, post, sending, asked, overlaid, failing, alarms, crashed, hookEvents>>

LockUpdate(t) ==
  /\ edit[t].at = "clean"
  /\ LET d == edit[t].to
         h == settings.hook[d]
     IN IF h.made
        THEN /\ BeginLocked(t, "update", d, [h EXCEPT !.on = edit[t].new.on, !.wants = edit[t].new.wants])
             /\ overlaid' = (overlaid \/ h.on # edit[t].new.on)
        ELSE /\ editing = "free" /\ edit' = [edit EXCEPT ![t] = NoEdit]
             /\ UNCHANGED <<editing, overlaid>>
  /\ UNCHANGED <<minted, settings, tasks, post, sending, asked, failing, alarms, crashed, hookEvents, requests>>

(* update_settings and the other writers, which take no lock               *)
EditRest(t) ==
  /\ NewEdit(t) /\ BeginEdit(t, "rest", "none", requests + 1)
  /\ UNCHANGED <<minted, settings, editing, tasks, post, sending, asked, overlaid, failing, alarms, crashed, hookEvents>>

(* save_settings                                                           *)
Saved(e) ==
  IF e.kind = "rest" THEN [e.seen EXCEPT !.rest = e.new] ELSE [e.seen EXCEPT !.hook[e.to] = e.new]
Asking(e) ==
  CASE e.kind = "rest" -> [asked EXCEPT !.rest = e.new]
    [] e.kind = "mark" -> asked
    [] e.kind = "update" -> [asked EXCEPT !.hook[e.to].wants = e.new.wants]
    [] OTHER -> [asked EXCEPT !.hook[e.to] = Choice(e.new)]

Commit(t) ==
  /\ edit[t].at = "save"
  /\ settings' = Saved(edit[t]) /\ asked' = Asking(edit[t])
  /\ overlaid' = (overlaid \/ (/\ edit[t].kind = "rest"
                               /\ \/ settings # edit[t].seen
                                  \/ \E u \in Threads \ {t} : edit[u].at = "save"))
  /\ editing' = IF editing = t THEN "free" ELSE editing
  /\ edit' = [edit EXCEPT ![t] = NoEdit]

SaveRequest(t) ==
  /\ edit[t].kind # "mark" /\ Commit(t)
  /\ UNCHANGED <<minted, tasks, post, sending, failing, alarms, crashed, hookEvents, requests>>

(* _enqueue                                                                *)
Enqueue(c) ==
  LET due == {d \in Dests : Matches(settings.hook[d], c)}
  IN \E order \in [1..Cardinality(due) -> due] :
       /\ Range(order) = due
       /\ tasks' = tasks \o [i \in DOMAIN order |-> [to |-> order[i], class |-> c]]

(* A motion event ended, or the audit log took an entry that webhooks tell *)
Notify(c) ==
  /\ hookEvents < MaxEvents /\ hookEvents' = hookEvents + 1
  /\ Enqueue(c)
  /\ UNCHANGED <<minted, settings, editing, edit, post, sending, asked, overlaid, failing, alarms, crashed, requests>>

Start(t, d, c, test) ==
  post' = [post EXCEPT ![t] = [NoPost EXCEPT !.at = "lock", !.to = d, !.class = c, !.test = test,
                                             !.left = IF test THEN 0 ELSE Retries]]

(* _deliver_task, the first look at the destination                        *)
Take(t) ==
  /\ t \in Workers /\ FreeThread(t) /\ tasks # <<>>
  /\ tasks' = Tail(tasks)
  /\ LET k == Head(tasks)
     IN IF Matches(settings.hook[k.to], k.class) THEN Start(t, k.to, k.class, FALSE) ELSE UNCHANGED post
  /\ UNCHANGED <<minted, settings, editing, edit, sending, asked, overlaid, failing, alarms, crashed, hookEvents, requests>>

SendTest(t, d) ==
  /\ t \in Requests /\ FreeThread(t) /\ settings.hook[d].made
  /\ hookEvents < MaxEvents /\ hookEvents' = hookEvents + 1
  /\ Start(t, d, "test", TRUE)
  /\ UNCHANGED <<minted, settings, editing, edit, tasks, sending, asked, overlaid, failing, alarms, crashed, requests>>

(* _destination_lock                                                       *)
Unoccupied(d) == sending[d] = "free"

(* The second look at the destination, under its lock                      *)
Recheck(t) ==
  /\ post[t].at = "lock" /\ Unoccupied(post[t].to)
  /\ IF post[t].test \/ Matches(settings.hook[post[t].to], post[t].class)
     THEN /\ sending' = [sending EXCEPT ![post[t].to] = t]
          /\ post' = [post EXCEPT ![t].at = "send"]
     ELSE /\ post' = [post EXCEPT ![t] = NoPost]
          /\ UNCHANGED sending
  /\ UNCHANGED <<minted, settings, editing, edit, tasks, asked, overlaid, failing, alarms, crashed, hookEvents, requests>>

(* _post_with_redirects: 2xx, another answer below 500, or a 5xx answer,   *)
(* no answer, or an address that is not public                             *)
Outcomes == {"delivered", "refused", "failed"}
WillRetry(outcome, left) == outcome = "failed" /\ left > 0

(* One attempt of _deliver                                                 *)
PostAttempt(t, outcome) ==
  /\ post[t].at = "send"
  /\ post' = [post EXCEPT ![t].at = "mark", ![t].ok = outcome = "delivered",
                          ![t].again = WillRetry(outcome, post[t].left)]
  /\ UNCHANGED <<minted, settings, editing, edit, tasks, sending, asked, overlaid, failing, alarms, crashed, hookEvents, requests>>

(* _mark_delivery_result: a destination that is gone is not saved          *)
Mark(t) ==
  /\ post[t].at = "mark" /\ edit[t].kind = "none"
  /\ LET d == post[t].to
         h == settings.hook[d]
     IN IF h.made
        THEN BeginLocked(t, "mark", d, Marked(h, post[t].ok)) /\ UNCHANGED post
        ELSE post' = [post EXCEPT ![t].at = "log"] /\ UNCHANGED <<editing, edit>>
  /\ UNCHANGED <<minted, settings, tasks, sending, asked, overlaid, failing, alarms, crashed, hookEvents, requests>>

SaveMark(t) ==
  /\ edit[t].kind = "mark" /\ Commit(t)
  /\ LET d == post[t].to
     IN /\ post' = [post EXCEPT ![t].at = "log", ![t].alarm = DegradedNow(edit[t].seen.hook[d], post[t].ok)]
        /\ failing' = [failing EXCEPT ![d] = IF post[t].ok THEN 0 ELSE @ + 1]
        /\ alarms' = [alarms EXCEPT ![d] = IF post[t].ok THEN 0 ELSE @]
  /\ UNCHANGED <<minted, tasks, sending, crashed, hookEvents, requests>>

Release(d) == sending' = [sending EXCEPT ![d] = "free"]

(* The audit lines of an attempt; then the next one, or the end            *)
Log(t) ==
  /\ post[t].at = "log"
  /\ alarms' = [alarms EXCEPT ![post[t].to] = IF post[t].alarm THEN @ + 1 ELSE @]
  /\ IF post[t].again
     THEN /\ post' = [post EXCEPT ![t].at = "send", ![t].left = @ - 1, ![t].alarm = FALSE]
          /\ UNCHANGED sending
     ELSE /\ post' = [post EXCEPT ![t] = NoPost]
          /\ Release(post[t].to)
  /\ UNCHANGED <<minted, settings, editing, edit, tasks, asked, overlaid, failing, crashed, hookEvents, requests>>

(* save_settings raises: the request answers an error, or the worker logs  *)
(* it and drops the task; the locks are released                           *)
SaveFails(t) ==
  /\ edit[t].at = "save" /\ hookEvents < MaxEvents /\ hookEvents' = hookEvents + 1
  /\ edit' = [edit EXCEPT ![t] = NoEdit]
  /\ editing' = IF editing = t THEN "free" ELSE editing
  /\ post' = [post EXCEPT ![t] = NoPost]
  /\ sending' = [d \in Dests |-> IF sending[d] = t THEN "free" ELSE sending[d]]
  /\ UNCHANGED <<minted, settings, tasks, asked, overlaid, failing, alarms, crashed, requests>>

(* The process ends and starts again: everything in memory is gone         *)
RestartService ==
  /\ hookEvents < MaxEvents /\ hookEvents' = hookEvents + 1 /\ crashed' = TRUE
  /\ editing' = "free" /\ edit' = [t \in Threads |-> NoEdit]
  /\ tasks' = <<>> /\ post' = [t \in Threads |-> NoPost] /\ sending' = [d \in Dests |-> "free"]
  /\ UNCHANGED <<minted, settings, asked, overlaid, failing, alarms, requests>>

Works(t) ==
  \/ LockUpdate(t) \/ SaveRequest(t)
  \/ Take(t) \/ Recheck(t) \/ Mark(t) \/ SaveMark(t) \/ Log(t)
  \/ \E o \in Outcomes : PostAttempt(t, o)

HookNext ==
  \/ \E t \in Requests, d \in Dests :
       \/ DeleteDestination(t, d) \/ SendTest(t, d)
       \/ \E c \in (SUBSET Classes) \ {{}} : CreateDestination(t, d, c) \/ CleanUpdate(t, d, c)
       \/ \E on \in BOOLEAN : SetEnabled(t, d, on)
  \/ \E t \in Requests : EditRest(t)
  \/ \E t \in Threads : Works(t) \/ SaveFails(t)
  \/ \E c \in Classes : Notify(c)
  \/ RestartService

(* Threads run and posts time out (REQUEST_TIMEOUT_SECONDS)                *)
HookFairness == \A t \in Threads : WF_hookVars(Works(t))

HookTypeOK ==
  /\ settings.hook \in [Dests -> [made : BOOLEAN, on : BOOLEAN, wants : SUBSET Classes,
                                  failures : Nat, degraded : BOOLEAN]]
  /\ settings.rest \in 0..MaxRequests /\ overlaid \in BOOLEAN /\ crashed \in BOOLEAN
  /\ editing \in Threads \cup {"free"} /\ sending \in [Dests -> Threads \cup {"free"}]
  /\ \A t \in Threads : /\ edit[t].at \in {"none", "clean", "save"}
                        /\ post[t].at \in {"idle", "lock", "send", "mark", "log"}
  /\ \A i \in DOMAIN tasks : tasks[i] \in [to : Dests, class : Classes]
  /\ failing \in [Dests -> Nat] /\ alarms \in [Dests -> Nat] /\ minted \subseteq Dests

(* What a request asked of a destination or of another setting stays in    *)
(* the file, whatever deliveries mark there meanwhile, unless a writer     *)
(* that takes no lock, or a PUT that filled a field in too early, saved    *)
(* over it: webhook_delivery_service's _settings_lock.                     *)
AsAsked ==
  ~overlaid => settings.rest = asked.rest /\ \A d \in Dests : Choice(settings.hook[d]) = asked.hook[d]

(* An outage of a destination raises one alarm, when it reaches the        *)
(* threshold, however many workers, tests and edits run meanwhile; only a  *)
(* save over its counters repeats it and only a restart loses it           *)
(* (_mark_delivery_result).                                                *)
OneAlarm ==
  ~overlaid => \A d \in Dests :
    LET due == alarms[d] + Cardinality({t \in Threads : post[t].to = d /\ post[t].alarm})
    IN due <= 1 /\ (~crashed => (due = 1 <=> failing[d] >= DegradedAfter))

(* Deliveries come to an end: once no more events arrive the queue drains, *)
(* every attempt and retry ends and the locks are free, whichever saves    *)
(* failed and whichever destinations were changed (_deliver_task).         *)
AtRest == tasks = <<>> /\ \A t \in Threads : post[t].at = "idle"
DeliverySettles == ~AtRest ~> AtRest

(* What was asked of a destination holds until it is asked again           *)
(* (violated: settings_service.update_settings takes no lock)              *)
AlwaysAsAsked ==
  settings.rest = asked.rest /\ \A d \in Dests : Choice(settings.hook[d]) = asked.hook[d]

(* "Disabled webhooks do not receive delivery attempts" (violated: a retry *)
(* posts to the copy of the destination its first attempt read)            *)
DisabledGetsNothing ==
  [][\A t \in Threads : (post[t].at = "send" /\ post'[t].at = "mark" /\ ~post[t].test)
                          => settings.hook[post[t].to].on]_hookVars
=============================================================================
