---------------------------- MODULE MCEvents ----------------------------
(***************************************************************************)
(* Instances of MotionEvents and AlertCenter.  The two share no state; a   *)
(* behaviour is about one of them.                                         *)
(***************************************************************************)
EXTENDS MotionEvents, AlertCenter
VARIABLE eventsPart

Loud == [on |-> TRUE, quiet |-> {}]
Night == [on |-> TRUE, quiet |-> {[days |-> {0}, start |-> 2, end |-> 1]}]
Off == [on |-> FALSE, quiet |-> {}]
NotifyAll == [enabled |-> TRUE, rule |-> [c \in Cameras |-> Loud]]
SomePrefs == {NotifyAll, [enabled |-> TRUE, rule |-> [c \in Cameras |-> Night]],
              [enabled |-> FALSE, rule |-> [c \in Cameras |-> Off]]}
OneTab == {[id |-> 1, user |-> u] : u \in Users}
TwoTabs == {[id |-> i, user |-> u] : i \in 1..2, u \in Users}

InMotion(A) == eventsPart = "motion" /\ A /\ UNCHANGED <<alertVars, eventsPart>>
InAlerts(A) == eventsPart = "alerts" /\ A /\ UNCHANGED <<vars, eventsPart>>

EventsInit == Init /\ AlertInit /\ eventsPart \in {"motion", "alerts"}
          /\ (eventsPart = "motion" => \A u \in People : role[u] = "viewer")
EventsNext == InMotion(Next) \/ InAlerts(AlertNext)
EventsSpec == EventsInit /\ [][EventsNext]_<<vars, alertVars, eventsPart>>
          /\ WF_<<vars, alertVars, eventsPart>>(InMotion(Tick)) /\ WF_<<vars, alertVars, eventsPart>>(InMotion(Reap))
EventsTypeOK == TypeOK /\ AlertTypeOK

(* The types, and of the alert centre: nothing is read that was neither    *)
(* marked by itself nor listed when all were marked (ReadWasListed).       *)
EventsInv == EventsTypeOK /\ ReadWasListed
=============================================================================
