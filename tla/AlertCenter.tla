---------------------------- MODULE AlertCenter ----------------------------
(***************************************************************************)
(* The alert inbox: alerts are derived on every read from open faults,     *)
(* audit lines and ended motions; only who has read what is stored.  An    *)
(* alert is its identifier; faults come and go under the same one.         *)
(* Marking all computes the list first and takes the lock afterwards.      *)
(***************************************************************************)
EXTENDS Naturals, FiniteSets

CONSTANTS
  People,      \* user names
  Faults, Lines, Motions,  \* identifiers of alerts: fault:, audit:, motion:
  MaxActs      \* bound: steps of the users

AlertIds == Faults \cup Lines \cup Motions
Sources == {"fault", "audit", "motion", "all"}

ASSUME AlertAssumption ==
  /\ Faults \cap Lines = {} /\ Faults \cap Motions = {} /\ Lines \cap Motions = {}
  /\ MaxActs \in Nat

VARIABLES
  present,  \* alerts the sources hold now
  role,     \* of each user: chosen when the account is created
  read,     \* the read-state file, as in memory
  marking,  \* of each user: the list a mark-all-read in progress has computed
  clicked,  \* history, of each name: alerts marked one by one
  listed,   \* history, of each name: alerts there were to be seen, under the filter, when
            \* all were to be marked
  news,     \* of each user: alerts that appeared since the user last marked them
  acts

alertVars == <<present, role, read, marking, clicked, listed, news, acts>>

AlertTypeOK ==
  /\ present \subseteq AlertIds /\ role \in [People -> {"admin", "viewer"}]
  /\ read \in [People -> SUBSET AlertIds] /\ marking \in [People -> SUBSET AlertIds]
  /\ clicked \in [People -> SUBSET AlertIds] /\ listed \in [People -> SUBSET AlertIds]
  /\ news \in [People -> SUBSET AlertIds] /\ acts \in 0..MaxActs

AlertInit ==
  /\ present = {} /\ role \in [People -> {"admin", "viewer"}]
  /\ read = [u \in People |-> {}] /\ marking = read /\ clicked = read /\ listed = read
  /\ news = read /\ acts = 0

\* What a role may see: audit lines are for administrators.
Computed(r) == {a \in present : a \in Lines => r = "admin"}

Filtered(s) == CASE s = "fault" -> Faults [] s = "audit" -> Lines [] s = "motion" -> Motions [] OTHER -> AlertIds

Unread(u) == Computed(role[u]) \ read[u]

Act == acts < MaxActs /\ acts' = acts + 1

\* A heartbeat reports a fault, a line is logged, a motion ends.
Appear(a) ==
  /\ a \notin present /\ present' = present \cup {a}
  /\ news' = [u \in People |-> news[u] \cup {a}] /\ Act /\ UNCHANGED <<role, read, marking, clicked, listed>>

\* The fault is no longer reported.  Lines and motions age out for good.
Vanish(a) ==
  /\ a \in present \cap Faults /\ present' = present \ {a} /\ Act
  /\ UNCHANGED <<role, read, marking, clicked, listed, news>>

\* One alert, by its identifier: whether there is one, and for whom, is not asked.
MarkRead(u, a) ==
  /\ read' = [read EXCEPT ![u] = @ \cup {a}]
  /\ clicked' = [clicked EXCEPT ![u] = @ \cup {a}]
  /\ news' = [news EXCEPT ![u] = @ \ {a}] /\ Act /\ UNCHANGED <<present, role, marking, listed>>

MarkAllBegin(u, s) ==
  /\ marking[u] = {} /\ marking' = [marking EXCEPT ![u] = Unread(u) \cap Filtered(s)] /\ Act
  /\ listed' = [listed EXCEPT ![u] = @ \cup
                  {a \in present \cap Filtered(s) : a \in Lines => role[u] = "admin"}]
  /\ UNCHANGED <<present, role, read, clicked, news>>

\* mutant of MarkAllEnd: the list is made again under the lock
MarkAllEndAnew(u) ==
  /\ marking[u] # {} /\ read' = [read EXCEPT ![u] = @ \cup Computed(role[u])]
  /\ news' = [news EXCEPT ![u] = @ \ Computed(role[u])]
  /\ marking' = [marking EXCEPT ![u] = {}] /\ UNCHANGED <<present, role, clicked, listed, acts>>

MarkAllEnd(u) ==
  /\ marking[u] # {} /\ read' = [read EXCEPT ![u] = @ \cup marking[u]]
  /\ news' = [news EXCEPT ![u] = @ \ marking[u]]
  /\ marking' = [marking EXCEPT ![u] = {}] /\ UNCHANGED <<present, role, clicked, listed, acts>>

\* A user is deleted and one of the same name created, perhaps while a request of the
\* first is in progress: forget_user has no caller.
Recreate(u, r) ==
  /\ news' = [news EXCEPT ![u] = AlertIds] /\ Act
  /\ role' = [role EXCEPT ![u] = r]
  /\ UNCHANGED <<present, read, marking, clicked, listed>>

AlertNext ==
  \/ \E a \in AlertIds : Appear(a) \/ Vanish(a)
  \/ \E u \in People : MarkAllEnd(u) \/ (\E s \in Sources : MarkAllBegin(u, s))
                       \/ (\E a \in AlertIds : MarkRead(u, a)) \/ (\E r \in {"admin", "viewer"} : Recreate(u, r))

AlertSpec == AlertInit /\ [][AlertNext]_alertVars

\* What is read was marked by itself, or was there to be seen, by the role and under the
\* filter of the request, when a mark-all-read was made: an alert that appears while
\* its list is being marked stays unread, and a viewer's mark-all leaves the audit
\* alerts unread for an administrator who gets the name meanwhile or later
\* (mark_all_read, which takes the lock after it has made its list).
ReadWasListed == \A u \in People : read[u] \subseteq clicked[u] \cup listed[u]

\* What is new to an account is not read: neither a fault that is raised
\* again after an earlier occurrence was read, nor anything at all for an
\* account created under a name that was used before.
NewsIsUnread == \A u \in People : present \cap news[u] \cap read[u] = {}
=============================================================================
