------------------------- MODULE LoginRateLimiter -------------------------
(***************************************************************************)
(* The failed attempts of one address, kept in a file and shared by        *)
(* logins, second factors and visitors of share links.  check and record   *)
(* are two locked regions.                                                 *)
(***************************************************************************)
EXTENDS Integers, Sequences, FiniteSets

CONSTANTS
  Window,  \* RATE_LIMIT_WINDOW
  Block,   \* RATE_LIMIT_BLOCK
  Ticks    \* bound: the clock

ASSUME LimiterAssumption == Window \in Nat /\ Block \in Nat \ {0} /\ Ticks \in Nat \ {0}

VARIABLES
  clock,
  attempts  \* times of the recorded attempts

\* times are recorded in their order: those before the cutoff come first
Outdated(times) == Cardinality({i \in DOMAIN times : times[i] < clock - Window})
InWindow(times) == SubSeq(times, Outdated(times) + 1, Len(times))
Allowed == Len(InWindow(attempts)) < Block
LastOnes(s, n) == SubSeq(s, IF Len(s) > n THEN Len(s) - n + 1 ELSE 1, Len(s))

\* mutant of Record: one attempt fewer is kept than blocks
Record_KeepsFewer == attempts' = LastOnes(Append(InWindow(attempts), clock), Block - 1)

Record == attempts' = LastOnes(Append(InWindow(attempts), clock), Block)
=============================================================================
