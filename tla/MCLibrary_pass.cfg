\* With these constants TLC also finds violated (the findings in README.md), each
\* checked by itself in place of what is listed below:
\* OrphanIsKnown, SnapshotPossible, FindsCovering (state predicates),
\* DateIsGone, OldestFirst, OneAlertPerCrossing (temporal formulas).
SPECIFICATION LibrarySpec
CONSTANTS
  Capacity = 4
  Marks <- SomeMarks
  Headroom = 1
  Reserve = 1
  MaxDelete = 1
  DayLength = 2
  Old <- OldClips
  MaxTime = 5
  MaxInterventions = 2
INVARIANT LibraryInv
PROPERTY RetentionRecovers
CHECK_DEADLOCK FALSE
