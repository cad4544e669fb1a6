SPECIFICATION EventsSpec
CONSTANTS
  Cameras = {c1}
  Users = {u1}
  Tabs <- OneTab
  MinStart = 1
  MinEnd = 1
  MinDuration = 1
  RateLimit = 2
  ReapAge = 2
  PostRoll = 1
  Coalesce = 2
  DayLength = 3
  Week = 2
  Strong = {1, 2}
  ClipAtEnd = {2}
  Prefs <- SomePrefs
  Chosen <- NotifyAll
  MaxStored = 2
  MaxMotions = 2
  MaxChanges = 1
  People = {u1, u2}
  Faults = {f1}
  Lines = {l1}
  Motions = {m1}
  MaxActs = 4
  MaxTime = 4
INVARIANT EventsInv
PROPERTIES EventsClose NothingNotifiedTwice
CHECK_DEADLOCK FALSE
