\* Each of these is violated (see the findings in README.md).  TLC stops at the
\* first one it meets: check them one at a time.
SPECIFICATION MCSpec
CONSTANTS
  Sids = {s1, s2}
  Workers = {w1, w2}
  OwnerOf <- Owners
  CacheTTL = 1
  Flush = 1
  Idle = 2
  Absolute = 3
  Horizon = 3
  MaxRequests = 4
  Users = {admin, u1, u2}
  Admins = {admin}
  Threads = {t1, t2}
  Passwords = {1, 2}
  Ladder <- Rungs
  Challenge = 2
  RecoveryKeys = {1}
  RemotePolicy = TRUE
  Founders = {admin, u1}
  Enrolled = {u1}
  MaxIssued = 2
  MaxHandled = 3
  Window = 1
  Block = 1
  Ticks = 2
  Links = {l1}
  Terms <- SomeTerms
  Visitors <- SomeVisitors
  Servers = {v1, v2}
  MaxAsked = 4
CHECK_DEADLOCK FALSE
INVARIANT RevokedWithinTTL
INVARIANT EveryGuessLimited
INVARIANT ChangesKept
INVARIANT DeletedSignedOut
INVARIANT EveryLinkKeepsTerms
PROPERTY LockLasts
