\* Two tabs, one user, two runs of the server; two health
\* checks and up to two connections.  The bounds end it.
SPECIFICATION RouterSpec
CONSTANTS
  u1 = u1  p1 = p1  p2 = p2  t1 = t1  t2 = t2  h1 = h1  h2 = h2
  Users <- OneUser
  Passwords <- TwoPasswords
  Tabs <- TwoTabs
  UserFiles <- SomeUserFiles
  Timeouts = {1}
  StoreAge = 1
  Allowed <- NoOrigins
  MaxTime = 2  MaxRuns = 2
  Calls <- TwoCalls
  Empty = Empty
  Down = Down
  Max = 2
SYMMETRY Symmetry
INVARIANTS
  VouchedFor
  CountTrue
CHECK_DEADLOCK FALSE
