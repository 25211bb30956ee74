\* Login for TURN rooms: one of two connections is logged in; two rooms, two
\* display names and every mode.  Liveness, so no symmetry.
SPECIFICATION FairSpec
CONSTANTS
  c1 = c1  c2 = c2  c3 = c3
  s1 = s1  s2 = s2  s3 = s3  s4 = s4
  Clients <- Pair
  LoggedIn <- FirstOnly
  SessionIDs <- TwoIDs
  Names = {"n1", "n2"}
  RoomIDs = {"r1", "r2"}
  NoRoom = ""
  AuthMode = "turn"
  CreateModes <- EveryMode
INVARIANT ViewsCurrent
PROPERTY BrokenLeave
