\* A login is required for TURN, and one of two connections has none.
SPECIFICATION Spec
CONSTANTS
  c1 = c1  c2 = c2  c3 = c3
  s1 = s1  s2 = s2  s3 = s3  s4 = s4
  Clients <- Pair
  LoggedIn <- FirstOnly
  SessionIDs <- TwoIDs
  Names = {"n1"}
  RoomIDs = {"r1"}
  NoRoom = ""
  AuthMode = "turn"
  CreateModes <- TurnModes
INVARIANT LoginRequired
