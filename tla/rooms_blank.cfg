\* The empty string is among the room names requests carry.
SPECIFICATION Spec
CONSTANTS
  c1 = c1  c2 = c2  c3 = c3
  s1 = s1  s2 = s2  s3 = s3  s4 = s4
  Clients <- Pair
  LoggedIn <- Nobody
  SessionIDs <- TwoIDs
  Names = {"n1"}
  RoomIDs = {"", "r1"}
  NoRoom = ""
  AuthMode = "none"
  CreateModes <- TurnOnly
INVARIANT OneRoomPerClient
