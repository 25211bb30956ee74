\* Two rooms, three connections, up to four sessions at a time.
SPECIFICATION Spec
CONSTANTS
  c1 = c1  c2 = c2  c3 = c3
  s1 = s1  s2 = s2  s3 = s3  s4 = s4
  Clients <- Trio
  LoggedIn <- Nobody
  SessionIDs <- FourIDs
  Names = {"n1"}
  RoomIDs = {"r1", "r2"}
  NoRoom = ""
  AuthMode = "none"
  CreateModes <- TurnOnly
SYMMETRY Interchangeable
INVARIANTS
  TypeOK
  Registered
  Placement
  RoomsAttended
  SessionEnds
  StreamsReachEveryone
  CredentialsOfSessions
  GaugesMatch
  EndsTold
  RelayedToOtherEnd
PROPERTIES
  SessionsLast
  MeetingSpec
