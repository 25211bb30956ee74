\* Two names, two authentications at a time; two allocations over every port
\* range of three port numbers.
SPECIFICATION TurnSpec
CONSTANTS
  n1 = n1  n2 = n2  p1 = p1  p2 = p2  a1 = a1  a2 = a2
  No = No  Either = Either  Failure = Failure
  Names <- TwoNames
  Passwords <- TwoPasswords
  Callers <- Two
  Width = 3
  Tries = 2
  Allocs <- Two
  Requested = {1}
  OtherPorts = {1}
  Responses <- SomeResponses
  Minute = 2  Second = 1  MaxTime = 3
INVARIANTS
  AnsweredAsGranted
  LookupAsGranted
  PortsInRange
  SocketsHeld
  RelayedSomewhere
PROPERTIES
  LoopGoesOn
  RelaySpec
  CacheInTime
CHECK_DEADLOCK FALSE
