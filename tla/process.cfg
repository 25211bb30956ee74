\* Settings that vary in one group at a time; port numbers of six values; two
\* requests.  The process ends.
SPECIFICATION ProcessSpec
CONSTANTS
  r1 = r1  r2 = r2  listenErr = listenErr  serveErr = serveErr  timeoutErr = timeoutErr
  Width = 6
  Settings <- MCSettings
  Requests <- TwoRequests
  ServeErrors <- OwnErrors
  ShutdownErrors <- OneTimeout
  Closed = Closed
  NoError = NoError
INVARIANTS
  AddressesAsConfigured
  ServesWhole
  ResultTrue
PROPERTY ProcessEnds
CHECK_DEADLOCK FALSE
