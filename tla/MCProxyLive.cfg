CONSTANTS
  c1 = c1
  c2 = c2
  c3 = c3
  Client <- MCTwo
  None = None
  MaxFd = 2
  SocketSize = 1
  MaxMails = 2
  MaxPieces = 2
SPECIFICATION FairSpec
PROPERTIES EventuallyComplete WritesReachDevice LeftIsClosed
CHECK_DEADLOCK FALSE
