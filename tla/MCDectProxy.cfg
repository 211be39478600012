CONSTANTS
  c1 = c1
  c2 = c2
  c3 = c3
  Client <- MCThree
  None = None
  MaxFd = 3
  SocketSize = 1
  MaxMails = 2
  MaxPieces = 1
SPECIFICATION Spec
INVARIANTS ProxyTypeOK SelectsOpen NoneBehind
PROPERTY ImplementsBus
SYMMETRY MCSymmetry
CHECK_DEADLOCK FALSE
