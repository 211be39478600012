CONSTANTS
  MaxNrHandsets = 2
  Terminals = {}
  IdLists = {}
  Ipuis = {a, b}
  NoIpui = "zeroes"
  Commands <- MCCommands
  Data = {0, 1, 2}
  Files <- MCFiles
  MaxTimers <- MCTimers
  UserCommands <- MCSwitching
  Configs = {"DISABLED", "ENABLED", "AUTO"}
  Paired <- MCPaired
  MaxCommands = 3
  MaxAir = 1
SPECIFICATION System
INVARIANTS SystemTypeOK RadioInStep WindowIsReal NoGhostHandset OwnIdentity RefusalIsUndone RingingIsReleased
SYMMETRY MCSymmetry
CHECK_DEADLOCK FALSE
