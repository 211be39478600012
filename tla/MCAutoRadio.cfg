CONSTANTS
  MaxNrHandsets = 1
  Terminals = {}
  IdLists = {}
  Ipuis = {"a"}
  NoIpui = "zeroes"
  Commands <- MCCommands
  Data = {0, 1}
  Files <- MCNoFiles
  MaxTimers <- MCTimers
  UserCommands <- MCPlain
  Configs = {"AUTO"}
  Paired <- MCUnpaired
  MaxCommands = 3
  MaxAir = 1
SPECIFICATION FairSystem
PROPERTY AutoKeepsRadio
CHECK_DEADLOCK FALSE
