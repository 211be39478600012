CONSTANTS
  MaxNrHandsets = 1
  Terminals = {}
  IdLists = {}
  Ipuis = {"a"}
  NoIpui = "zeroes"
  Commands <- MCCommands
  Data = {0, 1}
  Files <- MCNoFiles
  MaxTimers <- MCTimers
  UserCommands <- MCOverriding
  Configs = {"ENABLED", "AUTO"}
  Paired <- MCUnpaired
  MaxCommands = 2
  MaxAir = 2
SPECIFICATION FairSystem
PROPERTIES WindowEnds DelayedStartEnds PingEnds AutoRadioSettles RegistrationIsListed
CHECK_DEADLOCK FALSE
