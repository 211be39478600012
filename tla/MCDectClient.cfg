CONSTANTS
  MaxNrHandsets = 3
  Terminals = {1, 2}
  IdLists <- MCIdLists
  Ipuis = {"zeroes"}
  NoIpui = "zeroes"
  Commands <- MCCommands
  Data = {0, 1, 2}
  Files <- MCFiles
  MaxTimers <- MCTimers
  MaxNrPhones = 1
  Invocation = {"first", "second"}
  CommandLines <- MCCommandLines
  StackPackets <- MCStackPackets
  MaxPackets = 1
SPECIFICATION FairClientSpec
INVARIANTS ClientTypeOK RequestsMeanOptions
PROPERTIES ListingIsFresh EndsUnlessCut
CHECK_DEADLOCK FALSE
