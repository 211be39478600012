CONSTANTS
  MaxNrHandsets = 2
  Terminals = {1, 3}
  IdLists <- MCIdLists
  Ipuis = {"zeroes"}
  NoIpui = "zeroes"
  Commands <- MCCommands
  Data = {0, 1, 2}
  Files <- MCFiles
  MaxTimers <- MCTimers
SPECIFICATION Spec
PROPERTY OwnTimerClosesWindow
CHECK_DEADLOCK FALSE
