CONSTANTS
  Packet = {"short", "long"}
  Size <- MCSize
  HeaderSize = 2
  Garbage = "garbage"
  MaxSent = 3
SPECIFICATION FairSpec
INVARIANTS StreamTypeOK NothingLeftBehind
PROPERTIES ImplementsChannel HandledUnlessCut
CHECK_DEADLOCK FALSE
