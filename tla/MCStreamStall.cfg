CONSTANTS
  Packet = {"short", "long"}
  Size <- MCSize
  HeaderSize = 2
  Garbage = "garbage"
  MaxSent = 3
SPECIFICATION Spec
INVARIANT EntirePacketHandled
CHECK_DEADLOCK FALSE
