CONSTANTS
  Script = {"one", "two"}
  Bits = {0, 1}
  NoFile = NoFile
  NvsFiles <- MCNvsFiles
SPECIFICATION FairSpec
INVARIANTS TestTypeOK DumpTellsTestMode
PROPERTIES OnlyTheTestBit TestModeTakesEffect
CHECK_DEADLOCK FALSE
