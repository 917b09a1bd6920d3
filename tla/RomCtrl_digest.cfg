CONSTANTS
  RomDepth = 5
  TopCount = 2
  Half = {0, 1}
  Rom <- MCRom
  None = None
  KmacMisbehaves = FALSE
SPECIFICATION Spec
INVARIANTS GoodMeansEqual
