CONSTANTS
  RomDepth = 5
  TopCount = 2
  Half = {0, 1}
  Rom <- MCRom
  None = None
  KmacMisbehaves = TRUE
SPECIFICATION FairSpec
INVARIANTS TypeOK HashedInOrder ExpDigestComplete
           GoodMeansCompared NoSpontaneousAlert
PROPERTIES ReleaseIsStable ImplementsGate CheckEnds
