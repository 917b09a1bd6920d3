CONSTANTS
  Lim = 8
  Areas <- MCAreas
  Memories <- MCMemories
  KeyScopes <- MCKeyScopes
  Callers <- MCCallers
  MaxAreas = 2
  MaxFile = 1
  MaxSize = 1
  MaxWork = 1
SPECIFICATION Spec
INVARIANTS ClashIsReported
CHECK_DEADLOCK FALSE
