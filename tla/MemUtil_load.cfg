CONSTANTS
  Lim = 8
  Areas <- MCAreas
  Memories <- MCMemories
  KeyScopes <- MCKeyScopes
  Callers <- MCCallers
  MaxAreas = 2
  MaxFile = 3
  MaxSize = 3
  MaxWork = 4
SPECIFICATION Spec
INVARIANTS TypeOK RegistryConsistent StagedIsImage LoadedIsImage NamedIsImage
CHECK_DEADLOCK FALSE
