SPECIFICATION Spec
CONSTANTS
  Depth = 2
  Lane = {l1, l2}
  Val = {0, 1}
  Data <- MCWords
  Masks <- MCMasks
  Nonce = {"plain", "swap"}
  Phys <- MCPhys
  Garbage = Garbage
  Stale = Stale
  None = None
INVARIANTS
  TypeOK
  NoOverrun
  UndeliveredReadable
PROPERTY
  ImplementsMemory
