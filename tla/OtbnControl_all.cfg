SPECIFICATION Spec
CONSTANTS
  Dmem = dmem
  Imem = imem
  Idle = idle
  LastWdr = 1
  LastBase = 1
  MaxKeys = 3
INVARIANTS
  TypeOK
  StatusTruthful
  NoFalseAlarm
  UnansweredIsFatal
  FatalRekeys
  RegistersWiped
PROPERTIES
  FeedsKeyPort
  WipesEnd
