SPECIFICATION Spec
CONSTANTS
  Dmem = dmem
  Imem = imem
  Idle = idle
  LastWdr = 1
  LastBase = 1
  MaxKeys = 3
INVARIANT
  AckAnswersRequest
