SPECIFICATION Spec
CONSTANTS
  Dests = {"Kmac", "Otbn"}
  EntropyRounds = 2
  MaxInUse = 1
  Clears = {{}, {"Otbn"}}
INVARIANTS
  TypeOK
  KeysMatchState
  Forgotten
  NoFalseFault
PROPERTIES
  OperationsEnd
  OutputMatchesRequest
