CONSTANTS
  NumApps = 2
  KmacApps = {0}
  MsgLen = 2
  MaxReqs = 1
  MaxFed = 1
  SwKinds = {"orderly"}
SPECIFICATION Spec
INVARIANTS EngineAccepts
