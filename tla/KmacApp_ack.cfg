CONSTANTS
  NumApps = 2
  KmacApps = {0}
  MsgLen = 2
  MaxReqs = 1
  MaxFed = 1
  SwKinds = {"eager"}
SPECIFICATION Spec
PROPERTIES RefusalIsFlushed
