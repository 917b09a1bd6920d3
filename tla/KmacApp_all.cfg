CONSTANTS
  NumApps = 2
  KmacApps = {0}
  MsgLen = 2
  MaxReqs = 2
  MaxFed = 1
  SwKinds = {"orderly", "free"}
SPECIFICATION FairSpec
INVARIANTS TypeOK AnswerIsOwn DoneWhenWaiting 
           SwSeesOwnHash
PROPERTIES EveryRequestEnds
