CONSTANTS
  Writers = {w1, w2}
  PongWait = 2
SPECIFICATION FairSessionSpec
INVARIANTS
  SessionOK
PROPERTIES
  WritesEnd
  GoneIsForgotten
CHECK_DEADLOCK FALSE
