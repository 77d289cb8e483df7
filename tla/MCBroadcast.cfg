CONSTANTS
  l1 = l1  l2 = l2  l3 = l3
  None = None
  Listeners <- MCListeners
  Matching <- MCMatching
  Prevented <- MCPrevented
  InitialCap <- MCInitialCap
  MaxWrites <- MCMaxWrites
SPECIFICATION BroadcastSpec
SYMMETRY MCSymmetry
CHECK_DEADLOCK FALSE
INVARIANTS
  SliceOK
  NothingForTheGone
  OneSidedIsExact
