CONSTANTS
  r1 = r1
  r2 = r2
  new = new
  Requests <- MCRequests
  Sub <- MCSub
  Filters <- MCFilters
  Events <- All
  OldEvents = {}
  Queries = 2
  MaxFaults = 1
  MaxCloses = 1
SPECIFICATION FairSpec
INVARIANTS
  TypeOK
  StoredBeforeEose
PROPERTIES
  NothingMissedAfterEose
  EveryReqEnds
  ImplementsClientView
CHECK_DEADLOCK FALSE
