CONSTANTS
  Owners = {a, b}
  Handlers = {h1, h2, h3}
  Times = {t1, t2}
  MaxRequests = 5
  MaxFaults = 1
SYMMETRY Symmetry
SPECIFICATION Spec
INVARIANTS
  TypeOK
  AckedIsStored
  IndexMatchesStorage
CHECK_DEADLOCK FALSE
