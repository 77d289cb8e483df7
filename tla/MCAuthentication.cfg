CONSTANTS
  a1 = a1
  a2 = a2
  k1 = k1
  k2 = k2
  Goroutines = {g1, g2, g3}
  Auths = {a1, a2}
  Keys = {k1, k2}
  KeyOf <- MCKeyOf
  Blank = Blank
SYMMETRY Symmetry
SPECIFICATION Spec
INVARIANTS
  TypeOK
  WaitersAreWoken
  ReadKeysAreWhole
CHECK_DEADLOCK FALSE
