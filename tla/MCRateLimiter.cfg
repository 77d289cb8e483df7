CONSTANTS
  NoBucket = NoBucket
  NoKey = NoKey
  Keys = {k1}
  Callers = {c1, c2, c3}
  Buckets = {b1, b2, b3, b4}
  TokensPerInterval = 1
  MaxTokens = 2
SPECIFICATION FairSpec
INVARIANTS
  TypeOK
  OvershootBounded
  BurstBounded
PROPERTY LimitedIsNotForGood
