CONSTANTS
  Events <- MCEvents
  Expires <- MCExpires
  Older <- MCOlder
  Stores = 2
  MaxTime = 2
  MaxSaves = 2
  MaxDeletions = 1
  MaxFaults = 1
  MaxRestarts = 1
SPECIFICATION FairSpec
INVARIANTS
  TypeOK
  NothingForgotten
PROPERTY
  ExpiredGoes
