CONSTANTS
  Handlers = {h1, h2}
  Sessions = {s1, s2, s3}
  NoSession = NoSession
  Wait = 2
  MaxMessages = 4
SPECIFICATION FairSpec
INVARIANTS
  TypeOK
  EveryEntryIsTimed
PROPERTIES
  
  Forgotten
CHECK_DEADLOCK FALSE
