CONSTANTS
  h1 = h1  h2 = h2
  None = None
  Events <- MCEvents
  Class <- MCClass
  Author <- MCAuthor
  Slot <- MCSlot
  Date <- MCDate
  Tags <- MCTags
  Handlers <- MCHandlers
  Outcomes <- MCOutcomes
  HearsTop = FALSE
  MaxReceived = 3
  MaxFaults = 1
SPECIFICATION Spec
SYMMETRY MCSymmetry
CHECK_DEADLOCK FALSE
INVARIANTS
  TypeOK
  AcknowledgedIsKept
  DeletionTakesEffect
  SentOncePerSave
  OneVersion
