SPECIFICATION Spec
CONSTANTS
  Key = {1}
  KTop = 1
  Qty = {0, 1, 2, 3}
  MaxId = 4
  Venue = "Spot"
  Histories <- MCHistories
  KMaxBuffer = 2
  MaxOverflows = 1
  IntegrateTrades = TRUE
  MaxEpoch = 1
  MaxNoise = 1
CHECK_DEADLOCK FALSE
INVARIANTS
  TypeOK
  RowsFaithful
  BufferOfOneEpoch
  AppliedIsRecorded
  StuckOnlyByRest
PROPERTIES
  UsesSession
  RowsCurrent
  HandlerReturns
