SPECIFICATION Spec
CONSTANTS
  Capacity = 4
  MaxRows = 5
INVARIANTS
  TypeOK
  RowsPreserved
  NoSlotRace
  FlushDurable
  CloseComplete
PROPERTIES
  CallsReturn
  RingIsQueue
