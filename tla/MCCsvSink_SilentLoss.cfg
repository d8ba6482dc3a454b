SPECIFICATION Spec
CONSTANTS
  Capacity = 4
  MaxRows = 5
INVARIANTS
  NoSilentLoss
