SPECIFICATION Spec
CONSTANTS
  Duration = 60
  MaxEpoch = 5
  MaxSeq = 3
PROPERTIES
  Reconnects
