SPECIFICATION Spec
CONSTANTS
  Alphabet = {45, 46, 48, 49, 50, 55, 56, 120}
  MaxLen = 6
  ScalePow = 2
  IntMax = 127
CHECK_DEADLOCK FALSE
INVARIANTS
  ScaledExact
