SPECIFICATION Spec
CONSTANTS
  Duration = 60
  MaxEpoch = 5
  MaxSeq = 3
INVARIANTS
  TypeOK
  StopsPromptly
PROPERTIES
  FramesConsecutive
  StopHonoured
