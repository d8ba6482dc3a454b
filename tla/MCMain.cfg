SPECIFICATION Spec
CONSTANTS
  Symbol = {A, B, C}
  A = A
  B = B
  C = C
  MaxTokens = 3
  ShardArgs <- MCShardArgs
  MaxArgs = 2
  KMaxCombinedStreams = 7
  Builds = {TRUE, FALSE}
  PeerAnswers = TRUE
CHECK_DEADLOCK FALSE
INVARIANTS
  ShardsFit
  ExitCodeTells
PROPERTIES
  Ends
