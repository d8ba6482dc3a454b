SPECIFICATION ReplaySpec
CONSTANTS
  Key = {1, 2}
  KTop = 1
  Qty = {0, 1, 2}
  MaxId = 3
  Venue = "Spot"
  Histories <- MCHistories
  KMaxBuffer = 2
  MaxOverflows = 2
  IntegrateTrades = TRUE
  MaxEpoch = 1
  MaxNoise = 1
  Sidecars = {TRUE, FALSE}
CHECK_DEADLOCK FALSE
INVARIANTS
  ReplayFaithful
  ReproducesLive
