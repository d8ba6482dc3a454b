SPECIFICATION Spec
CONSTANTS
  Bid = Bid
  Ask = Ask
  Key <- MCKey
  Qty = {0, 1, 2}
  MaxId = 4
  Venue = "Spot"
  Histories <- MCHistories
  KMaxBuffer = 3
  MaxOverflows = 1
INVARIANTS
  TypeOK
  BookFaithful
  NeverBehind
  DrainedWhenLive
  BufferBounded
  GapIsReal
PROPERTIES
  ForwardOnly
