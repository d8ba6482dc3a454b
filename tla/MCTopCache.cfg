SPECIFICATION Spec
CONSTANTS
  Price = {1, 2, 3, 4, 5, 6}
  Qty = {0, 1, 2}
  KTopCache = 4
  Visible = 2
  Snapshots <- MCSnapshots
INVARIANTS
  TypeOK
  RowIsTopOfBook
  CacheSound
  RebuildOrderFree
