SPECIFICATION StoreSpec
CONSTANTS
  Item = {i1, i2}
  Qty = {1, 2}
  Storekeeper = {w1, w2}
  MaxMoves = 5
  MaxStock = 3
SYMMETRY Symmetry
CHECK_DEADLOCK FALSE
INVARIANTS LedgerRight
PROPERTIES DeactivationSticks
