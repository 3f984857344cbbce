SPECIFICATION IndexerSpec
CONSTANTS
  Pollers = {p1, p2}
  Batches <- MCBatches
  Window = 1
  Limit = 3
  Spellings = {plain, upper}
  Plain = plain
  MaxLedger = 3
  MaxFaults = 1
SYMMETRY Symmetry
INVARIANT IndexerTypeOK
INVARIANT NothingSkipped
INVARIANT NothingHidden
CHECK_DEADLOCK FALSE
