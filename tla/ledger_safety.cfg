SPECIFICATION Spec
CONSTANTS
  Runs = {r1, r2, r3}
  l1 = l1
  l2 = l2
  l3 = l3
  Lines = {l1, l2, l3}
  Cap = 2
  Batches <- SharedBatches
  NoRow = NoRow
SYMMETRY Symmetry
INVARIANTS
  TypeOK
  LedgerInv
  PostedIsThere
  NoDraftDroppedWithRoom
PROPERTIES
  RowsAreFinal
  KeepsPromise
CHECK_DEADLOCK FALSE
