SPECIFICATION Spec
CONSTANTS
  Conns = {c1, c2}
  Identities = {i1, i2}
  MaxId = 2
  MaxCommands = 1
  MaxBytes = 5
  RowBytes = 4
  MaxWal = 2
  NormalBatch = 2
  AnomalousBatch = 1
SYMMETRY Symmetry
INVARIANTS EvidenceOfRecord RefusalsAreExplained
PROPERTIES BaselineInForce
CHECK_DEADLOCK FALSE
