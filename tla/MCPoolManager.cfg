SPECIFICATION Spec
CONSTANTS
  a1 = a1
  a2 = a2
  b1 = b1
  tA = tA
  tB = tB
  q = q
  Tasks = {a1, a2, b1}
  Tenants = {tA, tB}
  TenantOf <- MCTenantOf
  SqlOf <- MCSqlOf
  worker_count = 2
  queue_depth = 1
  DrainPolls = 1
  MaxPanics = 1
SYMMETRY Symmetry
CHECK_DEADLOCK FALSE
INVARIANTS
  TypeOK
  OnePlace
  InFlightExact
  RowsOfOwnKey
  DroppedOnlyByDeadWorker
