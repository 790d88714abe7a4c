SPECIFICATION FairSpec
CONSTANTS
  t1 = t1
  t2 = t2
  q1 = q1
  q2 = q2
  empty = empty
  small = small
  huge = huge
  Tenants = {t1, t2}
  Sqls = {q1, q2}
  Results = {empty, small, huge}
  ByteSize <- MCByteSize
  max_entries = 3
  max_bytes = 5
  ttl = 1
INVARIANTS
  TypeOK
  HeldIsSum
  CounterCoversContents
  WithinBudgetOrAlone
  DriftBounded
  EntryCapRespected
PROPERTIES
  DriftOnlyResetByInvalidateAll
  ImplementsContract
  LockReleased
