SPECIFICATION Spec
CONSTANTS
  w1 = w1
  w2 = w2
  t1 = t1
  t2 = t2
  q1 = q1
  Workers = {w1, w2}
  Tenants = {t1}
  Sqls = {q1}
  TTL = 1
  MaxVersion = 1
  MaxPushes = 0

PROPERTY
  InvalidatedEntriesNotServed
