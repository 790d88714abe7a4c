SPECIFICATION Spec
CONSTANTS
  sum = sum
  region = region
  avg = avg
  e1 = e1
  e2 = e2
  Execs = {e1}
  Partitions = {1, 2}
  Schema <- MCSchema
  Epsilon <- MCEpsilon
  Noisable <- MCNoisable
  Seeded <- MCSeeded
  Slack = 0
  MaxBatches = 1
  MaxRuns = 1
CHECK_DEADLOCK FALSE
INVARIANT
  EnvelopeIsTotal
