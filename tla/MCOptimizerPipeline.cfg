SPECIFICATION Spec
CONSTANTS
  NULL = NULL
  LikeTable <- MCLike
  Plans <- MCPlans
  Filters <- MCFilters
  Bundles <- MCBundles
  Principals <- MCPrincipals
  Rows <- MCRows
  ColumnType <- MCColumnType
  Seeded <- MCSeeded
  Slack = 0
  MaxPasses = 3
  MaxQueries = 2
INVARIANTS
  TypeOK
  EveryScanJudged
  ReadsPermittedRows
  MaskedOnTheWay
  DebitsAreNoise
  RefusedIsFree
  RefusalsAuditedOnce
CHECK_DEADLOCK FALSE
