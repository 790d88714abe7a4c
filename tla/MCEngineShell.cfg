SPECIFICATION Spec
CONSTANTS
  None = None
  Configs <- MCConfigs
  Bundles = {b1}
  Tables = {t1}
  Pieces <- MCPieces
  Chars <- MCChars
  MaxPieces = 4
INVARIANTS
  NothingUnguardedRuns
  OnlyUnsafeTurnedAway
CHECK_DEADLOCK FALSE
