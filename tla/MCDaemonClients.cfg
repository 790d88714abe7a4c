SPECIFICATION Spec
CONSTANTS
  None = None
  Callers = {c1, c2}
  Sizes = {0, 2}
  MaxVersions = 2
  MaxCalls = 3
SYMMETRY Symmetry
INVARIANTS
  ReadIsWhatWasAsked
CHECK_DEADLOCK FALSE
