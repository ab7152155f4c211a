\* Four calls, nested in host functions and hooks up to five frames.
CONSTANTS
  Promises = {p1, p2}
  MaxDepth = 5
  MaxCalls = 4
  MaxEvents = 3
SYMMETRY PromiseSymmetry
SPECIFICATION ErrorsSpec
CHECK_DEADLOCK FALSE
INVARIANTS
  ExceptionCountIsExact
  HooksRunUnlocked
