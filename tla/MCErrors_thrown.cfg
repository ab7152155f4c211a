\* One script throws.
CONSTANTS
  Promises = {p1}
  MaxDepth = 2
  MaxCalls = 1
  MaxEvents = 1
SYMMETRY PromiseSymmetry
SPECIFICATION ErrorsSpec
CHECK_DEADLOCK FALSE
INVARIANTS
  ExceptionsAreJSErrors
