\* Close races everything.  No symmetry: liveness.
CONSTANTS
  Goroutines = {g1, g2}
  NoOne = NoOne
  Values = {v1, v2}
  HostFns = {f1, f2}
  NoValue = NoValue
  NoFn = NoFn
  Recovers = FALSE
SPECIFICATION HandlesFairSpec
CHECK_DEADLOCK FALSE
INVARIANTS
  HandlesTypeOK
  NoHostFunctionLeak
  FunctionStaysCallable
  ValidIsLive
  CloseInvalidates
  ContextFreedOnce
  MemorySafe
PROPERTIES
  RegistryDrains
