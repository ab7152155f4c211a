\* Two goroutines over two threads, three calls deep, Dispose at any time.
\* No symmetry: liveness.
CONSTANTS
  Goroutines = {g1, g2}
  Threads = {t1, t2}
  NoThread = NoThread
  NoOne = NoOne
  MaxFrames = 3
  MaxContexts = 1
SPECIFICATION FairSpec
CHECK_DEADLOCK FALSE
INVARIANTS
  TypeOK
  OneActiveCaller
  LeaveNeverPanics
  PinsMatchFrames
  DisposedOnce
  NoUseAfterDispose
PROPERTIES
  ImplementsGuard
  EnterReturns
