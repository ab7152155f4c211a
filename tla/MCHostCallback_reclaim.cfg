\* Scripts and host functions nested five deep; host functions may call Close.
CONSTANTS
  Natives = {n1, n2, n3, n4, n5}
  NoNative = NoNative
  MaxStack = 5
SYMMETRY NativeSymmetry
SPECIFICATION CallbackSpec
CHECK_DEADLOCK FALSE
INVARIANTS
  CallbackTypeOK
  ReentrantCallsAreSafe
  WrappersAreLive
  NoOrphans
  TemporariesAreReclaimed
