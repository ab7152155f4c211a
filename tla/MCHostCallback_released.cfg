\* A host function may release the function it was called through.
CONSTANTS
  Natives = {n1, n2, n3}
  NoNative = NoNative
  MaxStack = 3
SYMMETRY NativeSymmetry
SPECIFICATION CallbackSpec
CHECK_DEADLOCK FALSE
INVARIANT ReleaseInCallbackIsSafe
