\* Three builders that overlap, on two threads.
CONSTANTS
  Builders = {b1, b2, b3}
  Threads = {t1, t2}
  None = None
SYMMETRY SnapshotSymmetry
SPECIFICATION SnapshotSpec
\* V8 may die of the snapshot data.
CHECK_DEADLOCK FALSE
INVARIANTS
  SnapshotTypeOK
  SnapshotCallsAreSafe
  DataFollowsIsolate
  EntriesAreSound
