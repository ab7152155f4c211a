---------------------------- MODULE MCSnapshot ----------------------------
(* Small instances of Snapshot for TLC.                                    *)
EXTENDS Snapshot, TLC

SnapshotSymmetry == Permutations(Builders) \cup Permutations(Threads)
=============================================================================
