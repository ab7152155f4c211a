--------------------------- MODULE MCHostCallback ---------------------------
(* Small instances of HostCallback for TLC.                                *)
EXTENDS HostCallback, TLC

NativeSymmetry == Permutations(Natives)
=============================================================================
