------------------------------ MODULE MCErrors ------------------------------
(* Small instances of Errors for TLC.                                      *)
EXTENDS Errors, TLC

PromiseSymmetry == Permutations(Promises)
=============================================================================
