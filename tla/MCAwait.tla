------------------------------ MODULE MCAwait ------------------------------
(* Small instances of Await for TLC.                                       *)
EXTENDS Await
=============================================================================
