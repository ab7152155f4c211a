----------------------------- MODULE MCHandles -----------------------------
(* Small instances of Handles for TLC.                                     *)
EXTENDS Handles
=============================================================================
