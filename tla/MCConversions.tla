--------------------------- MODULE MCConversions ---------------------------
(* Small instances of Conversions for TLC.                                 *)
EXTENDS Conversions
=============================================================================
