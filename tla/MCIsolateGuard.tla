--------------------------- MODULE MCIsolateGuard ---------------------------
(* Small instances of IsolateGuard for TLC.                                *)
EXTENDS IsolateGuard
=============================================================================
