----------------------------- MODULE MCModules -----------------------------
(* Small instances of Modules for TLC.                                     *)
EXTENDS Modules, TLC

CONSTANTS main, dep, twin, a, b

\* twin shares the resource name of main.
MCName == (main :> a) @@ (dep :> b) @@ (twin :> a)
=============================================================================
