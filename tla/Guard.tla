------------------------------- MODULE Guard -------------------------------
(***************************************************************************)
(* What Isolate.enter / leave promise to the rest of gv8: an isolate is a  *)
(* reentrant try-lock of goroutines whose holder alone may tear it down.   *)
(* The README states the rule as "One isolate may have only one active     *)
(* caller at a time. Reentrant calls on the same thread are allowed."      *)
(*                                                                         *)
(* A refused call changes nothing and is a stuttering step.  Nothing here  *)
(* mentions OS threads: that IsolateGuard, which decides by thread id,     *)
(* implements this module is what makes the thread id a sound stand-in for *)
(* the goroutine.                                                          *)
(***************************************************************************)
EXTENDS Naturals

CONSTANTS Goroutines,   \* the callers
          NoOne         \* no caller holds the isolate; not a goroutine

VARIABLES holder,       \* the goroutine inside the isolate
          level,        \* how many nested calls it has made
          alive         \* the native isolate exists

gvars == <<holder, level, alive>>

GuardInit == holder = NoOne /\ level = 0 /\ alive = TRUE

\* A first call, or a nested call of the holder.
Take(g) == /\ holder \in {NoOne, g}
           /\ holder' = g
           /\ level' = level + 1
           /\ UNCHANGED alive

\* The return of the innermost call.
Give(g) == /\ holder = g
           /\ level > 0
           /\ level' = level - 1
           /\ holder' = IF level = 1 THEN NoOne ELSE g
           /\ UNCHANGED alive

\* The native isolate is destroyed, once, and only from inside.
Destroy(g) == /\ holder = g
              /\ alive
              /\ alive' = FALSE
              /\ UNCHANGED <<holder, level>>

GuardNext == \E g \in Goroutines : Take(g) \/ Give(g) \/ Destroy(g)

GuardSpec == GuardInit /\ [][GuardNext]_gvars
=============================================================================
