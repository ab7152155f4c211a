------------------------- MODULE IsolateGuardProofs -------------------------
(***************************************************************************)
(* The guard of isolate.go is correct for every number of goroutines and   *)
(* OS threads: mutual exclusion, balanced pinning, no panic in leave, a    *)
(* single native dispose, and the refinement of Guard.                     *)
(***************************************************************************)
EXTENDS IsolateGuard, TLAPS

\* Two goroutines are never on the same OS thread.
OneGoroutinePerThread ==
  \A g, h \in Goroutines : thread[g] # NoThread /\ thread[g] = thread[h] => g = h

\* A pinned goroutine is on a thread, and the id it read is still that one.
PinnedStaysPut ==
  \A g \in Goroutines :
    /\ pin[g] > 0 => thread[g] # NoThread
    /\ pc[g] = "acquire" => tid[g] = thread[g]

\* A goroutine inside the isolate is the owner: its thread is ownerThread
\* and its open calls are exactly i.depth.
InsideIsOwner ==
  \A g \in Goroutines :
    frames[g] > 0 => depth = frames[g] /\ ownerThread = thread[g]

\* i.depth counts somebody's calls.
DepthHasOwner == depth > 0 => \E g \in Goroutines : frames[g] > 0

\* A goroutine in a guarded body has a call in progress.
BodyHasFrame ==
  \A g \in Goroutines : pc[g] \in {"entered", "free", "clear", "leave"} => frames[g] > 0

\* i.ptr outlives the native isolate only inside Dispose.
FreedIsBeingCleared ==
  /\ ptr = "nil" => native = "freed"
  /\ \A g \in Goroutines : pc[g] = "clear" => native = "freed"
  /\ native = "freed" /\ ptr = "live" =>
       fault # "none" \/ \E g \in Goroutines : pc[g] = "clear"

\* Whoever is about to free the isolate has dropped its registration.
UnregisteredFirst ==
  \A g \in Goroutines : pc[g] = "free" => registered = FALSE

Inv ==
  /\ TypeOK
  /\ OneGoroutinePerThread
  /\ PinnedStaysPut
  /\ PinsMatchFrames
  /\ InsideIsOwner
  /\ DepthHasOwner
  /\ BodyHasFrame
  /\ FreedIsBeingCleared
  /\ UnregisteredFirst
  /\ LeaveNeverPanics
  /\ DisposedOnce

USE GuardConstants

\* The invariant holds when NewIsolate has returned.
LEMMA InitInv == Init => Inv
<1> SUFFICES ASSUME Init PROVE Inv
  OBVIOUS
<1>1. TypeOK
  BY DEF Init, TypeOK, Ops, PCs, Faults
<1>2. /\ OneGoroutinePerThread /\ PinnedStaysPut /\ PinsMatchFrames
      /\ InsideIsOwner /\ DepthHasOwner /\ BodyHasFrame
  BY DEF Init, OneGoroutinePerThread, PinnedStaysPut, PinsMatchFrames,
         InsideIsOwner, DepthHasOwner, BodyHasFrame
<1>3. /\ FreedIsBeingCleared /\ UnregisteredFirst /\ LeaveNeverPanics
      /\ DisposedOnce
  BY DEF Init, FreedIsBeingCleared, UnregisteredFirst, LeaveNeverPanics,
         DisposedOnce
<1> QED
  BY <1>1, <1>2, <1>3 DEF Inv

\* Every step of enter, leave, Dispose and the scheduler preserves it.
LEMMA NextInv == Inv /\ [Next]_vars => Inv'
<1> SUFFICES ASSUME Inv, [Next]_vars PROVE Inv'
  OBVIOUS
<1> USE DEF Inv, TypeOK, OneGoroutinePerThread, PinnedStaysPut, PinsMatchFrames,
               InsideIsOwner, DepthHasOwner, BodyHasFrame, FreedIsBeingCleared,
               UnregisteredFirst, LeaveNeverPanics, DisposedOnce, Ops, PCs, Faults,
               At, Running, Goto, shared, isolate, guard
<1>1. ASSUME NEW g \in Goroutines, Schedule(g) PROVE Inv'
  BY <1>1 DEF Schedule, Free
<1>2. ASSUME NEW g \in Goroutines, Park(g) PROVE Inv'
  BY <1>2 DEF Park
<1>3. ASSUME NEW g \in Goroutines, CallUse(g) PROVE Inv'
  BY <1>3 DEF CallUse, Call
<1>4. ASSUME NEW g \in Goroutines, CallDispose(g) PROVE Inv'
  BY <1>4 DEF CallDispose, Call
<1>5. ASSUME NEW g \in Goroutines, CallStat(g) PROVE Inv'
  BY <1>5 DEF CallStat, Call
<1>6. ASSUME NEW g \in Goroutines, EnterCheck(g) PROVE Inv'
  BY <1>6 DEF EnterCheck
<1>7. ASSUME NEW g \in Goroutines, LockOSThread(g) PROVE Inv'
  BY <1>7 DEF LockOSThread
<1>8. ASSUME NEW g \in Goroutines, AcquireFree(g) PROVE Inv'
  BY <1>8 DEF AcquireFree, Entered
<1>9. ASSUME NEW g \in Goroutines, AcquireAgain(g) PROVE Inv'
  BY <1>9 DEF AcquireAgain, Entered
<1>10. ASSUME NEW g \in Goroutines, AcquireBusy(g) PROVE Inv'
  BY <1>10 DEF AcquireBusy
<1>11. ASSUME NEW g \in Goroutines, NativeCall(g) PROVE Inv'
  BY <1>11 DEF NativeCall
<1>12. ASSUME NEW g \in Goroutines, NativeReturn(g) PROVE Inv'
  BY <1>12 DEF NativeReturn
<1>13. ASSUME NEW g \in Goroutines, DisposeNative(g) PROVE Inv'
  \* The disposer is the only goroutine inside, so nobody is in "clear" and
  \* the pointer it re-reads is not a dangling one.
  <2>1. frames[g] > 0 /\ fault = "none"
    BY <1>13 DEF DisposeNative
  <2>2. \A h \in Goroutines : pc[h] # "clear"
    <3> SUFFICES ASSUME NEW h \in Goroutines, pc[h] = "clear" PROVE FALSE
      OBVIOUS
    <3>1. frames[h] > 0
      OBVIOUS
    <3>2. thread[g] # NoThread /\ thread[g] = thread[h]
      BY <1>13, <2>1, <3>1 DEF DisposeNative
    <3> QED
      BY <1>13, <3>2 DEF DisposeNative
  <2>3. ~(ptr = "live" /\ native = "freed")
    BY <2>1, <2>2
  <2>4. native' = "freed" /\ fault' = fault /\ registered' = FALSE
    BY <1>13, <2>3 DEF DisposeNative
  <2> QED
    BY <1>13, <2>1, <2>4 DEF DisposeNative
<1>14. ASSUME NEW g \in Goroutines, DisposeClear(g) PROVE Inv'
  BY <1>14 DEF DisposeClear
<1>15. ASSUME NEW g \in Goroutines, StatCall(g) PROVE Inv'
  BY <1>15 DEF StatCall
<1>16. ASSUME NEW g \in Goroutines, Leave(g) PROVE Inv'
  BY <1>16 DEF Leave
<1>17. CASE UNCHANGED vars
  BY <1>17 DEF vars
<1>19. ASSUME NEW g \in Goroutines, CallNew(g) PROVE Inv'
  BY <1>19 DEF CallNew, Call
<1>20. ASSUME NEW g \in Goroutines, NewContext(g) PROVE Inv'
  BY <1>20 DEF NewContext
<1>21. ASSUME NEW g \in Goroutines, CallTerminate(g) PROVE Inv'
  BY <1>21 DEF CallTerminate, Call
<1>22. ASSUME NEW g \in Goroutines, CallClose(g) PROVE Inv'
  BY <1>22 DEF CallClose, Call
<1>23. ASSUME NEW g \in Goroutines, DisposeRef(g) PROVE Inv'
  BY <1>23 DEF DisposeRef
<1>24. ASSUME NEW g \in Goroutines, TerminateCall(g) PROVE Inv'
  BY <1>24 DEF TerminateCall
<1>25. ASSUME NEW g \in Goroutines, CloseCall(g) PROVE Inv'
  BY <1>25 DEF CloseCall
<1>18. QED
  BY <1>1, <1>2, <1>3, <1>4, <1>5, <1>6, <1>7, <1>8, <1>9, <1>10, <1>11, <1>12, <1>13, <1>14, <1>15, <1>16, <1>17, <1>19, <1>20,
     <1>21, <1>22, <1>23, <1>24, <1>25
     DEF Next, CallStep, EnterStep, Acquire, BodyStep

\* The guard's invariant holds in every reachable state of isolate.go.
THEOREM GuardInvariant == Spec => []Inv
<1>1. Init => Inv
  BY InitInv
<1>2. Inv /\ [Next]_vars => Inv'
  BY NextInv
<1> QED
  BY <1>1, <1>2, PTL DEF Spec

\* The state of the guard and of its callers keeps its types.
THEOREM GuardTypeCorrect == Spec => []TypeOK
<1>1. Inv => TypeOK
  BY DEF Inv
<1> QED
  BY <1>1, GuardInvariant, PTL

\* The invariant's threads tell goroutines apart.
LEMMA OneInside == Inv => OneActiveCaller
<1> SUFFICES ASSUME Inv, NEW g \in Goroutines, NEW h \in Goroutines,
                    frames[g] > 0, frames[h] > 0
             PROVE  g = h
  BY DEF OneActiveCaller
<1>1. thread[g] = ownerThread /\ thread[h] = ownerThread
  BY DEF Inv, InsideIsOwner
<1>2. pin[g] > 0
  BY DEF Inv, PinsMatchFrames, TypeOK
<1>3. thread[g] # NoThread
  BY <1>2 DEF Inv, PinnedStaysPut
<1> QED
  BY <1>1, <1>3 DEF Inv, OneGoroutinePerThread

\* README: "One isolate may have only one active caller at a time", for every
\* number of goroutines and threads and however the scheduler moves them.
THEOREM MutualExclusion == Spec => []OneActiveCaller
<1> QED
  BY OneInside, GuardInvariant, PTL

\* leave never reports "released from non-owner thread".
THEOREM LeaveIsByOwner == Spec => []LeaveNeverPanics
<1>1. Inv => LeaveNeverPanics
  BY DEF Inv
<1> QED
  BY <1>1, GuardInvariant, PTL

\* LockOSThread and UnlockOSThread balance on every path of enter and leave.
THEOREM PinsBalance == Spec => []PinsMatchFrames
<1>1. Inv => PinsMatchFrames
  BY DEF Inv
<1> QED
  BY <1>1, GuardInvariant, PTL

\* However many goroutines race in Dispose, the native isolate is freed once, and
\* isolateRefs never leads to a freed one.
THEOREM DisposeIsOnce == Spec => []DisposedOnce
<1>1. Inv => DisposedOnce
  BY DEF Inv
<1> QED
  BY <1>1, GuardInvariant, PTL

\* As long as the host was careful: Dispose is alone, from an idle isolate, and
\* once the native isolate is freed everyone is outside, or in Dispose; if every
\* context was closed by then, nobody closes one any more.
CarefulInv ==
  ~careless =>
    /\ \A g, h \in Goroutines : Disposing(g) /\ g # h => Idle(h)
    /\ \A g \in Goroutines : op[g] = "dispose" =>
         frames[g] = (IF pc[g] \in {"entered", "free", "clear", "leave"} THEN 1 ELSE 0)
    /\ native = "freed" => \A g \in Goroutines :
         \/ pc[g] \in {"run", "enter", "new", "close"} /\ frames[g] = 0
         \/ pc[g] \in {"clear", "leave"} /\ op[g] = "dispose"
    /\ native = "freed" /\ ~leftOpen =>
         (contexts = 0 \/ fault # "none") /\ \A g \in Goroutines : pc[g] # "close"
    /\ fault # "useAfterDispose"
    /\ ~leftOpen => fault # "closeAfterDispose"
    /\ \A g \in Goroutines : pc[g] \in {"free", "clear"} => op[g] = "dispose"

\* Every step keeps it, given the guard's invariant.
LEMMA NextCareful == Inv /\ CarefulInv /\ [Next]_vars => CarefulInv'
<1> SUFFICES ASSUME Inv, CarefulInv, [Next]_vars, ~careless' PROVE CarefulInv'
  BY DEF CarefulInv
<1> USE DEF CarefulInv, Disposing, Idle, At, Running, Goto, shared, isolate, guard
<1> ~careless
  BY DEF Next, vars, Schedule, Park, CallStep, CallUse, CallDispose, CallStat,
         CallTerminate, CallNew, CallClose, Call, EnterStep, EnterCheck, LockOSThread, Acquire,
         AcquireFree, AcquireAgain, AcquireBusy, Entered, BodyStep, NativeCall,
         NativeReturn, DisposeRef, DisposeNative, DisposeClear, StatCall,
         TerminateCall, NewContext, CloseCall, Leave
<1>a. TypeOK /\ InsideIsOwner /\ DepthHasOwner /\ BodyHasFrame /\ FreedIsBeingCleared
  BY DEF Inv
<1>1. ASSUME NEW g \in Goroutines, Schedule(g) \/ Park(g) PROVE CarefulInv'
  BY <1>1 DEF Schedule, Park
<1>2. ASSUME NEW g \in Goroutines, CallUse(g) PROVE CarefulInv'
  BY <1>2, <1>a DEF CallUse, Call, Overlaps, TypeOK
<1>3. ASSUME NEW g \in Goroutines, CallDispose(g) PROVE CarefulInv'
  BY <1>3, <1>a DEF CallDispose, Call, Overlaps, TypeOK, FreedIsBeingCleared
<1>4. ASSUME NEW g \in Goroutines, CallStat(g) PROVE CarefulInv'
  BY <1>4, <1>a DEF CallStat, Call, Overlaps, TypeOK, FreedIsBeingCleared
<1>5. ASSUME NEW g \in Goroutines, CallNew(g) PROVE CarefulInv'
  BY <1>5, <1>a DEF CallNew, Call, Overlaps, TypeOK
<1>6. ASSUME NEW g \in Goroutines, EnterCheck(g) PROVE CarefulInv'
  BY <1>6, <1>a DEF EnterCheck, TypeOK, FreedIsBeingCleared
<1>7. ASSUME NEW g \in Goroutines, LockOSThread(g) PROVE CarefulInv'
  BY <1>7, <1>a DEF LockOSThread, TypeOK
<1>8. ASSUME NEW g \in Goroutines, AcquireFree(g) PROVE CarefulInv'
  BY <1>8, <1>a DEF AcquireFree, Entered, TypeOK, InsideIsOwner
<1>9. ASSUME NEW g \in Goroutines, AcquireAgain(g) PROVE CarefulInv'
  BY <1>9, <1>a DEF AcquireAgain, Entered, TypeOK, InsideIsOwner, DepthHasOwner
<1>10. ASSUME NEW g \in Goroutines, AcquireBusy(g) PROVE CarefulInv'
  BY <1>10, <1>a DEF AcquireBusy, TypeOK
<1>11. ASSUME NEW g \in Goroutines, NativeCall(g) PROVE CarefulInv'
  BY <1>11, <1>a DEF NativeCall, TypeOK
<1>12. ASSUME NEW g \in Goroutines, NativeReturn(g) PROVE CarefulInv'
  BY <1>12, <1>a DEF NativeReturn, TypeOK
<1>13. ASSUME NEW g \in Goroutines, DisposeNative(g) PROVE CarefulInv'
  <2>1. pc[g] = "free" /\ op[g] = "dispose" /\ Disposing(g)
    BY <1>13 DEF DisposeNative
  <2>2. \A h \in Goroutines : h # g => pc[h] = "run" /\ frames[h] = 0
    BY <2>1
  <2>3. ~leftOpen' => ~leftOpen /\ ~(contexts > 0)
    BY <1>13, Zenon DEF DisposeNative
  <2>4. ~leftOpen' => contexts = 0
    BY <2>3, <1>a DEF TypeOK
  <2>5. /\ UNCHANGED <<contexts, frames, op, careless>>
        /\ pc' = [pc EXCEPT ![g] = "clear"]
        /\ fault' \in {fault, "doubleDispose"}
    BY <1>13 DEF DisposeNative
  <2>6. \A h \in Goroutines : pc'[h] = IF h = g THEN "clear" ELSE "run"
    BY <2>1, <2>2, <2>5, <1>a DEF TypeOK
  <2> QED
    BY <2>1, <2>2, <2>3, <2>4, <2>5, <2>6, <1>a DEF TypeOK
<1>14. ASSUME NEW g \in Goroutines, DisposeClear(g) PROVE CarefulInv'
  BY <1>14, <1>a DEF DisposeClear, TypeOK
<1>15. ASSUME NEW g \in Goroutines, StatCall(g) \/ NewContext(g) PROVE CarefulInv'
  BY <1>15, <1>a DEF StatCall, NewContext, TypeOK, FreedIsBeingCleared
<1>16. ASSUME NEW g \in Goroutines, Leave(g) PROVE CarefulInv'
  BY <1>16, <1>a DEF Leave, TypeOK, InsideIsOwner
<1>18. ASSUME NEW g \in Goroutines, CallTerminate(g) PROVE CarefulInv'
  BY <1>18, <1>a DEF CallTerminate, Call, Overlaps, TypeOK, FreedIsBeingCleared
<1>19. ASSUME NEW g \in Goroutines, CallClose(g) PROVE CarefulInv'
  <2>1. /\ contexts > 0 /\ fault = "none" /\ pc[g] = "run" /\ contexts \in Nat
        /\ ~Overlaps("close")
        /\ UNCHANGED <<native, leftOpen, frames, fault>>
        /\ pc' = [pc EXCEPT ![g] = "close"] /\ op' = [op EXCEPT ![g] = "close"]
    BY <1>19, <1>a DEF CallClose, Call, TypeOK
  <2>2. native = "freed" => leftOpen
    BY <2>1
  <2>3. \A h \in Goroutines : ~Disposing(h)
    BY <2>1 DEF Overlaps
  <2> QED
    BY <2>1, <2>2, <2>3, <1>a DEF TypeOK
<1>20. ASSUME NEW g \in Goroutines, DisposeRef(g) PROVE CarefulInv'
  BY <1>20, <1>a DEF DisposeRef, TypeOK
<1>21. ASSUME NEW g \in Goroutines, TerminateCall(g) \/ CloseCall(g)
       PROVE CarefulInv'
  BY <1>21, <1>a DEF TerminateCall, CloseCall, TypeOK, FreedIsBeingCleared
<1>17. CASE UNCHANGED vars
  BY <1>17 DEF vars
<1> QED
  BY <1>1, <1>2, <1>3, <1>4, <1>5, <1>6, <1>7, <1>8, <1>9, <1>10, <1>11, <1>12,
     <1>13, <1>14, <1>15, <1>16, <1>17, <1>18, <1>19, <1>20, <1>21
     DEF Next, CallStep, EnterStep, Acquire, BodyStep

\* A host that calls Dispose on an idle isolate, and nothing meanwhile, reaches no
\* freed memory through i.ptr, by the unguarded methods either, and none through
\* Context.Close if it closed every context before Dispose.
THEOREM DisposeIsFinal == Spec => []NoUseAfterDispose
<1>1. Init => CarefulInv
  BY DEF Init, CarefulInv, Disposing, Idle
<1>2. Inv /\ CarefulInv /\ [Next]_vars => CarefulInv'
  BY NextCareful
<1>3. CarefulInv => NoUseAfterDispose
  BY DEF CarefulInv, NoUseAfterDispose
<1> QED
  BY <1>1, <1>2, <1>3, GuardInvariant, PTL DEF Spec

\* No step hands an owned isolate to another thread.
THEOREM OwnerStability == Spec => OwnerIsStable
<1>1. Inv /\ [Next]_vars =>
        [depth > 0 /\ depth' > 0 => ownerThread' = ownerThread]_vars
  <2> SUFFICES ASSUME Inv, Next, depth > 0, depth' > 0
               PROVE  ownerThread' = ownerThread
    BY DEF vars
  <2>1. depth \in Nat
    BY DEF Inv, TypeOK
  <2> QED
    BY <2>1 DEF Next, Schedule, Park, CallStep, CallUse, CallDispose, CallStat, CallTerminate,
                CallNew, CallClose, Call, EnterStep, EnterCheck, LockOSThread, Acquire,
                AcquireFree, AcquireAgain, AcquireBusy, Entered, BodyStep,
                NativeCall, NativeReturn, DisposeRef, DisposeNative, DisposeClear,
                StatCall, TerminateCall, NewContext, CloseCall, Leave, guard
<1> QED
  BY <1>1, GuardInvariant, PTL DEF Spec, OwnerIsStable

\* The goroutine with an open call is the abstract holder.
InsideIsHolder ==
  \A g \in Goroutines :
    frames[g] > 0 => Holder = g /\ depth > 0 /\ depth = frames[g]

\* The holder of the abstract lock is the goroutine with frames, and its level
\* their number.
LEMMA HolderIsInside == Inv => InsideIsHolder
<1> SUFFICES ASSUME Inv, NEW g \in Goroutines, frames[g] > 0
             PROVE  Holder = g /\ depth > 0 /\ depth = frames[g]
  BY DEF InsideIsHolder
<1>1. depth = frames[g] /\ depth > 0
  BY DEF Inv, InsideIsOwner
<1>2. \A h \in Goroutines : frames[h] > 0 => h = g
  BY OneInside DEF OneActiveCaller
<1> QED
  BY <1>1, <1>2 DEF Holder

\* A step that leaves frames and depth alone leaves the holder alone.
LEMMA HolderUnchanged ==
  ASSUME UNCHANGED <<frames, depth>> PROVE UNCHANGED Holder
  BY DEF Holder

\* enter, leave and Dispose implement the reentrant try-lock of Guard: the
\* thread id in ownerThread is as good as the goroutine itself.
THEOREM RefinesGuard == Spec => ImplementsGuard
<1>1. Init => G!GuardInit
  BY DEF Init, G!GuardInit, Holder
<1>2. Inv => InsideIsHolder
  BY HolderIsInside
<1>3. Inv /\ Inv' /\ InsideIsHolder /\ InsideIsHolder' /\ [Next]_vars 
        => [G!GuardNext]_(G!gvars)
  <2> SUFFICES ASSUME Inv, Inv', InsideIsHolder, InsideIsHolder',
                      [Next]_vars
               PROVE  [G!GuardNext]_(G!gvars)
    OBVIOUS
  <2> USE DEF G!gvars
  <2>1. ASSUME UNCHANGED <<frames, depth, native>>
        PROVE  UNCHANGED G!gvars
    BY <2>1, HolderUnchanged
  <2>2. ASSUME NEW g \in Goroutines, AcquireFree(g) \/ AcquireAgain(g)
        PROVE  G!Take(g)
    <3>1. /\ frames'[g] > 0 /\ depth' = depth + 1 /\ native' = native
          /\ frames'[g] = frames[g] + 1
      BY <2>2 DEF AcquireFree, AcquireAgain, Entered, shared, Inv, TypeOK
    <3>2. Holder' = g
      BY <3>1 DEF InsideIsHolder
    <3>3. Holder \in {NoOne, g}
      <4>1. CASE depth = 0
        BY <4>1 DEF Holder
      <4>2. CASE depth > 0
        <5>1. frames'[g] = depth'
          BY <3>1 DEF Inv, InsideIsOwner
        <5>2. frames[g] > 0
          BY <3>1, <5>1, <4>2 DEF Inv, TypeOK
        <5> QED
          BY <5>2 DEF InsideIsHolder
      <4> QED
        BY <4>1, <4>2 DEF Inv, TypeOK
    <3> QED
      BY <3>1, <3>2, <3>3 DEF G!Take
  <2>3. ASSUME NEW g \in Goroutines, Leave(g) PROVE [G!GuardNext]_(G!gvars)
    <3>1. frames[g] > 0
      BY <2>3 DEF Leave, At, Inv, BodyHasFrame
    <3>2. Holder = g /\ depth > 0 /\ depth = frames[g]
      BY <3>1 DEF InsideIsHolder
    <3>3. CASE depth = 0 \/ ownerThread # thread[g]
      BY <3>3, <2>3, <2>1 DEF Leave, shared, guard
    <3>4. CASE ~(depth = 0 \/ ownerThread # thread[g])
      <4>1. /\ depth' = depth - 1 /\ native' = native
            /\ frames' = [frames EXCEPT ![g] = @ - 1]
        BY <2>3, <3>4 DEF Leave, shared
      <4>2. Holder' = IF depth = 1 THEN NoOne ELSE g
        <5>1. CASE depth = 1
          BY <5>1, <4>1 DEF Holder
        <5>2. CASE depth # 1
          <6>1. frames'[g] > 0
            BY <5>2, <4>1, <3>2 DEF Inv, TypeOK
          <6> QED
            BY <6>1, <5>2 DEF InsideIsHolder
        <5> QED
          BY <5>1, <5>2
      <4> QED
        BY <4>1, <4>2, <3>2 DEF G!GuardNext, G!Give
    <3> QED
      BY <3>3, <3>4
  <2>4. ASSUME NEW g \in Goroutines, DisposeNative(g)
        PROVE  [G!GuardNext]_(G!gvars)
    <3>1. frames[g] > 0
      BY <2>4 DEF DisposeNative, At, Inv, BodyHasFrame
    <3>2. Holder = g
      BY <3>1 DEF InsideIsHolder
    <3>3. UNCHANGED <<frames, depth>>
      BY <2>4 DEF DisposeNative, guard
    <3>4. UNCHANGED Holder
      BY <3>3, HolderUnchanged
    <3>5. CASE native = "freed"
      <4>1. native' = "freed"
        BY <2>4, <3>5 DEF DisposeNative
      <4> QED
        BY <4>1, <3>5, <3>3, <2>1
    <3>6. CASE native = "live"
      <4>1. native' = "freed"
        BY <2>4, <3>6 DEF DisposeNative
      <4> QED
        BY <4>1, <3>6, <3>2, <3>3, <3>4 DEF G!GuardNext, G!Destroy
    <3> QED
      BY <3>5, <3>6 DEF Inv, TypeOK
  <2>5. CASE UNCHANGED vars
    BY <2>5, <2>1 DEF vars
  <2>6. ASSUME NEW g \in Goroutines,
               \/ Schedule(g) \/ Park(g) \/ CallStep(g)
               \/ EnterCheck(g) \/ LockOSThread(g) \/ AcquireBusy(g)
               \/ NativeCall(g) \/ NativeReturn(g)
               \/ DisposeRef(g) \/ DisposeClear(g) \/ StatCall(g)
               \/ TerminateCall(g) \/ NewContext(g) \/ CloseCall(g)
        PROVE  UNCHANGED <<frames, depth, native>>
    BY <2>6 DEF Schedule, Park, CallStep, CallUse, CallDispose, CallStat, CallTerminate,
                CallNew, CallClose, Call,
                EnterCheck, LockOSThread, AcquireBusy, NativeCall,
                NativeReturn, DisposeRef, DisposeClear, StatCall, TerminateCall,
                NewContext, CloseCall, shared, isolate, guard
  <2> QED
    BY <2>1, <2>2, <2>3, <2>4, <2>5, <2>6
       DEF Next, EnterStep, Acquire, BodyStep, G!GuardNext
<1> QED
  BY <1>1, <1>2, <1>3, GuardInvariant, PTL DEF Spec, ImplementsGuard, G!GuardSpec

=============================================================================
