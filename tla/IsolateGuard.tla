---------------------------- MODULE IsolateGuard ----------------------------
(***************************************************************************)
(* isolate.go: the guard every native call goes through (enter, mustEnter, *)
(* leave), Dispose, and the methods that reach the native isolate without  *)
(* the guard (TerminateExecution, CancelTerminateExecution,                *)
(* LowMemoryNotification, MemoryPressureNotification, HeapStatistics,      *)
(* NewContext, Context.Close).                                             *)
(*                                                                         *)
(* The guard stores an OS thread id, not a goroutine: it is right only     *)
(* because runtime.LockOSThread pins the caller to its thread from before  *)
(* the id is read until after the matching leave.  So threads are part of  *)
(* the state, and the Go scheduler moves goroutines between them whenever  *)
(* they are not pinned.                                                    *)
(*                                                                         *)
(* A refused call returns an error, or panics where the method uses        *)
(* mustEnter; the host that recovers is where the one with the error is,   *)
(* so both are the same step here.                                         *)
(*                                                                         *)
(* i.ptr is read without i.mu, so every such read is a step of its own.    *)
(* The critical sections under i.mu contain no other shared access and are *)
(* one step each.                                                          *)
(***************************************************************************)
EXTENDS Naturals, FiniteSets

CONSTANTS Goroutines,        \* goroutines that call the isolate
          Threads,           \* OS threads of the Go scheduler
          NoThread,          \* ownerThread = 0; also: not on a thread
          NoOne,             \* no goroutine
          MaxFrames,         \* bound: nested guarded calls of one goroutine
          MaxContexts        \* bound: open contexts when one more is asked for

ASSUME GuardConstants ==
  /\ NoThread \notin Threads
  /\ NoOne \notin Goroutines
  /\ MaxFrames \in Nat \ {0}
  /\ MaxContexts \in Nat \ {0}

VARIABLES
  ptr,          \* i.ptr: "live" or "nil"
  native,       \* the v8::Isolate: "live" or "freed"
  registered,   \* isolateRefs[i.ref] exists
  contexts,     \* how many contexts of the isolate nobody has closed
  leftOpen,     \* history: the isolate was freed with a context open
  ownerThread,  \* i.ownerThread
  depth,        \* i.depth
  thread,       \* the OS thread a goroutine is on
  pin,          \* its runtime.LockOSThread count
  tid,          \* its local threadID in enter
  frames,       \* its guarded calls entered and not yet left
  op,           \* the kind of its innermost call
  pc,           \* where it is in that call
  careless,     \* history: Dispose overlapped with another call
  fault         \* what the process died of

vars == <<ptr, native, registered, contexts, leftOpen, ownerThread, depth,
          thread, pin, tid, frames, op, pc, careless, fault>>

isolate == <<ptr, native, registered>>
shared == <<ptr, native, registered, contexts, leftOpen>>
guard  == <<ownerThread, depth>>

Ops == {"use", "dispose", "stat", "terminate", "new", "close"}
PCs == {"run", "enter", "pin", "acquire", "entered", "free", "clear", "leave",
        "stat", "terminate", "new", "close"}
Faults == {"none", "nilIsolate", "useAfterDispose", "closeAfterDispose",
           "doubleDispose", "leavePanic"}

\* Where enter has been called and has not returned.
Entering == {"enter", "pin", "acquire"}

TypeOK ==
  /\ ptr \in {"live", "nil"}
  /\ native \in {"live", "freed"}
  /\ registered \in BOOLEAN
  /\ contexts \in Nat
  /\ leftOpen \in BOOLEAN
  /\ ownerThread \in Threads \cup {NoThread}
  /\ depth \in Nat
  /\ thread \in [Goroutines -> Threads \cup {NoThread}]
  /\ pin \in [Goroutines -> Nat]
  /\ tid \in [Goroutines -> Threads \cup {NoThread}]
  /\ frames \in [Goroutines -> Nat]
  /\ op \in [Goroutines -> Ops]
  /\ pc \in [Goroutines -> PCs]
  /\ careless \in BOOLEAN
  /\ fault \in Faults

\* NewIsolate has returned: the isolate is live, registered and unowned, and has
\* no context yet.
Init ==
  /\ ptr = "live"
  /\ native = "live"
  /\ registered = TRUE
  /\ contexts = 0
  /\ leftOpen = FALSE
  /\ ownerThread = NoThread
  /\ depth = 0
  /\ thread = [g \in Goroutines |-> NoThread]
  /\ pin = [g \in Goroutines |-> 0]
  /\ tid = [g \in Goroutines |-> NoThread]
  /\ frames = [g \in Goroutines |-> 0]
  /\ op = [g \in Goroutines |-> "use"]
  /\ pc = [g \in Goroutines |-> "run"]
  /\ careless = FALSE
  /\ fault = "none"

----------------------------------------------------------------------------
(* The Go scheduler.                                                       *)

Free(t) == \A g \in Goroutines : thread[g] # t

Schedule(g) ==
  /\ thread[g] = NoThread
  /\ \E t \in Threads : Free(t) /\ thread' = [thread EXCEPT ![g] = t]
  /\ UNCHANGED <<shared, guard, pin, tid, frames, op, pc, fault, careless>>

\* A goroutine with a LockOSThread count keeps its thread.
Park(g) ==
  /\ thread[g] # NoThread
  /\ pin[g] = 0
  /\ thread' = [thread EXCEPT ![g] = NoThread]
  /\ UNCHANGED <<shared, guard, pin, tid, frames, op, pc, fault, careless>>

----------------------------------------------------------------------------
(* Calls.                                                                  *)

Running(g) == thread[g] # NoThread /\ fault = "none"
At(g, label) == Running(g) /\ pc[g] = label
Goto(g, label) == pc' = [pc EXCEPT ![g] = label]

Idle(g) == pc[g] = "run" /\ frames[g] = 0
Disposing(g) == op[g] = "dispose" /\ pc[g] # "run"

\* What the host owes the isolate: Dispose when it is idle, no call meanwhile.
Overlaps(o) ==
  IF o = "dispose" THEN \E h \in Goroutines : ~Idle(h)
                   ELSE \E h \in Goroutines : Disposing(h)

Call(g, o, label) ==
  /\ At(g, "run")
  /\ careless' = (careless \/ Overlaps(o))
  /\ op' = [op EXCEPT ![g] = o]
  /\ Goto(g, label)
  /\ UNCHANGED <<isolate, leftOpen, guard, thread, pin, tid, frames, fault>>

\* Any method that enters: RunScript, a value accessor, a module operation.
\* It is called from the host, or from a host callback when frames[g] > 0.
CallUse(g) ==
  frames[g] < MaxFrames /\ Call(g, "use", "enter") /\ UNCHANGED contexts

\* Dispose returns at once when i.ptr is already nil.
CallDispose(g) ==
  /\ ptr = "live"
  /\ frames[g] < MaxFrames
  /\ Call(g, "dispose", "enter")
  /\ UNCHANGED contexts

\* HeapStatistics and the memory notifications, past their nil check.
CallStat(g) == ptr = "live" /\ Call(g, "stat", "stat") /\ UNCHANGED contexts

\* TerminateExecution and CancelTerminateExecution, past their nil check; what
\* they do to a running script is in module Await.
CallTerminate(g) ==
  ptr = "live" /\ Call(g, "terminate", "terminate") /\ UNCHANGED contexts

\* NewContext has no nil check.
CallNew(g) ==
  contexts < MaxContexts /\ Call(g, "new", "new") /\ UNCHANGED contexts

\* Context.Close asks nothing of the isolate; c.closed lets one caller through
\* for each context, and module Handles has what it does to its values.
CallClose(g) ==
  /\ contexts > 0
  /\ contexts' = contexts - 1
  /\ Call(g, "close", "close")

----------------------------------------------------------------------------
(* enter.                                                                  *)

\* An enter without its nil check.
EnterUnchecked(g) ==
  /\ At(g, "enter")
  /\ Goto(g, "pin")
  /\ UNCHANGED <<shared, guard, thread, pin, tid, frames, op, fault, careless>>

\* The unlocked nil check; a nil isolate makes enter return an error.
EnterCheck(g) ==
  /\ At(g, "enter")
  /\ Goto(g, IF ptr = "nil" THEN "run" ELSE "pin")
  /\ UNCHANGED <<shared, guard, thread, pin, tid, frames, op, fault, careless>>

\* An enter that reads the thread id and does not pin the goroutine to it.
ReadThreadOnly(g) ==
  /\ At(g, "pin")
  /\ tid' = [tid EXCEPT ![g] = thread[g]]
  /\ Goto(g, "acquire")
  /\ UNCHANGED <<shared, guard, thread, pin, frames, op, fault, careless>>

\* runtime.LockOSThread, then the thread id.
LockOSThread(g) ==
  /\ At(g, "pin")
  /\ pin' = [pin EXCEPT ![g] = @ + 1]
  /\ tid' = [tid EXCEPT ![g] = thread[g]]
  /\ Goto(g, "acquire")
  /\ UNCHANGED <<shared, guard, thread, frames, op, fault, careless>>

Entered(g) ==
  /\ depth' = depth + 1
  /\ frames' = [frames EXCEPT ![g] = @ + 1]
  /\ Goto(g, "entered")
  /\ UNCHANGED <<shared, thread, pin, tid, op, fault, careless>>

\* depth == 0: the caller becomes the owner.
AcquireFree(g) ==
  /\ At(g, "acquire")
  /\ depth = 0
  /\ ownerThread' = tid[g]
  /\ Entered(g)

\* A second caller takes the isolate over.
AcquireAnyone(g) ==
  /\ At(g, "acquire")
  /\ depth > 0
  /\ ownerThread' = tid[g]
  /\ Entered(g)

\* The owner's thread again: one level deeper.
AcquireAgain(g) ==
  /\ At(g, "acquire")
  /\ depth > 0
  /\ ownerThread = tid[g]
  /\ UNCHANGED ownerThread
  /\ Entered(g)

\* The refused caller stays pinned.
AcquireBusyPinned(g) ==
  /\ At(g, "acquire")
  /\ depth > 0
  /\ ownerThread # tid[g]
  /\ Goto(g, "run")
  /\ UNCHANGED <<shared, guard, thread, pin, tid, frames, op, fault, careless>>

\* The refused caller waits until the isolate is free.
AcquireBusyWaits(g) ==
  /\ At(g, "acquire")
  /\ depth > 0
  /\ ownerThread # tid[g]
  /\ UNCHANGED vars

\* Another thread owns the isolate: unpin and report "already in use".
AcquireBusy(g) ==
  /\ At(g, "acquire")
  /\ depth > 0
  /\ ownerThread # tid[g]
  /\ pin' = [pin EXCEPT ![g] = @ - 1]
  /\ Goto(g, "run")
  /\ UNCHANGED <<shared, guard, thread, tid, frames, op, fault, careless>>

Acquire(g) == AcquireFree(g) \/ AcquireAgain(g) \/ AcquireBusy(g)

----------------------------------------------------------------------------
(* The guarded bodies, the unguarded native call, and leave.               *)

\* v8::Locker (ISO_SCOPE) keeps other threads out while a call is inside V8.
InNative(g) ==
  \/ frames[g] > 0 /\ pc[g] \notin {"entered", "free", "clear", "leave"}
  \/ frames[g] > 1

\* The C call of an ordinary operation.  It reaches the isolate through
\* i.ptr or through the context's own copy of that pointer.
NativeCall(g) ==
  /\ At(g, "entered")
  /\ op[g] = "use"
  /\ IF native = "live"
     THEN Goto(g, "run") /\ UNCHANGED fault
     ELSE fault' = "useAfterDispose" /\ UNCHANGED pc
  /\ UNCHANGED <<shared, guard, thread, pin, tid, frames, op, careless>>

\* The C call, and with it the guarded method, is over.  A nested Dispose
\* has pulled the isolate from under it.
NativeReturn(g) ==
  /\ At(g, "run")
  /\ frames[g] > 0
  /\ IF native = "live"
     THEN Goto(g, "leave") /\ UNCHANGED fault
     ELSE fault' = "useAfterDispose" /\ UNCHANGED pc
  /\ UNCHANGED <<shared, guard, thread, pin, tid, frames, op, careless>>

\* deleteIsolateRef.
DisposeRef(g) ==
  /\ At(g, "entered")
  /\ op[g] = "dispose"
  /\ registered' = FALSE
  /\ Goto(g, "free")
  /\ UNCHANGED <<ptr, native, contexts, leftOpen, guard, thread, pin, tid, frames,
                 op, fault, careless>>

\* A Dispose that frees the pointer it read before it entered.
DisposeStalePtr(g) ==
  /\ At(g, "free")
  /\ Goto(g, "clear")
  /\ leftOpen' = (leftOpen \/ contexts > 0)
  /\ IF native = "freed"
     THEN fault' = "doubleDispose" /\ UNCHANGED native
     ELSE native' = "freed" /\ UNCHANGED fault
  /\ UNCHANGED <<ptr, registered, contexts, guard, thread, pin, tid, frames, op,
                 careless>>

\* GV8IsolateDispose(i.ptr), which ignores nil.
DisposeNative(g) ==
  /\ At(g, "free")
  /\ Goto(g, "clear")
  /\ leftOpen' = (leftOpen \/ contexts > 0)
  /\ IF ptr = "live" /\ native = "freed"
     THEN fault' = "doubleDispose" /\ UNCHANGED native
     ELSE native' = "freed" /\ UNCHANGED fault
  /\ UNCHANGED <<ptr, registered, contexts, guard, thread, pin, tid, frames, op,
                 careless>>

\* i.ptr = nil; the deferred leave follows.
DisposeClear(g) ==
  /\ At(g, "clear")
  /\ ptr' = "nil"
  /\ Goto(g, "leave")
  /\ UNCHANGED <<native, registered, contexts, leftOpen, guard, thread, pin, tid,
                 frames, op, fault, careless>>

\* The native side of the notifications and of HeapStatistics; it ignores nil
\* and waits for the Locker.
StatCall(g) ==
  /\ At(g, "stat")
  /\ \A h \in Goroutines \ {g} : ~InNative(h)
  /\ Goto(g, "run")
  /\ fault' = IF ptr = "live" /\ native = "freed" THEN "useAfterDispose"
                                                   ELSE "none"
  /\ UNCHANGED <<shared, guard, thread, pin, tid, frames, op, careless>>

\* GV8IsolateTerminateExecution and its cancellation ignore nil too, and take
\* no Locker: they are for a script that is running.
TerminateCall(g) ==
  /\ At(g, "terminate")
  /\ Goto(g, "run")
  /\ fault' = IF ptr = "live" /\ native = "freed" THEN "useAfterDispose"
                                                   ELSE "none"
  /\ UNCHANGED <<shared, guard, thread, pin, tid, frames, op, careless>>

\* GV8NewContext waits for the Locker of whatever i.ptr is.
NewContext(g) ==
  /\ At(g, "new")
  /\ \A h \in Goroutines \ {g} : ~InNative(h)
  /\ Goto(g, "run")
  /\ contexts' = contexts + 1
  /\ fault' = IF ptr = "nil" THEN "nilIsolate"
              ELSE IF native = "freed" THEN "useAfterDispose" ELSE "none"
  /\ UNCHANGED <<isolate, leftOpen, guard, thread, pin, tid, frames, op, careless>>

\* GV8ContextDispose takes no Locker and does not look at the isolate: it resets
\* V8 handles, which a freed isolate has taken with it.
CloseCall(g) ==
  /\ At(g, "close")
  /\ Goto(g, "run")
  /\ fault' = IF native = "freed" THEN "closeAfterDispose" ELSE "none"
  /\ UNCHANGED <<shared, guard, thread, pin, tid, frames, op, careless>>

\* A leave that forgets the thread of a nested call.
LeaveUnpinsAll(g) ==
  /\ At(g, "leave")
  /\ depth' = depth - 1
  /\ ownerThread' = IF depth = 1 THEN NoThread ELSE ownerThread
  /\ pin' = [pin EXCEPT ![g] = @ - 2]
  /\ frames' = [frames EXCEPT ![g] = @ - 1]
  /\ Goto(g, "run")
  /\ UNCHANGED <<shared, thread, tid, op, fault, careless>>

\* leave panics unless the calling thread owns the isolate.
Leave(g) ==
  /\ At(g, "leave")
  /\ IF depth = 0 \/ ownerThread # thread[g]
     THEN /\ fault' = "leavePanic"
          /\ UNCHANGED <<guard, pin, frames, pc>>
     ELSE /\ depth' = depth - 1
          /\ ownerThread' = IF depth = 1 THEN NoThread ELSE ownerThread
          /\ pin' = [pin EXCEPT ![g] = @ - 1]
          /\ frames' = [frames EXCEPT ![g] = @ - 1]
          /\ Goto(g, "run")
          /\ UNCHANGED fault
  /\ UNCHANGED <<shared, thread, tid, op, careless>>

----------------------------------------------------------------------------

CallStep(g) == \/ CallUse(g) \/ CallDispose(g) \/ CallStat(g)
               \/ CallTerminate(g) \/ CallNew(g) \/ CallClose(g)

EnterStep(g) == EnterCheck(g) \/ LockOSThread(g) \/ Acquire(g)

BodyStep(g) == \/ NativeCall(g) \/ NativeReturn(g)
               \/ DisposeRef(g) \/ DisposeNative(g) \/ DisposeClear(g)
               \/ StatCall(g) \/ TerminateCall(g)
               \/ NewContext(g) \/ CloseCall(g)
               \/ Leave(g)

Next == \E g \in Goroutines :
          Schedule(g) \/ Park(g) \/ CallStep(g) \/ EnterStep(g) \/ BodyStep(g)

Spec == Init /\ [][Next]_vars

(***************************************************************************)
(* Only the scheduler is trusted: a goroutine waiting for a thread gets    *)
(* one, and one that is scheduled again and again in the middle of enter   *)
(* eventually executes.  Nothing says that a script or a callback returns. *)
(***************************************************************************)
FairSpec == /\ Spec
            /\ \A g \in Goroutines : /\ WF_vars(Schedule(g))
                                     /\ SF_vars(EnterStep(g))

----------------------------------------------------------------------------
(* Properties.                                                             *)

\* README: "One isolate may have only one active caller at a time."  Two
\* goroutines never both have a guarded call in progress, although enter
\* compares thread ids and the scheduler moves goroutines between threads.
OneActiveCaller ==
  \A g, h \in Goroutines : frames[g] > 0 /\ frames[h] > 0 => g = h

\* leave (isolate.go:322) never panics with "released from non-owner
\* thread": the goroutine is still on the thread that entered.
LeaveNeverPanics == fault # "leavePanic"

\* Every path through enter and leave balances LockOSThread, the refused one
\* included: a goroutine outside the isolate is never left pinned, one
\* inside is never unpinned early.
PinsMatchFrames ==
  \A g \in Goroutines :
    pin[g] = frames[g] + (IF pc[g] = "acquire" THEN 1 ELSE 0)

\* Racing calls of Dispose free the native isolate once: the loser of the
\* unlocked nil check re-reads i.ptr under the guard, and C++ ignores nil.  And
\* isolateRefs never leads a promise-reject callback to a freed isolate: Dispose
\* drops the registration before it frees.
DisposedOnce ==
  /\ fault # "doubleDispose"
  /\ registered => native = "live"

\* If the host calls Dispose on an idle isolate and nothing while it runs, no
\* later call through i.ptr touches freed memory, the guarded methods and the
\* unguarded TerminateExecution, notifications and HeapStatistics alike: each
\* reads i.ptr again and finds nil.  (NewContext finds nil too, and dies of it:
\* the fault nilIsolate, which this does not forbid.)  Context.Close reaches the
\* isolate through the context's own handles, so it is safe only for a host that
\* has closed every context before Dispose.
NoUseAfterDispose ==
  ~careless => /\ fault # "useAfterDispose"
               /\ ~leftOpen => fault # "closeAfterDispose"

\* While the isolate is owned its owner does not change: a second caller
\* never takes it over.
OwnerIsStable ==
  [][depth > 0 /\ depth' > 0 => ownerThread' = ownerThread]_vars

\* enter is a try-lock: it returns whatever the owner is doing, even if the
\* owner's script never ends.
EnterReturns ==
  \A g \in Goroutines :
    (pc[g] \in Entering) ~> (pc[g] \notin Entering \/ fault # "none")

----------------------------------------------------------------------------
(* Refinement: the isolate is the reentrant try-lock of module Guard.      *)

Holder == IF depth = 0 THEN NoOne
          ELSE CHOOSE g \in Goroutines : frames[g] > 0

G == INSTANCE Guard WITH holder <- Holder, level <- depth,
                         alive <- (native = "live")

\* enter, leave and Dispose implement the reentrant try-lock on goroutines:
\* every step is one of its steps or changes nothing it knows of.
ImplementsGuard == G!GuardSpec
=============================================================================
