------------------------------ MODULE Handles ------------------------------
(***************************************************************************)
(* One Context and the handles made from it: the Go wrappers (Value), the  *)
(* native gv8_value behind each of them, the host functions registered for *)
(* JavaScript, and Close, which tears all of them down.                    *)
(*                                                                         *)
(* Three locks with different reach protect this state: the isolate guard  *)
(* (module Guard, which IsolateGuard implements) around native calls, c.mu *)
(* around the context's maps, hostFnMu around the global registry.  Close  *)
(* takes c.mu and hostFnMu for parts of its work and the isolate guard     *)
(* never; every gap between two critical sections is a place where another *)
(* goroutine may run, so each section is one step.                         *)
(*                                                                         *)
(* A goroutine runs one operation at a time here; nested operations inside *)
(* host callbacks are module HostCallback.                                 *)
(***************************************************************************)
EXTENDS Guard

CONSTANTS Values,      \* Go *Value objects, each created at most once
          HostFns,     \* callback ids; hostFnSeq never hands one out twice
          NoValue,     \* no value
          NoFn,        \* no callback id
          Recovers     \* the host recovers the panic of a refused call

ASSUME HandleConstants ==
  /\ NoOne \notin Goroutines
  /\ NoValue \notin Values
  /\ NoFn \notin HostFns
  /\ Recovers \in BOOLEAN

VARIABLES
  closed,      \* c.closed; the context's maps are nil from then on
  cptr,        \* c.ptr: "set" or "nil"
  cnat,        \* the native gv8_ctx: "live" or "freed"
  ctxRef,      \* ctxRefs[c.ref] exists
  careless,    \* history: Close overlapped with another call
  liveValues,  \* c.liveValues
  hostFnIDs,   \* c.hostFnIDs
  hostFnRefs,  \* the ids of this context in the global registry
  issued,      \* the callback ids handed out so far
  returned,    \* the callback ids whose *Function the host received
  vptr,        \* v.ptr of each Value: "unborn", "set" or "nil"
  nat,         \* the gv8_value behind it: "none", "live" or "freed"
  op, arg, res, fn,  \* each goroutine's call, its value argument, its
                     \* result and its callback id
  snapValues, snapFns,  \* Close's local copies of the context's maps
  pc,          \* where each goroutine is
  fault        \* what the process died of

context  == <<closed, cptr, cnat, ctxRef, careless>>
tracking == <<liveValues, hostFnIDs>>
registry == <<hostFnRefs, issued, returned>>
handles  == <<vptr, nat>>
locals   == <<op, arg, res, fn, snapValues, snapFns>>
hvars == <<gvars, context, tracking, registry, handles, locals, pc, fault>>

Ops == {"create", "derive", "use", "retain", "release", "function", "close"}
PCs == {"run", "register", "trackFn", "untrack", "enter", "native", "wrap",
        "track", "failed", "unset", "leave",
        "mark", "invalidate", "forget", "dispose", "clear"}
Faults == {"none", "panic", "nilDeref", "useAfterFree", "doubleFree"}

\* The steps of Close.
Closing == {"mark", "invalidate", "forget", "dispose", "clear"}

HandlesTypeOK ==
  /\ holder \in Goroutines \cup {NoOne}
  /\ level \in Nat
  /\ alive = TRUE
  /\ closed \in BOOLEAN
  /\ cptr \in {"set", "nil"}
  /\ cnat \in {"live", "freed"}
  /\ ctxRef \in BOOLEAN
  /\ careless \in BOOLEAN
  /\ liveValues \subseteq Values
  /\ hostFnIDs \subseteq issued
  /\ hostFnRefs \subseteq issued
  /\ returned \subseteq issued
  /\ issued \subseteq HostFns
  /\ vptr \in [Values -> {"unborn", "set", "nil"}]
  /\ nat \in [Values -> {"none", "live", "freed"}]
  /\ op \in [Goroutines -> Ops]
  /\ arg \in [Goroutines -> Values \cup {NoValue}]
  /\ res \in [Goroutines -> Values \cup {NoValue}]
  /\ fn \in [Goroutines -> HostFns \cup {NoFn}]
  /\ snapValues \in [Goroutines -> SUBSET Values]
  /\ snapFns \in [Goroutines -> SUBSET HostFns]
  /\ pc \in [Goroutines -> PCs]
  /\ fault \in Faults

\* NewContext has returned.
HandlesInit ==
  /\ GuardInit
  /\ closed = FALSE /\ cptr = "set" /\ cnat = "live" /\ ctxRef = TRUE
  /\ careless = FALSE
  /\ liveValues = {} /\ hostFnIDs = {}
  /\ hostFnRefs = {} /\ issued = {} /\ returned = {}
  /\ vptr = [v \in Values |-> "unborn"]
  /\ nat = [v \in Values |-> "none"]
  /\ op = [g \in Goroutines |-> "use"]
  /\ arg = [g \in Goroutines |-> NoValue]
  /\ res = [g \in Goroutines |-> NoValue]
  /\ fn = [g \in Goroutines |-> NoFn]
  /\ snapValues = [g \in Goroutines |-> {}]
  /\ snapFns = [g \in Goroutines |-> {}]
  /\ pc = [g \in Goroutines |-> "run"]
  /\ fault = "none"

----------------------------------------------------------------------------
(* The public calls, up to their first check.                              *)

At(g, label) == pc[g] = label /\ fault = "none"
Goto(g, label) == pc' = [pc EXCEPT ![g] = label]

\* Close starts while another call is in progress, or another call starts while
\* Close is.
Overlaps(o) ==
  \E h \in Goroutines : IF o = "close" THEN pc[h] # "run" ELSE pc[h] \in Closing

Call(g, o, v, label) ==
  /\ At(g, "run")
  /\ careless' = (careless \/ Overlaps(o))
  /\ op' = [op EXCEPT ![g] = o]
  /\ arg' = [arg EXCEPT ![g] = v]
  /\ Goto(g, label)
  /\ UNCHANGED <<gvars, closed, cptr, cnat, ctxRef, tracking, registry, handles,
                 res, fn, snapValues, snapFns, fault>>

\* Context.ensureOpen and Value.valid.
Open == ~closed /\ cptr = "set"
Valid(v) == vptr[v] = "set" /\ Open

\* RunScript, NewObject, NewArray, Global, NewPromiseResolver, JSONParse,
\* the New*Value constructors: a new value out of c.ptr.
CallCreate(g) == Open /\ Call(g, "create", NoValue, "enter")

\* Get, GetIdx, Call, CallMethod, Promise, Result: a new value out of v.ptr.
CallDerive(g, v) == Valid(v) /\ Call(g, "derive", v, "enter")

\* The Is* tests, conversions, Set, Resolve: v.ptr is read, nothing is made.
CallUse(g, v) == Valid(v) /\ Call(g, "use", v, "enter")

\* NewGlobalValue, GlobalValue.Value: a second native handle.
CallRetain(g, v) == Valid(v) /\ Call(g, "retain", v, "enter")

CallRelease(g, v) == vptr[v] = "set" /\ Call(g, "release", v, "untrack")

CallFunction(g) ==
  Open /\ issued # HostFns /\ Call(g, "function", NoValue, "register")

CallClose(g) == cptr = "set" /\ Call(g, "close", NoValue, "mark")

----------------------------------------------------------------------------
(* NewFunction before it enters; Release before it enters.                 *)

\* A registration that does not advance hostFnSeq.
RegisterSameId(g) ==
  /\ At(g, "register")
  /\ \E f \in HostFns \ issued :
       /\ hostFnRefs' = hostFnRefs \cup {f}
       /\ fn' = [fn EXCEPT ![g] = f]
  /\ Goto(g, "trackFn")
  /\ UNCHANGED <<gvars, context, tracking, issued, returned, handles,
                 op, arg, res, snapValues, snapFns, fault>>

\* registerHostFunction, under hostFnMu.
RegisterHostFunction(g) ==
  /\ At(g, "register")
  /\ \E f \in HostFns \ issued :
       /\ issued' = issued \cup {f}
       /\ hostFnRefs' = hostFnRefs \cup {f}
       /\ fn' = [fn EXCEPT ![g] = f]
  /\ Goto(g, "trackFn")
  /\ UNCHANGED <<gvars, context, tracking, returned, handles,
                 op, arg, res, snapValues, snapFns, fault>>

\* A trackHostFunction that forgets the closed context.
TrackHostFunctionAnyway(g) ==
  /\ At(g, "trackFn")
  /\ hostFnIDs' = hostFnIDs \cup {fn[g]}
  /\ Goto(g, "enter")
  /\ UNCHANGED <<gvars, context, liveValues, registry, handles, locals, fault>>

\* trackHostFunction, under c.mu: too late for Close means unregister.
TrackHostFunction(g) ==
  /\ At(g, "trackFn")
  /\ IF closed
     THEN hostFnRefs' = hostFnRefs \ {fn[g]} /\ UNCHANGED hostFnIDs
     ELSE hostFnIDs' = hostFnIDs \cup {fn[g]} /\ UNCHANGED hostFnRefs
  /\ Goto(g, "enter")
  /\ UNCHANGED <<gvars, context, liveValues, issued, returned, handles,
                 locals, fault>>

\* untrackValue, under c.mu; a nil map is left alone.
UntrackValue(g) ==
  /\ At(g, "untrack")
  /\ liveValues' = liveValues \ {arg[g]}
  /\ Goto(g, "enter")
  /\ UNCHANGED <<gvars, context, hostFnIDs, registry, handles, locals, fault>>

----------------------------------------------------------------------------
(* The guard.                                                              *)

Enter(g) ==
  /\ At(g, "enter")
  /\ Take(g)
  /\ Goto(g, "native")
  /\ UNCHANGED <<context, tracking, registry, handles, locals, fault>>

\* A refused NewFunction that unregisters all of its context's functions.
RefuseDropsAll(g) ==
  /\ At(g, "enter")
  /\ holder \notin {NoOne, g}
  /\ Goto(g, "run")
  /\ hostFnRefs' = IF op[g] = "function" THEN hostFnRefs \ hostFnIDs
                                         ELSE hostFnRefs
  /\ UNCHANGED fault
  /\ UNCHANGED <<gvars, context, tracking, issued, returned, handles, locals>>

\* The isolate is in use.  NewFunction takes its registration back.  enter
\* makes the call return an error, mustEnter makes it panic: Release always,
\* NewFunction and the retaining calls never, the others depending on the
\* method (Global, the Is* tests, Promise, Result and so on use mustEnter).
Refuse(g) ==
  /\ At(g, "enter")
  /\ holder \notin {NoOne, g}
  /\ hostFnRefs' = IF op[g] = "function" THEN hostFnRefs \ {fn[g]}
                                         ELSE hostFnRefs
  /\ \/ /\ op[g] # "release" \/ Recovers
        /\ Goto(g, "run")
        /\ UNCHANGED fault
     \/ /\ op[g] \notin {"function", "retain"} /\ ~Recovers
        /\ fault' = "panic"
        /\ UNCHANGED pc
  /\ UNCHANGED <<gvars, context, tracking, issued, returned, handles, locals>>

\* The deferred release function.
Leave(g) ==
  /\ At(g, "leave")
  /\ Give(g)
  /\ Goto(g, "run")
  /\ UNCHANGED <<context, tracking, registry, handles, locals, fault>>

----------------------------------------------------------------------------
(* The native calls.                                                       *)

Dies(f) == fault' = f /\ UNCHANGED <<pc, handles>>
Proceeds(g, label) == Goto(g, label) /\ UNCHANGED <<handles, fault>>

\* CTX_SCOPE on c.ptr, which is read now, under the guard.
NativeFromContext(g) ==
  /\ At(g, "native")
  /\ op[g] \in {"create", "function"}
  /\ CASE cptr = "nil"   -> Dies("nilDeref")
       [] cnat = "freed" /\ cptr = "set" -> Dies("useAfterFree")
       [] OTHER          -> Proceeds(g, "wrap")
  /\ UNCHANGED <<gvars, context, tracking, registry, locals>>

\* v.ptr is read again under the guard.  Retain and a few accessors accept
\* nil, the others dereference it.
NativeFromValue(g) ==
  /\ At(g, "native")
  /\ op[g] \in {"derive", "use", "retain"}
  /\ CASE vptr[arg[g]] = "nil" ->
            \/ op[g] # "retain" /\ Dies("nilDeref")
            \/ op[g] # "derive" /\ Proceeds(g, "leave")
       [] vptr[arg[g]] # "nil" /\ nat[arg[g]] = "freed" ->
            Dies("useAfterFree")
       [] OTHER -> Proceeds(g, IF op[g] = "use" THEN "leave" ELSE "wrap")
  /\ UNCHANGED <<gvars, context, tracking, registry, locals>>

\* A Release that frees the pointer it read before it entered.
NativeReleaseStale(g) ==
  /\ At(g, "native")
  /\ op[g] = "release"
  /\ IF nat[arg[g]] = "freed"
     THEN Dies("doubleFree")
     ELSE /\ nat' = [nat EXCEPT ![arg[g]] = "freed"]
          /\ Goto(g, "unset")
          /\ UNCHANGED <<vptr, fault>>
  /\ UNCHANGED <<gvars, context, tracking, registry, locals>>

\* GV8ValueRelease(v.ptr), which ignores nil.
NativeRelease(g) ==
  /\ At(g, "native")
  /\ op[g] = "release"
  /\ IF vptr[arg[g]] = "nil"
     THEN Proceeds(g, "unset")
     ELSE IF nat[arg[g]] = "freed"
     THEN Dies("doubleFree")
     ELSE /\ nat' = [nat EXCEPT ![arg[g]] = "freed"]
          /\ Goto(g, "unset")
          /\ UNCHANGED <<vptr, fault>>
  /\ UNCHANGED <<gvars, context, tracking, registry, locals>>

\* A Release that leaves v.ptr behind.
ReleaseKeepsPtr(g) ==
  /\ At(g, "unset")
  /\ Goto(g, "leave")
  /\ UNCHANGED <<gvars, context, tracking, registry, handles, locals, fault>>

\* v.ptr = nil, a line after the native release: until then valid(), which takes
\* no lock, is true of the freed handle.
ReleaseUnset(g) ==
  /\ At(g, "unset")
  /\ vptr' = [vptr EXCEPT ![arg[g]] = "nil"]
  /\ Goto(g, "leave")
  /\ UNCHANGED <<gvars, context, tracking, registry, nat, locals, fault>>

\* The call ends in wrapValue, which records the new handle in the native
\* context; or in an exception, and there is no handle.
WrapValue(g) ==
  /\ At(g, "wrap")
  /\ \/ /\ cnat = "freed"
        /\ Dies("useAfterFree")
        /\ UNCHANGED res
     \/ /\ cnat = "live"
        /\ \E v \in Values :
             /\ nat[v] = "none"
             /\ nat' = [nat EXCEPT ![v] = "live"]
             /\ res' = [res EXCEPT ![g] = v]
        /\ Goto(g, "track")
        /\ UNCHANGED <<vptr, fault>>
     \/ /\ cnat = "live"
        /\ Proceeds(g, IF op[g] = "function" THEN "failed" ELSE "leave")
        /\ UNCHANGED res
  /\ UNCHANGED <<gvars, context, tracking, registry,
                 op, arg, fn, snapValues, snapFns>>

\* A newValue that hands out the pointer although the context is closed.
TrackValueAnyway(g) ==
  /\ At(g, "track")
  /\ vptr' = [vptr EXCEPT ![res[g]] = "set"]
  /\ liveValues' = IF closed THEN liveValues ELSE liveValues \cup {res[g]}
  /\ returned' = IF op[g] = "function" THEN returned \cup {fn[g]} ELSE returned
  /\ Goto(g, "leave")
  /\ UNCHANGED <<gvars, context, hostFnIDs, hostFnRefs, issued, nat, locals,
                 fault>>

\* newValue and trackValue, under c.mu: too late for Close means invalidate.
TrackValue(g) ==
  /\ At(g, "track")
  /\ vptr' = [vptr EXCEPT ![res[g]] = IF closed THEN "nil" ELSE "set"]
  /\ liveValues' = IF closed THEN liveValues ELSE liveValues \cup {res[g]}
  /\ returned' = IF op[g] = "function" THEN returned \cup {fn[g]} ELSE returned
  /\ Goto(g, "leave")
  /\ UNCHANGED <<gvars, context, hostFnIDs, hostFnRefs, issued, nat, locals,
                 fault>>

\* NewFunction got an exception: it takes the registration back.
UnregisterFailed(g) ==
  /\ At(g, "failed")
  /\ hostFnRefs' = hostFnRefs \ {fn[g]}
  /\ Goto(g, "leave")
  /\ UNCHANGED <<gvars, context, tracking, issued, returned, handles, locals,
                 fault>>

----------------------------------------------------------------------------
(* Close.                                                                  *)

\* A Close that does not look at c.closed.
CloseMarkAgain(g) ==
  /\ At(g, "mark")
  /\ closed' = TRUE
  /\ snapValues' = [snapValues EXCEPT ![g] = liveValues]
  /\ snapFns' = [snapFns EXCEPT ![g] = hostFnIDs]
  /\ liveValues' = {}
  /\ hostFnIDs' = {}
  /\ Goto(g, "invalidate")
  /\ UNCHANGED <<gvars, cptr, cnat, ctxRef, careless, registry, handles,
                 op, arg, res, fn, fault>>

\* Under c.mu: the first closer wins and takes the maps.
CloseMark(g) ==
  /\ At(g, "mark")
  /\ IF closed
     THEN /\ Goto(g, "run")
          /\ UNCHANGED <<closed, tracking, snapValues, snapFns>>
     ELSE /\ closed' = TRUE
          /\ snapValues' = [snapValues EXCEPT ![g] = liveValues]
          /\ snapFns' = [snapFns EXCEPT ![g] = hostFnIDs]
          /\ liveValues' = {}
          /\ hostFnIDs' = {}
          /\ Goto(g, "invalidate")
  /\ UNCHANGED <<gvars, cptr, cnat, ctxRef, careless, registry, handles,
                 op, arg, res, fn, fault>>

\* The loop over the copied values, in any order, without c.mu.
CloseInvalidate(g) ==
  /\ At(g, "invalidate")
  /\ \E v \in snapValues[g] :
       /\ vptr' = [vptr EXCEPT ![v] = "nil"]
       /\ snapValues' = [snapValues EXCEPT ![g] = @ \ {v}]
  /\ UNCHANGED <<gvars, context, tracking, registry, nat,
                 op, arg, res, fn, snapFns, pc, fault>>

\* unregisterHostFunctions, under hostFnMu.
CloseUnregister(g) ==
  /\ At(g, "invalidate")
  /\ snapValues[g] = {}
  /\ hostFnRefs' = hostFnRefs \ snapFns[g]
  /\ Goto(g, "forget")
  /\ UNCHANGED <<gvars, context, tracking, issued, returned, handles, locals,
                 fault>>

\* deleteContext, under ctxMu.
CloseForget(g) ==
  /\ At(g, "forget")
  /\ ctxRef' = FALSE
  /\ Goto(g, "dispose")
  /\ UNCHANGED <<gvars, closed, cptr, cnat, careless, tracking, registry, handles,
                 locals, fault>>

\* GV8ContextDispose(c.ptr): every handle recorded in the native context
\* and the context itself are freed, without the guard and without a Locker.
CloseDispose(g) ==
  /\ At(g, "dispose")
  /\ IF cptr = "set" /\ cnat = "freed"
     THEN fault' = "doubleFree" /\ UNCHANGED <<nat, cnat, pc>>
     ELSE /\ cnat' = "freed"
          /\ nat' = [v \in Values |-> IF nat[v] = "live" THEN "freed" ELSE nat[v]]
          /\ Goto(g, "clear")
          /\ UNCHANGED fault
  /\ UNCHANGED <<gvars, closed, cptr, ctxRef, careless, tracking, registry, vptr,
                 locals>>

CloseClear(g) ==
  /\ At(g, "clear")
  /\ cptr' = "nil"
  /\ Goto(g, "run")
  /\ UNCHANGED <<gvars, closed, cnat, ctxRef, careless, tracking, registry, handles,
                 locals, fault>>

----------------------------------------------------------------------------

CallStep(g) ==
  \/ CallCreate(g) \/ CallFunction(g) \/ CallClose(g)
  \/ \E v \in Values : \/ CallDerive(g, v) \/ CallUse(g, v)
                       \/ CallRetain(g, v) \/ CallRelease(g, v)

BookStep(g) == RegisterHostFunction(g) \/ TrackHostFunction(g) \/ UntrackValue(g)

GuardStep(g) == Enter(g) \/ Refuse(g) \/ Leave(g)

NativeStep(g) ==
  \/ NativeFromContext(g) \/ NativeFromValue(g) \/ NativeRelease(g)
  \/ ReleaseUnset(g) \/ WrapValue(g) \/ TrackValue(g) \/ UnregisterFailed(g)

CloseStep(g) ==
  \/ CloseMark(g) \/ CloseInvalidate(g) \/ CloseUnregister(g)
  \/ CloseForget(g) \/ CloseDispose(g) \/ CloseClear(g)

HandlesNext ==
  \E g \in Goroutines : \/ CallStep(g) \/ BookStep(g) \/ GuardStep(g)
                        \/ NativeStep(g) \/ CloseStep(g)

HandlesSpec == HandlesInit /\ [][HandlesNext]_hvars

\* A started Close and a started registration go on: neither waits for the
\* guard, and the mutexes they take are held for a bounded time.
HandlesFairSpec ==
  /\ HandlesSpec
  /\ \A g \in Goroutines : WF_hvars(BookStep(g)) /\ WF_hvars(CloseStep(g))

----------------------------------------------------------------------------
(* Properties.                                                             *)

\* NewFunction is between its registration and trackHostFunction.
Registering(f) == \E g \in Goroutines : pc[g] = "trackFn" /\ fn[g] = f

\* Close has copied f and has not unregistered it yet.
AboutToForget(f) ==
  \E g \in Goroutines : pc[g] = "invalidate" /\ f \in snapFns[g]

\* host_test.go TestContextCloseReleasesHostFunctions, for every interleaving
\* of NewFunction with Close: a registration that outlives Close belongs to a
\* NewFunction or a Close that is still going to drop it.
NoHostFunctionLeak ==
  closed => \A f \in hostFnRefs : Registering(f) \/ AboutToForget(f)

\* A host function the host received stays callable from JavaScript until
\* Close: no failing or refused NewFunction unregisters another's id.
FunctionStaysCallable == ~closed => returned \subseteq hostFnRefs

\* A guarded call that is not Release itself between its two last lines.
Guarded(g) == pc[g] \in {"native", "wrap", "track", "failed", "leave"}

\* Value.valid() can be trusted inside the guard: what a guarded call finds valid
\* has a live native handle, whatever Release and Close calls run elsewhere.
\* Outside the guard it cannot: between value.go:58 and value.go:59 it is true
\* of a freed handle, which is why every method reads v.ptr again after enter.
ValidIsLive ==
  \A g \in Goroutines, v \in Values : Guarded(g) /\ Valid(v) => nat[v] = "live"

\* context.go:74 "Close releases the native context and invalidates any live
\* values created from it": once Close is done no Go value keeps a pointer,
\* unless its own Release is on the way to clear it.
CloseInvalidates ==
  cptr = "nil" =>
    \A v \in Values : vptr[v] = "set" =>
      \E g \in Goroutines :
        op[g] = "release" /\ arg[g] = v /\ pc[g] \in {"enter", "native", "unset"}

\* Two goroutines in Close free the native context once, and a context found
\* through ctxRefs by a callback is not freed yet.
ContextFreedOnce ==
  /\ ctxRef => cnat = "live"
  /\ \A g, h \in Goroutines :
       pc[g] \in Closing \ {"mark"} /\ pc[h] \in Closing \ {"mark"} => g = h

\* As long as Close has run alone, the guard keeps every other interleaving of calls
\* on shared values from touching freed memory or freeing twice: two
\* goroutines in Release of one value, or one in Release and one in Get.
MemorySafe ==
  ~careless /\ ~Recovers =>
    fault \notin {"useAfterFree", "doubleFree"}

\* Once Close is under way the registry is emptied, whatever NewFunction
\* calls are in flight.
RegistryDrains == closed ~> (hostFnRefs = {} \/ fault # "none")
=============================================================================
