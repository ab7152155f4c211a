---------------------------- MODULE HostCallback ----------------------------
(***************************************************************************)
(* Reentrancy: a script calls a host function, which calls gv8 again, on   *)
(* one goroutine.  The README allows it: "Reentrant calls on the same      *)
(* thread are allowed."                                                    *)
(*                                                                         *)
(* The subject is who owns a native gv8_value.  Arguments are lent to the  *)
(* callback (wrapBorrowedValue, id 0): C++ frees them when the callback    *)
(* returns and the Go wrappers must be dead by then.  The result is handed *)
(* over (handoffHostValue): Go retains a second native handle for C++ to   *)
(* free and gives up its own.  Everything else is recorded in the native   *)
(* context and in c.liveValues, and belongs to a Go wrapper.               *)
(*                                                                         *)
(* A Go wrapper points to one native handle for life, so wrappers and      *)
(* handles share an index.  With one goroutine every call into gv8 is      *)
(* atomic, except that JavaScript is a frame of the stack: a script, a     *)
(* function, a getter or setter, microtasks.  Native code below that frame *)
(* holds pointers it reads once the JavaScript has returned.               *)
(***************************************************************************)
EXTENDS Naturals, Sequences, SequencesExt

CONSTANTS Natives,         \* memory for native handles and their wrappers
          NoNative,        \* no handle
          MaxStack         \* bound: scripts and callbacks on the stack

ASSUME CallbackConstants ==
  /\ NoNative \notin Natives
  /\ MaxStack \in Nat \ {0}

VARIABLES
  stack,       \* the scripts and callbacks in progress, innermost last
  nat,         \* native handles: "none", "live" or "freed"
  tracked,     \* the handles recorded in the native context (id # 0)
  wrapper,     \* the Go wrapper of a handle: "none", "set", "nil", or "temp"
               \* if it is set and only the call that made it knows it
  liveValues,  \* c.liveValues
  abandoned,   \* method handles that GV8ObjectCallMethod looked up
  closed,      \* c.closed; then also c.ptr is nil and the gv8_ctx is freed
  fault        \* what the process died of

cbvars == <<stack, nat, tracked, wrapper, liveValues, abandoned, closed, fault>>

\* A frame of JavaScript: what it runs for, the handles that native code reads
\* when it has returned, and the handles made for the arguments of the call.
JS(kind, reads, temps) ==
  [kind |-> kind, args |-> {}, result |-> NoNative, reads |-> reads, temps |-> temps]
Go(kind, lent, r) ==
  [kind |-> kind, args |-> lent, result |-> r, reads |-> {}, temps |-> {}]

Callback(lent) == Go("callback", lent, NoNative)
Returning(lent, r) == Go("returning", lent, r)

JSKinds == {"script", "lookup", "call", "effect"}

Frames == [kind : JSKinds \cup {"callback", "returning"},
           args : SUBSET Natives,
           result : Natives \cup {NoNative},
           reads : SUBSET Natives,
           temps : SUBSET Natives]

CallbackTypeOK ==
  /\ stack \in Seq(Frames) /\ Len(stack) <= MaxStack
  /\ nat \in [Natives -> {"none", "live", "freed"}]
  /\ tracked \subseteq Natives
  /\ wrapper \in [Natives -> {"none", "set", "nil", "temp"}]
  /\ liveValues \subseteq Natives
  /\ abandoned \subseteq Natives
  /\ closed \in BOOLEAN
  /\ fault \in {"none", "nilDeref", "nilArg", "useAfterFree", "doubleFree"}

CallbackInit ==
  /\ stack = <<>>
  /\ nat = [n \in Natives |-> "none"]
  /\ tracked = {}
  /\ wrapper = [n \in Natives |-> "none"]
  /\ liveValues = {}
  /\ abandoned = {}
  /\ closed = FALSE
  /\ fault = "none"

----------------------------------------------------------------------------
(* Helpers.                                                                *)

InUse(n) == \E i \in 1..Len(stack) :
  n \in stack[i].args \cup {stack[i].result} \cup stack[i].reads \cup stack[i].temps

\* Memory the allocator may hand out.  A pointer to what it was may be left in
\* a native frame; then it stays apart here, so that reading it shows.
Fresh == {n \in Natives :
            nat[n] # "live" /\ wrapper[n] \notin {"set", "temp"} /\ ~InUse(n)}

\* value.borrowed: the native handle has id 0.
Borrowed(n) == wrapper[n] # "none" /\ n \notin tracked

\* value.valid()
Valid(n) == wrapper[n] = "set" /\ ~closed

\* What is running: host code at the top level or in a callback, JavaScript,
\* or C++ finishing a callback.
Innermost == IF stack = <<>> THEN "host" ELSE Last(stack).kind
InGo == fault = "none" /\ Innermost \in {"host", "callback"}
InScript == fault = "none" /\ Innermost \in JSKinds
InCallback == fault = "none" /\ Innermost = "callback"

Crash(f) == fault' = f /\ UNCHANGED <<stack, nat, tracked, wrapper, liveValues,
                                      abandoned, closed>>

\* Native handles that are recorded in the context, with wrappers in Go.
Made(new, w) ==
  /\ nat' = [n \in Natives |-> IF n \in new THEN "live" ELSE nat[n]]
  /\ tracked' = tracked \cup new
  /\ wrapper' = [n \in Natives |-> IF n \in new THEN w ELSE wrapper[n]]
  /\ liveValues' = liveValues \cup new

\* No temporary, or one: materializeArgs makes one for each argument that is
\* not a value already.
Temporaries == {{}} \cup {{n} : n \in Fresh}

----------------------------------------------------------------------------
(* Host calls.                                                             *)

\* RunScript, UnboundScript.Run, Module.Evaluate: native code takes over and
\* afterwards uses only the context.
RunScript ==
  /\ InGo /\ ~closed
  /\ Len(stack) < MaxStack
  /\ stack' = Append(stack, JS("script", {}, {}))
  /\ UNCHANGED <<nat, tracked, wrapper, liveValues, abandoned, closed, fault>>

\* Function.Call, Object.Get, Object.GetIdx: the arguments are copied to Locals
\* first, but value_ptr->ctx of the callee is read after the JavaScript.
CallValue ==
  /\ InGo
  /\ Len(stack) < MaxStack
  /\ \E f \in Natives, t \in Temporaries :
       /\ Valid(f)
       /\ Made(t, "temp")
       /\ stack' = Append(stack, JS("call", {f}, t))
  /\ UNCHANGED <<abandoned, closed, fault>>

\* Object.CallMethod starts with GV8ObjectGet of the method, which may be a
\* getter.  The object and the arguments are read when it has returned.
CallMethod ==
  /\ InGo
  /\ Len(stack) < MaxStack
  /\ \E o, a \in Natives, t \in Temporaries :
       /\ Valid(o) /\ Valid(a)
       /\ Made(t, "temp")
       /\ stack' = Append(stack, JS("lookup", {o, a} \cup t, t))
  /\ UNCHANGED <<abandoned, closed, fault>>

\* Object.Set, SetIdx, Has, Len, PromiseResolver.Resolve: JavaScript may run and
\* nothing is read afterwards.
Effect ==
  /\ InGo
  /\ Len(stack) < MaxStack
  /\ \E o \in Natives, t \in Temporaries :
       /\ Valid(o)
       /\ Made(t, "temp")
       /\ stack' = Append(stack, JS("effect", {}, t))
  /\ UNCHANGED <<abandoned, closed, fault>>

\* Isolate.PerformMicrotaskCheckpoint needs no context: microtasks of a closed
\* one run too.
PerformMicrotaskCheckpoint ==
  /\ InGo
  /\ Len(stack) < MaxStack
  /\ stack' = Append(stack, JS("effect", {}, {}))
  /\ UNCHANGED <<nat, tracked, wrapper, liveValues, abandoned, closed, fault>>

\* An argument that is a released value: cArgv passes its nil pointer on.
CallWithStaleArg ==
  /\ InGo
  /\ \E f, a \in Natives : Valid(f) /\ wrapper[a] = "nil"
  /\ Crash("nilArg")

\* Error path of materializeArgs that forgets the cleanups.
RefuseArgsKeepsTemps ==
  /\ InGo
  /\ \E f \in Natives, t \in Temporaries \ {{}} : Valid(f) /\ Made(t, "temp")
  /\ UNCHANGED <<stack, abandoned, closed, fault>>

\* An argument of an unsupported type after one that needed a temporary, which
\* is made and released.
RefuseArgs ==
  /\ InGo
  /\ \E f \in Natives, t \in Fresh :
       /\ Valid(f)
       /\ nat' = [nat EXCEPT ![t] = "freed"]
       /\ wrapper' = [wrapper EXCEPT ![t] = "nil"]
  /\ UNCHANGED <<stack, tracked, liveValues, abandoned, closed, fault>>

\* A constructor, or Retain of a usable value: a new tracked handle.
NewHandle ==
  /\ InGo /\ ~closed
  /\ \E n \in Fresh : Made({n}, "set")
  /\ UNCHANGED <<stack, abandoned, closed, fault>>

\* Value.Release.  A borrowed wrapper only forgets its pointer.
Release ==
  /\ InGo
  /\ \E n \in Natives :
       /\ wrapper[n] = "set"
       /\ IF Borrowed(n) THEN UNCHANGED <<nat, tracked, liveValues, fault>>
          ELSE /\ liveValues' = liveValues \ {n}
               /\ tracked' = tracked \ {n}
               /\ nat' = [nat EXCEPT ![n] = "freed"]
               /\ fault' = IF nat[n] = "freed" THEN "doubleFree" ELSE "none"
       /\ wrapper' = [wrapper EXCEPT ![n] = "nil"]
  /\ UNCHANGED <<stack, abandoned, closed>>

\* Close frees every tracked handle and invalidates every tracked wrapper.
\* Borrowed ones are in neither map.
Close ==
  /\ InGo /\ ~closed
  /\ closed' = TRUE
  /\ wrapper' = [n \in Natives |-> IF n \in liveValues THEN "nil" ELSE wrapper[n]]
  /\ nat' = [n \in Natives |-> IF n \in tracked THEN "freed" ELSE nat[n]]
  /\ tracked' = {}
  /\ liveValues' = {}
  /\ abandoned' = {}
  /\ UNCHANGED <<stack, fault>>

----------------------------------------------------------------------------
(* A script calls a host function.                                         *)

\* HostFunctionCallback: lend the receiver and the arguments, alike here.  An open
\* context knows its functions, so gv8FunctionCallback finds the callback: its
\* answer for a callback that is gone needs a Close by another goroutine that has
\* unregistered the functions and not freed the context yet.
CallHostFunction ==
  /\ InScript
  /\ Len(stack) < MaxStack
  /\ \/ closed /\ Crash("useAfterFree")
     \/ /\ ~closed
        /\ \E n \in Fresh :
             /\ nat' = [nat EXCEPT ![n] = "live"]
             /\ wrapper' = [wrapper EXCEPT ![n] = "set"]
             /\ stack' = Append(stack, Callback({n}))
        /\ UNCHANGED <<tracked, liveValues, abandoned, closed, fault>>

\* The lent wrappers of a frame are invalidated.
Invalidated(w, lent) == [n \in Natives |-> IF n \in lent THEN "nil" ELSE w[n]]

ReplaceTop(f) == stack' = Append(Front(stack), f)

\* A handoff without the nil check: the null handle is retained and recorded.
ReturnNil ==
  /\ InCallback
  /\ wrapper' = Invalidated(wrapper, Last(stack).args)
  /\ tracked' = tracked \cup {NoNative}
  /\ ReplaceTop(Returning(Last(stack).args, NoNative))
  /\ UNCHANGED <<nat, liveValues, abandoned, closed, fault>>

\* A callback that leaves its arguments' wrappers alone.
ReturnKeepsArgs ==
  /\ InCallback
  /\ ReplaceTop(Returning(Last(stack).args, NoNative))
  /\ UNCHANGED <<nat, tracked, wrapper, liveValues, abandoned, closed, fault>>

\* The host function returns nil, or a value whose pointer is gone.
ReturnNothing ==
  /\ InCallback
  /\ wrapper' = Invalidated(wrapper, Last(stack).args)
  /\ ReplaceTop(Returning(Last(stack).args, NoNative))
  /\ UNCHANGED <<nat, tracked, liveValues, abandoned, closed, fault>>

\* A handoff that gives C++ the wrapper's own handle and keeps the wrapper.
ReturnUnretained ==
  /\ InCallback
  /\ \E n \in Natives :
       /\ wrapper[n] = "set"
       /\ wrapper' = Invalidated(wrapper, Last(stack).args \ {n})
       /\ ReplaceTop(Returning(Last(stack).args, n))
  /\ UNCHANGED <<nat, tracked, liveValues, abandoned, closed, fault>>

\* The host function returns a value, its own or a lent one: the handle is
\* retained for C++, then the wrapper gives up its pointer.
ReturnValue ==
  /\ InCallback
  /\ \E n \in Natives, r \in Fresh :
       /\ wrapper[n] = "set"
       /\ IF closed
          THEN Crash("useAfterFree")
          ELSE /\ nat' = IF Borrowed(n)
                         THEN [nat EXCEPT ![r] = "live"]
                         ELSE [nat EXCEPT ![r] = "live", ![n] = "freed"]
               /\ tracked' = (tracked \ {n}) \cup {r}
               /\ liveValues' = liveValues \ {n}
               /\ wrapper' = Invalidated([wrapper EXCEPT ![n] = "nil"],
                                         Last(stack).args)
               /\ ReplaceTop(Returning(Last(stack).args, r))
               /\ UNCHANGED <<abandoned, closed, fault>>

\* The host function returns an error: newErrorValue makes a JavaScript
\* Error, without looking whether the context is open, and hands it over.
ReturnError ==
  /\ InCallback
  /\ \/ closed /\ Crash("nilDeref")
     \/ /\ ~closed
        /\ \E r \in Fresh :
             /\ nat' = [nat EXCEPT ![r] = "live"]
             /\ tracked' = tracked \cup {r}
             /\ ReplaceTop(Returning(Last(stack).args, r))
        /\ wrapper' = Invalidated(wrapper, Last(stack).args)
        /\ UNCHANGED <<liveValues, abandoned, closed, fault>>

\* A return path of C++ that forgets the handle it was given.
FinishKeepsResult ==
  /\ fault = "none" /\ Innermost = "returning"
  /\ nat' = [n \in Natives |-> IF n \in Last(stack).args THEN "freed" ELSE nat[n]]
  /\ stack' = Front(stack)
  /\ UNCHANGED <<tracked, wrapper, liveValues, abandoned, closed, fault>>

\* Back in HostFunctionCallback: free what was lent and what was handed over,
\* then throw or return into the script.
FinishCallback ==
  /\ fault = "none" /\ Innermost = "returning"
  /\ LET lent == Last(stack).args
         r == Last(stack).result
     IN /\ fault' = IF \E n \in lent \cup ({r} \ {NoNative}) : nat[n] = "freed"
                    THEN "doubleFree" ELSE "none"
        /\ nat' = [n \in Natives |-> IF n \in lent \cup {r} THEN "freed" ELSE nat[n]]
        /\ tracked' = tracked \ {r}
  /\ stack' = Front(stack)
  /\ UNCHANGED <<wrapper, liveValues, abandoned, closed>>

\* What native code reads once the JavaScript of the innermost frame is done.
\* The context of a handle is read through the handle.
Dangling == closed \/ \E n \in Last(stack).reads : nat[n] = "freed"

\* The temporaries of the call that are still valid are released, and the
\* result, if there is one, gets a handle and a wrapper.
Unwind(new) ==
  LET done == {n \in Last(stack).temps : wrapper[n] = "temp"}
  IN /\ nat' = [n \in Natives |-> IF n \in new THEN "live"
                                  ELSE IF n \in done THEN "freed" ELSE nat[n]]
     /\ tracked' = (tracked \ done) \cup new
     /\ liveValues' = (liveValues \ done) \cup new
     /\ wrapper' = [n \in Natives |-> IF n \in new THEN "set"
                                      ELSE IF n \in done THEN "nil" ELSE wrapper[n]]
     /\ stack' = Front(stack)

\* GV8ObjectCallMethod has its method: a handle that nobody releases is recorded
\* for it and the call begins.
LookupReturns ==
  /\ InScript /\ Innermost = "lookup"
  /\ \/ Dangling /\ Crash("useAfterFree")
     \/ /\ ~Dangling
        /\ \E m \in Fresh :
             /\ nat' = [nat EXCEPT ![m] = "live"]
             /\ tracked' = tracked \cup {m}
             /\ wrapper' = [wrapper EXCEPT ![m] = "none"]
             /\ abandoned' = abandoned \cup {m}
             /\ ReplaceTop(JS("call", {m}, Last(stack).temps))
        /\ UNCHANGED <<liveValues, closed, fault>>

\* The JavaScript ends with a value: wrapValue records it in the native context
\* and newValue in c.liveValues.
ScriptReturns ==
  /\ InScript /\ Innermost \in {"script", "call"}
  /\ \/ Dangling /\ Crash("useAfterFree")
     \/ /\ ~Dangling
        /\ \E n \in Fresh : Unwind({n})
        /\ UNCHANGED <<abandoned, closed, fault>>

\* It ends with an exception, which ExceptionError reads through its own Local
\* of the context, or nobody asked for a value.
EndsWithoutValue ==
  /\ InScript
  /\ Unwind({})
  /\ UNCHANGED <<abandoned, closed, fault>>

CallbackNext ==
  \/ RunScript \/ CallValue \/ CallMethod \/ Effect \/ PerformMicrotaskCheckpoint
  \/ CallWithStaleArg \/ RefuseArgs \/ NewHandle \/ Release \/ Close
  \/ CallHostFunction
  \/ ReturnNothing \/ ReturnValue \/ ReturnError \/ FinishCallback
  \/ LookupReturns \/ ScriptReturns \/ EndsWithoutValue

CallbackSpec == CallbackInit /\ [][CallbackNext]_cbvars

----------------------------------------------------------------------------
(* Properties.                                                             *)

\* README: "Reentrant calls on the same thread are allowed."  Scripts that
\* call host functions that run scripts never touch freed memory, with three
\* exceptions: JavaScript of a context that a host function, or the host
\* before it runs microtasks, has closed; a call whose callee, object or (for
\* CallMethod) argument a host function below it has released; and an argument
\* released before the call.
ReentrantCallsAreSafe ==
  \/ fault \in {"none", "nilArg"}
  \/ closed /\ stack # <<>>
  \/ stack # <<>> /\ Dangling

\* The same sentence without the second exception: a host function may release
\* the function it was called through.
ReleaseInCallbackIsSafe == fault \in {"none", "nilArg"} \/ closed

\* No Go wrapper, borrowed or owned, points to a freed handle: the ones lent
\* to a callback die before C++ frees them, even if the host keeps them, and
\* the handed over result gives up its pointer.
WrappersAreLive ==
  \A n \in Natives : wrapper[n] \in {"set", "temp"} => nat[n] = "live"

\* A live native handle is lent to a frame of the stack, on its way to C++
\* as a result, or owned by a wrapper that Close can reach.  The exception is
\* the method handle of each CallMethod: only Close frees it.
NoOrphans ==
  \A n \in Natives : nat[n] = "live" =>
    \/ InUse(n)
    \/ n \in tracked \cap (abandoned \cup {v \in liveValues : wrapper[v] = "set"})

\* A temporary lives as long as the call it was made for: it is released however
\* the call ends, by a result, an exception, an argument of an unsupported type,
\* or a Close below it.
TemporariesAreReclaimed ==
  \A n \in Natives : wrapper[n] = "temp" =>
    \E i \in 1..Len(stack) : n \in stack[i].temps
=============================================================================
