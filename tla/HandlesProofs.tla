--------------------------- MODULE HandlesProofs ---------------------------
(***************************************************************************)
(* For every number of goroutines, values and host functions: Close and    *)
(* NewFunction never leak a registration, a returned function stays        *)
(* callable, valid() is right inside the guard, Close invalidates what it  *)
(* must, and calls that collide are memory safe when Close runs alone.     *)
(***************************************************************************)
EXTENDS Handles, TLAPS

----------------------------------------------------------------------------
(* The inductive invariant, part by part.                                  *)

\* Which operations can be where.
ShapeInv ==
  \A g \in Goroutines :
    /\ pc[g] \in {"register", "trackFn", "failed"} => op[g] = "function"
    /\ pc[g] \in {"untrack", "unset"} => op[g] = "release"
    /\ pc[g] \in {"enter", "native", "wrap", "track"} => op[g] # "close"

\* Whoever is past enter holds the guard.
HolderInv ==
  \A g \in Goroutines : Guarded(g) \/ pc[g] = "unset" => holder = g

\* A Close past its first critical section.
Closer(g) == pc[g] \in {"invalidate", "forget", "dispose", "clear"}

\* c.closed elects one closer, and its progress is what the context shows.
CloserInv ==
  /\ \A g, h \in Goroutines : Closer(g) /\ Closer(h) => g = h
  /\ \A g \in Goroutines :
       /\ Closer(g) => closed
       /\ pc[g] \in {"invalidate", "forget", "dispose"} => cnat = "live"
       /\ pc[g] = "dispose" => ~ctxRef
       /\ pc[g] = "clear" => cnat = "freed"
  /\ ~closed => cnat = "live" /\ cptr = "set"
  /\ cptr = "nil" => cnat = "freed"
  /\ cnat = "freed" => ~ctxRef

\* A NewFunction that holds an id it has not returned yet.
HasFn(g) == /\ op[g] = "function"
            /\ pc[g] \in {"trackFn", "enter", "native", "wrap", "track",
                          "failed"}

\* Each id has one owner, and every registered id has somebody to drop it.
FnInv ==
  /\ \A g \in Goroutines :
       /\ HasFn(g) => fn[g] \in issued \ returned
       /\ HasFn(g) /\ ~closed => fn[g] \in hostFnRefs
  /\ \A g, h \in Goroutines : HasFn(g) /\ HasFn(h) /\ fn[g] = fn[h] => g = h
  /\ ~closed => /\ returned \subseteq hostFnRefs
                /\ \A f \in hostFnRefs : f \in hostFnIDs \/ Registering(f)
  /\ NoHostFunctionLeak

\* A call that works on an existing value.
HasArg(g) == /\ op[g] \in {"derive", "use", "retain", "release"}
             /\ pc[g] \in {"untrack", "enter", "native", "unset"}

\* v is out of the map because its own Release took it out.
Releasing(v) == \E g \in Goroutines : /\ op[g] = "release"
                                      /\ arg[g] = v
                                      /\ pc[g] \in {"enter", "native", "unset"}

\* v is between GV8ValueRelease and v.ptr = nil.
HalfReleased(v) == \E g \in Goroutines : pc[g] = "unset" /\ arg[g] = v

\* Close is still going to invalidate v.
AboutToInvalidate(v) ==
  \E g \in Goroutines : pc[g] = "invalidate" /\ v \in snapValues[g]

\* Which values have pointers, and who knows of them.
ValueInv ==
  /\ \A g \in Goroutines :
       /\ HasArg(g) => arg[g] \in Values /\ vptr[arg[g]] # "unborn"
       /\ pc[g] = "track" => /\ res[g] \in Values
                             /\ vptr[res[g]] = "unborn"
                             /\ nat[res[g]] # "none"
                             /\ ~closed => nat[res[g]] = "live"
       /\ \A v \in snapValues[g] : vptr[v] # "unborn"
  /\ \A g, h \in Goroutines :
       pc[g] = "track" /\ pc[h] = "track" /\ res[g] = res[h] => g = h
  /\ \A v \in liveValues : vptr[v] # "unborn"
  /\ \A v \in Values :
       /\ nat[v] = "none" => vptr[v] = "unborn"
       /\ ~closed /\ vptr[v] = "set" => nat[v] = "live" \/ HalfReleased(v)

\* Every pointer is in the map, in Close's copy or in its own Release.
TrackedInv ==
  \A v \in Values : vptr[v] = "set" =>
    \/ ~closed /\ v \in liveValues
    \/ AboutToInvalidate(v)
    \/ Releasing(v)

\* As long as Close has run alone, nothing else is in flight once the context is closed.
QuietInv ==
  /\ closed => \A g \in Goroutines : pc[g] = "run" \/ pc[g] \in Closing
  /\ \A g, h \in Goroutines : pc[g] \in Closing /\ g # h => pc[h] = "run"
  /\ fault \notin {"useAfterFree", "doubleFree"}

HInv == /\ HandlesTypeOK
        /\ ShapeInv
        /\ HolderInv
        /\ CloserInv
        /\ FnInv
        /\ ValueInv
        /\ ~Recovers => TrackedInv
        /\ ~Recovers /\ ~careless => QuietInv

USE HandleConstants

\* The new context satisfies the invariant.
LEMMA InitHInv == HandlesInit => HInv
<1> SUFFICES ASSUME HandlesInit PROVE HInv
  OBVIOUS
<1> USE DEF HandlesInit
<1>1. HandlesTypeOK
  BY DEF GuardInit, HandlesTypeOK, Ops, PCs, Faults
<1>2. ShapeInv /\ HolderInv /\ CloserInv
  BY DEF ShapeInv, HolderInv, Guarded, CloserInv, Closer
<1>3. FnInv
  BY DEF FnInv, HasFn, NoHostFunctionLeak
<1>4. ValueInv
  BY DEF ValueInv, HasArg
<1>5. TrackedInv
  BY DEF TrackedInv
<1>6. QuietInv
  BY DEF QuietInv, Closing
<1> QED
  BY <1>1, <1>2, <1>3, <1>4, <1>5, <1>6 DEF HInv

\* What a public call has established when it makes its first step.
LEMMA CallShape ==
  ASSUME NEW g \in Goroutines, CallStep(g)
  PROVE  \E o \in Ops, v \in Values \cup {NoValue},
            label \in {"enter", "untrack", "register", "mark"} :
           /\ Call(g, o, v, label)
           /\ label = "register" <=> o = "function"
           /\ label = "untrack" <=> o = "release"
           /\ label = "mark" <=> o = "close"
           /\ o \in {"derive", "use", "retain", "release"} =>
                v \in Values /\ vptr[v] = "set"
           /\ o \notin {"close", "release"} => Open
<1>1. CASE CallCreate(g)
  BY <1>1 DEF CallCreate, Ops
<1>2. CASE CallFunction(g)
  BY <1>2 DEF CallFunction, Ops
<1>3. CASE CallClose(g)
  BY <1>3 DEF CallClose, Ops
<1>4. ASSUME NEW v \in Values, CallDerive(g, v) \/ CallUse(g, v) \/ CallRetain(g, v)
      PROVE  \E o \in {"derive", "use", "retain"} :
               Call(g, o, v, "enter") /\ vptr[v] = "set" /\ Open
  BY <1>4 DEF CallDerive, CallUse, CallRetain, Valid
<1>5. ASSUME NEW v \in Values, CallRelease(g, v)
      PROVE  Call(g, "release", v, "untrack") /\ vptr[v] = "set"
  BY <1>5 DEF CallRelease
<1>6. CASE \E v \in Values : CallDerive(g, v) \/ CallUse(g, v) \/ CallRetain(g, v)
  BY <1>4, <1>6 DEF Ops
<1>7. CASE \E v \in Values : CallRelease(g, v)
  BY <1>5, <1>7 DEF Ops
<1> QED
  BY <1>1, <1>2, <1>3, <1>6, <1>7 DEF CallStep

\* Every step keeps the types.
LEMMA TypeStep == HandlesTypeOK /\ ShapeInv /\ FnInv /\ ValueInv /\ [HandlesNext]_hvars => HandlesTypeOK'
<1> SUFFICES ASSUME HandlesTypeOK, ShapeInv, FnInv, ValueInv, [HandlesNext]_hvars
             PROVE  HandlesTypeOK'
  OBVIOUS
<1> USE DEF HandlesTypeOK, Ops, PCs, Faults, At, Goto,
           gvars, context, tracking, registry, handles, locals
<1>1. ASSUME NEW g \in Goroutines, CallStep(g) PROVE HandlesTypeOK'
  <2>1. PICK o \in Ops, v \in Values \cup {NoValue},
             label \in {"enter", "untrack", "register", "mark"} :
           /\ Call(g, o, v, label)
           /\ label = "register" <=> o = "function"
           /\ label = "untrack" <=> o = "release"
           /\ label = "mark" <=> o = "close"
           /\ o \in {"derive", "use", "retain", "release"} =>
                v \in Values /\ vptr[v] = "set"
           /\ o \notin {"close", "release"} => Open
    BY <1>1, CallShape
  <2> QED
    BY <2>1 DEF Call
<1>2. ASSUME NEW g \in Goroutines, RegisterHostFunction(g) PROVE HandlesTypeOK'
  BY <1>2 DEF RegisterHostFunction
<1>3. ASSUME NEW g \in Goroutines, TrackHostFunction(g) PROVE HandlesTypeOK'
  <2>1. fn[g] \in issued
    BY <1>3 DEF TrackHostFunction, ShapeInv, FnInv, HasFn
  <2> QED
    BY <1>3, <2>1 DEF TrackHostFunction
<1>4. ASSUME NEW g \in Goroutines, UntrackValue(g) PROVE HandlesTypeOK'
  BY <1>4 DEF UntrackValue
<1>5. ASSUME NEW g \in Goroutines, Enter(g) PROVE HandlesTypeOK'
  BY <1>5 DEF Enter, Take
<1>6. ASSUME NEW g \in Goroutines, Refuse(g) PROVE HandlesTypeOK'
  BY <1>6 DEF Refuse
<1>7. ASSUME NEW g \in Goroutines, Leave(g) PROVE HandlesTypeOK'
  BY <1>7 DEF Leave, Give
<1>8. ASSUME NEW g \in Goroutines, NativeFromContext(g) PROVE HandlesTypeOK'
  BY <1>8 DEF NativeFromContext, Dies, Proceeds
<1>9. ASSUME NEW g \in Goroutines, NativeFromValue(g) PROVE HandlesTypeOK'
  BY <1>9 DEF NativeFromValue, Dies, Proceeds
<1>10. ASSUME NEW g \in Goroutines, NativeRelease(g) PROVE HandlesTypeOK'
  <2>1. arg[g] \in Values
    BY <1>10 DEF NativeRelease, ValueInv, HasArg
  <2> QED
    BY <1>10, <2>1 DEF NativeRelease, Dies, Proceeds
<1>11. ASSUME NEW g \in Goroutines, WrapValue(g) PROVE HandlesTypeOK'
  BY <1>11 DEF WrapValue, Dies, Proceeds
<1>12. ASSUME NEW g \in Goroutines, TrackValue(g) PROVE HandlesTypeOK'
  <2>1. op[g] = "function" => fn[g] \in issued
    BY <1>12 DEF TrackValue, FnInv, HasFn
  <2>2. res[g] \in Values
    BY <1>12 DEF TrackValue, ValueInv
  <2>3. returned' \subseteq issued /\ liveValues' \subseteq Values
    BY <1>12, <2>1, <2>2 DEF TrackValue
  <2>4. vptr' \in [Values -> {"unborn", "set", "nil"}]
    BY <1>12, <2>2 DEF TrackValue
  <2> QED
    BY <1>12, <2>3, <2>4 DEF TrackValue
<1>13. ASSUME NEW g \in Goroutines, UnregisterFailed(g) PROVE HandlesTypeOK'
  BY <1>13 DEF UnregisterFailed
<1>14. ASSUME NEW g \in Goroutines, CloseMark(g) PROVE HandlesTypeOK'
  <2>1. hostFnIDs \subseteq HostFns
    OBVIOUS
  <2>2. CASE closed
    BY <1>14, <2>2 DEF CloseMark
  <2>3. CASE ~closed
    <3>1. snapFns' \in [Goroutines -> SUBSET HostFns]
      BY <1>14, <2>1, <2>3 DEF CloseMark
    <3>2. snapValues' \in [Goroutines -> SUBSET Values]
      BY <1>14, <2>3 DEF CloseMark
    <3> QED
      BY <1>14, <2>3, <3>1, <3>2 DEF CloseMark
  <2> QED
    BY <2>2, <2>3
<1>15. ASSUME NEW g \in Goroutines, CloseInvalidate(g) PROVE HandlesTypeOK'
  BY <1>15 DEF CloseInvalidate
<1>16. ASSUME NEW g \in Goroutines, CloseUnregister(g) PROVE HandlesTypeOK'
  BY <1>16 DEF CloseUnregister
<1>17. ASSUME NEW g \in Goroutines, CloseForget(g) PROVE HandlesTypeOK'
  BY <1>17 DEF CloseForget
<1>18. ASSUME NEW g \in Goroutines, CloseDispose(g) PROVE HandlesTypeOK'
  BY <1>18 DEF CloseDispose
<1>19. ASSUME NEW g \in Goroutines, CloseClear(g) PROVE HandlesTypeOK'
  BY <1>19 DEF CloseClear
<1>21. ASSUME NEW g \in Goroutines, ReleaseUnset(g) PROVE HandlesTypeOK'
  BY <1>21 DEF ReleaseUnset
<1>20. CASE UNCHANGED hvars
  BY <1>20 DEF hvars
<1> QED
  BY <1>1, <1>2, <1>3, <1>4, <1>5, <1>6, <1>7, <1>8, <1>9, <1>10,
     <1>11, <1>12, <1>13, <1>14, <1>15, <1>16, <1>17, <1>18, <1>19, <1>20, <1>21
     DEF HandlesNext, BookStep, GuardStep, NativeStep, CloseStep

\* Operations stay where they belong.
LEMMA ShapeStep == HandlesTypeOK /\ ShapeInv /\ [HandlesNext]_hvars => ShapeInv'
<1> SUFFICES ASSUME HandlesTypeOK, ShapeInv, [HandlesNext]_hvars
             PROVE  ShapeInv'
  OBVIOUS
<1> USE DEF HandlesTypeOK, ShapeInv, Ops, PCs, At, Goto,
           gvars, context, tracking, registry, handles, locals
<1>1. ASSUME NEW g \in Goroutines, CallStep(g) PROVE ShapeInv'
  <2>1. PICK o \in Ops, v \in Values \cup {NoValue},
             label \in {"enter", "untrack", "register", "mark"} :
           /\ Call(g, o, v, label)
           /\ label = "register" <=> o = "function"
           /\ label = "untrack" <=> o = "release"
           /\ label = "mark" <=> o = "close"
           /\ o \in {"derive", "use", "retain", "release"} =>
                v \in Values /\ vptr[v] = "set"
           /\ o \notin {"close", "release"} => Open
    BY <1>1, CallShape
  <2> QED
    BY <2>1 DEF Call
<1>2. ASSUME NEW g \in Goroutines, RegisterHostFunction(g) PROVE ShapeInv'
  BY <1>2 DEF RegisterHostFunction
<1>3. ASSUME NEW g \in Goroutines, TrackHostFunction(g) PROVE ShapeInv'
  BY <1>3 DEF TrackHostFunction
<1>4. ASSUME NEW g \in Goroutines, UntrackValue(g) PROVE ShapeInv'
  BY <1>4 DEF UntrackValue
<1>5. ASSUME NEW g \in Goroutines, Enter(g) PROVE ShapeInv'
  BY <1>5 DEF Enter, Take
<1>6. ASSUME NEW g \in Goroutines, Refuse(g) PROVE ShapeInv'
  BY <1>6 DEF Refuse
<1>7. ASSUME NEW g \in Goroutines, Leave(g) PROVE ShapeInv'
  BY <1>7 DEF Leave, Give
<1>8. ASSUME NEW g \in Goroutines, NativeFromContext(g) PROVE ShapeInv'
  BY <1>8 DEF NativeFromContext, Dies, Proceeds
<1>9. ASSUME NEW g \in Goroutines, NativeFromValue(g) PROVE ShapeInv'
  BY <1>9 DEF NativeFromValue, Dies, Proceeds
<1>10. ASSUME NEW g \in Goroutines, NativeRelease(g) PROVE ShapeInv'
  BY <1>10 DEF NativeRelease, Dies, Proceeds
<1>11. ASSUME NEW g \in Goroutines, WrapValue(g) PROVE ShapeInv'
  BY <1>11 DEF WrapValue, Dies, Proceeds
<1>12. ASSUME NEW g \in Goroutines, TrackValue(g) PROVE ShapeInv'
  BY <1>12 DEF TrackValue
<1>13. ASSUME NEW g \in Goroutines, UnregisterFailed(g) PROVE ShapeInv'
  BY <1>13 DEF UnregisterFailed
<1>14. ASSUME NEW g \in Goroutines, CloseMark(g) PROVE ShapeInv'
  BY <1>14 DEF CloseMark
<1>15. ASSUME NEW g \in Goroutines, CloseInvalidate(g) PROVE ShapeInv'
  BY <1>15 DEF CloseInvalidate
<1>16. ASSUME NEW g \in Goroutines, CloseUnregister(g) PROVE ShapeInv'
  BY <1>16 DEF CloseUnregister
<1>17. ASSUME NEW g \in Goroutines, CloseForget(g) PROVE ShapeInv'
  BY <1>17 DEF CloseForget
<1>18. ASSUME NEW g \in Goroutines, CloseDispose(g) PROVE ShapeInv'
  BY <1>18 DEF CloseDispose
<1>19. ASSUME NEW g \in Goroutines, CloseClear(g) PROVE ShapeInv'
  BY <1>19 DEF CloseClear
<1>21. ASSUME NEW g \in Goroutines, ReleaseUnset(g) PROVE ShapeInv'
  BY <1>21 DEF ReleaseUnset
<1>20. CASE UNCHANGED hvars
  BY <1>20 DEF hvars
<1> QED
  BY <1>1, <1>2, <1>3, <1>4, <1>5, <1>6, <1>7, <1>8, <1>9, <1>10,
     <1>11, <1>12, <1>13, <1>14, <1>15, <1>16, <1>17, <1>18, <1>19, <1>20, <1>21
     DEF HandlesNext, BookStep, GuardStep, NativeStep, CloseStep

\* The guard is held by whoever is past enter, one goroutine at a time.
LEMMA HolderStep == HandlesTypeOK /\ HolderInv /\ [HandlesNext]_hvars => HolderInv'
<1> SUFFICES ASSUME HandlesTypeOK, HolderInv, [HandlesNext]_hvars
             PROVE  HolderInv'
  OBVIOUS
<1> USE DEF HandlesTypeOK, HolderInv, Guarded, Ops, PCs, At, Goto,
           gvars, context, tracking, registry, handles, locals
<1>1. ASSUME NEW g \in Goroutines, CallStep(g) PROVE HolderInv'
  <2>1. PICK o \in Ops, v \in Values \cup {NoValue},
             label \in {"enter", "untrack", "register", "mark"} :
           /\ Call(g, o, v, label)
           /\ label = "register" <=> o = "function"
           /\ label = "untrack" <=> o = "release"
           /\ label = "mark" <=> o = "close"
           /\ o \in {"derive", "use", "retain", "release"} =>
                v \in Values /\ vptr[v] = "set"
           /\ o \notin {"close", "release"} => Open
    BY <1>1, CallShape
  <2> QED
    BY <2>1 DEF Call
<1>2. ASSUME NEW g \in Goroutines, RegisterHostFunction(g) PROVE HolderInv'
  BY <1>2 DEF RegisterHostFunction
<1>3. ASSUME NEW g \in Goroutines, TrackHostFunction(g) PROVE HolderInv'
  BY <1>3 DEF TrackHostFunction
<1>4. ASSUME NEW g \in Goroutines, UntrackValue(g) PROVE HolderInv'
  BY <1>4 DEF UntrackValue
<1>5. ASSUME NEW g \in Goroutines, Enter(g) PROVE HolderInv'
  BY <1>5 DEF Enter, Take
<1>6. ASSUME NEW g \in Goroutines, Refuse(g) PROVE HolderInv'
  BY <1>6 DEF Refuse
<1>7. ASSUME NEW g \in Goroutines, Leave(g) PROVE HolderInv'
  BY <1>7 DEF Leave, Give
<1>8. ASSUME NEW g \in Goroutines, NativeFromContext(g) PROVE HolderInv'
  BY <1>8 DEF NativeFromContext, Dies, Proceeds
<1>9. ASSUME NEW g \in Goroutines, NativeFromValue(g) PROVE HolderInv'
  BY <1>9 DEF NativeFromValue, Dies, Proceeds
<1>10. ASSUME NEW g \in Goroutines, NativeRelease(g) PROVE HolderInv'
  BY <1>10 DEF NativeRelease, Dies, Proceeds
<1>11. ASSUME NEW g \in Goroutines, WrapValue(g) PROVE HolderInv'
  BY <1>11 DEF WrapValue, Dies, Proceeds
<1>12. ASSUME NEW g \in Goroutines, TrackValue(g) PROVE HolderInv'
  BY <1>12 DEF TrackValue
<1>13. ASSUME NEW g \in Goroutines, UnregisterFailed(g) PROVE HolderInv'
  BY <1>13 DEF UnregisterFailed
<1>14. ASSUME NEW g \in Goroutines, CloseMark(g) PROVE HolderInv'
  BY <1>14 DEF CloseMark
<1>15. ASSUME NEW g \in Goroutines, CloseInvalidate(g) PROVE HolderInv'
  BY <1>15 DEF CloseInvalidate
<1>16. ASSUME NEW g \in Goroutines, CloseUnregister(g) PROVE HolderInv'
  BY <1>16 DEF CloseUnregister
<1>17. ASSUME NEW g \in Goroutines, CloseForget(g) PROVE HolderInv'
  BY <1>17 DEF CloseForget
<1>18. ASSUME NEW g \in Goroutines, CloseDispose(g) PROVE HolderInv'
  BY <1>18 DEF CloseDispose
<1>19. ASSUME NEW g \in Goroutines, CloseClear(g) PROVE HolderInv'
  BY <1>19 DEF CloseClear
<1>21. ASSUME NEW g \in Goroutines, ReleaseUnset(g) PROVE HolderInv'
  BY <1>21 DEF ReleaseUnset
<1>20. CASE UNCHANGED hvars
  BY <1>20 DEF hvars
<1> QED
  BY <1>1, <1>2, <1>3, <1>4, <1>5, <1>6, <1>7, <1>8, <1>9, <1>10,
     <1>11, <1>12, <1>13, <1>14, <1>15, <1>16, <1>17, <1>18, <1>19, <1>20, <1>21
     DEF HandlesNext, BookStep, GuardStep, NativeStep, CloseStep

\* There is one closer, and the context follows its progress.
LEMMA CloserStep == HandlesTypeOK /\ CloserInv /\ [HandlesNext]_hvars => CloserInv'
<1> SUFFICES ASSUME HandlesTypeOK, CloserInv, [HandlesNext]_hvars
             PROVE  CloserInv'
  OBVIOUS
<1> USE DEF HandlesTypeOK, CloserInv, Closer, PCs, At, Goto,
           gvars, context, tracking, registry, handles, locals
<1>1. ASSUME NEW g \in Goroutines, CallStep(g) PROVE CloserInv'
  <2>1. PICK o \in Ops, v \in Values \cup {NoValue},
             label \in {"enter", "untrack", "register", "mark"} :
           /\ Call(g, o, v, label)
           /\ label = "register" <=> o = "function"
           /\ label = "untrack" <=> o = "release"
           /\ label = "mark" <=> o = "close"
           /\ o \in {"derive", "use", "retain", "release"} =>
                v \in Values /\ vptr[v] = "set"
           /\ o \notin {"close", "release"} => Open
    BY <1>1, CallShape
  <2> QED
    BY <2>1 DEF Call
<1>2. ASSUME NEW g \in Goroutines, RegisterHostFunction(g) PROVE CloserInv'
  BY <1>2 DEF RegisterHostFunction
<1>3. ASSUME NEW g \in Goroutines, TrackHostFunction(g) PROVE CloserInv'
  BY <1>3 DEF TrackHostFunction
<1>4. ASSUME NEW g \in Goroutines, UntrackValue(g) PROVE CloserInv'
  BY <1>4 DEF UntrackValue
<1>5. ASSUME NEW g \in Goroutines, Enter(g) PROVE CloserInv'
  BY <1>5 DEF Enter, Take
<1>6. ASSUME NEW g \in Goroutines, Refuse(g) PROVE CloserInv'
  BY <1>6 DEF Refuse
<1>7. ASSUME NEW g \in Goroutines, Leave(g) PROVE CloserInv'
  BY <1>7 DEF Leave, Give
<1>8. ASSUME NEW g \in Goroutines, NativeFromContext(g) PROVE CloserInv'
  BY <1>8 DEF NativeFromContext, Dies, Proceeds
<1>9. ASSUME NEW g \in Goroutines, NativeFromValue(g) PROVE CloserInv'
  BY <1>9 DEF NativeFromValue, Dies, Proceeds
<1>10. ASSUME NEW g \in Goroutines, NativeRelease(g) PROVE CloserInv'
  BY <1>10 DEF NativeRelease, Dies, Proceeds
<1>11. ASSUME NEW g \in Goroutines, WrapValue(g) PROVE CloserInv'
  BY <1>11 DEF WrapValue, Dies, Proceeds
<1>12. ASSUME NEW g \in Goroutines, TrackValue(g) PROVE CloserInv'
  BY <1>12 DEF TrackValue
<1>13. ASSUME NEW g \in Goroutines, UnregisterFailed(g) PROVE CloserInv'
  BY <1>13 DEF UnregisterFailed
<1>14. ASSUME NEW g \in Goroutines, CloseMark(g) PROVE CloserInv'
  BY <1>14 DEF CloseMark
<1>15. ASSUME NEW g \in Goroutines, CloseInvalidate(g) PROVE CloserInv'
  BY <1>15 DEF CloseInvalidate
<1>16. ASSUME NEW g \in Goroutines, CloseUnregister(g) PROVE CloserInv'
  BY <1>16 DEF CloseUnregister
<1>17. ASSUME NEW g \in Goroutines, CloseForget(g) PROVE CloserInv'
  BY <1>17 DEF CloseForget
<1>18. ASSUME NEW g \in Goroutines, CloseDispose(g) PROVE CloserInv'
  BY <1>18 DEF CloseDispose
<1>19. ASSUME NEW g \in Goroutines, CloseClear(g) PROVE CloserInv'
  BY <1>19 DEF CloseClear
<1>21. ASSUME NEW g \in Goroutines, ReleaseUnset(g) PROVE CloserInv'
  BY <1>21 DEF ReleaseUnset
<1>20. CASE UNCHANGED hvars
  BY <1>20 DEF hvars
<1> QED
  BY <1>1, <1>2, <1>3, <1>4, <1>5, <1>6, <1>7, <1>8, <1>9, <1>10,
     <1>11, <1>12, <1>13, <1>14, <1>15, <1>16, <1>17, <1>18, <1>19, <1>20, <1>21
     DEF HandlesNext, BookStep, GuardStep, NativeStep, CloseStep

\* Registrations keep an owner.
LEMMA FnStep == HandlesTypeOK /\ ShapeInv /\ CloserInv /\ FnInv /\ [HandlesNext]_hvars => FnInv'
<1> SUFFICES ASSUME HandlesTypeOK, ShapeInv, CloserInv, FnInv, [HandlesNext]_hvars
             PROVE  FnInv'
  OBVIOUS
<1> USE DEF HandlesTypeOK, ShapeInv, CloserInv, Closer, FnInv, HasFn, Registering,
           AboutToForget, NoHostFunctionLeak, PCs, At, Goto,
           gvars, context, tracking, registry, handles, locals
<1>1. ASSUME NEW g \in Goroutines, CallStep(g) PROVE FnInv'
  <2>1. PICK o \in Ops, v \in Values \cup {NoValue},
             label \in {"enter", "untrack", "register", "mark"} :
           /\ Call(g, o, v, label)
           /\ label = "register" <=> o = "function"
           /\ label = "untrack" <=> o = "release"
           /\ label = "mark" <=> o = "close"
           /\ o \in {"derive", "use", "retain", "release"} =>
                v \in Values /\ vptr[v] = "set"
           /\ o \notin {"close", "release"} => Open
    BY <1>1, CallShape
  <2> QED
    BY <2>1 DEF Call
<1>2. ASSUME NEW g \in Goroutines, RegisterHostFunction(g) PROVE FnInv'
  BY <1>2 DEF RegisterHostFunction
<1>3. ASSUME NEW g \in Goroutines, TrackHostFunction(g) PROVE FnInv'
  BY <1>3 DEF TrackHostFunction
<1>4. ASSUME NEW g \in Goroutines, UntrackValue(g) PROVE FnInv'
  BY <1>4 DEF UntrackValue
<1>5. ASSUME NEW g \in Goroutines, Enter(g) PROVE FnInv'
  BY <1>5 DEF Enter, Take
<1>6. ASSUME NEW g \in Goroutines, Refuse(g) PROVE FnInv'
  BY <1>6 DEF Refuse
<1>7. ASSUME NEW g \in Goroutines, Leave(g) PROVE FnInv'
  BY <1>7 DEF Leave, Give
<1>8. ASSUME NEW g \in Goroutines, NativeFromContext(g) PROVE FnInv'
  BY <1>8 DEF NativeFromContext, Dies, Proceeds
<1>9. ASSUME NEW g \in Goroutines, NativeFromValue(g) PROVE FnInv'
  BY <1>9 DEF NativeFromValue, Dies, Proceeds
<1>10. ASSUME NEW g \in Goroutines, NativeRelease(g) PROVE FnInv'
  BY <1>10 DEF NativeRelease, Dies, Proceeds
<1>11. ASSUME NEW g \in Goroutines, WrapValue(g) PROVE FnInv'
  BY <1>11 DEF WrapValue, Dies, Proceeds
<1>12. ASSUME NEW g \in Goroutines, TrackValue(g) PROVE FnInv'
  BY <1>12 DEF TrackValue
<1>13. ASSUME NEW g \in Goroutines, UnregisterFailed(g) PROVE FnInv'
  BY <1>13 DEF UnregisterFailed
<1>14. ASSUME NEW g \in Goroutines, CloseMark(g) PROVE FnInv'
  BY <1>14 DEF CloseMark
<1>15. ASSUME NEW g \in Goroutines, CloseInvalidate(g) PROVE FnInv'
  BY <1>15 DEF CloseInvalidate
<1>16. ASSUME NEW g \in Goroutines, CloseUnregister(g) PROVE FnInv'
  BY <1>16 DEF CloseUnregister
<1>17. ASSUME NEW g \in Goroutines, CloseForget(g) PROVE FnInv'
  BY <1>17 DEF CloseForget
<1>18. ASSUME NEW g \in Goroutines, CloseDispose(g) PROVE FnInv'
  BY <1>18 DEF CloseDispose
<1>19. ASSUME NEW g \in Goroutines, CloseClear(g) PROVE FnInv'
  BY <1>19 DEF CloseClear
<1>21. ASSUME NEW g \in Goroutines, ReleaseUnset(g) PROVE FnInv'
  BY <1>21 DEF ReleaseUnset
<1>20. CASE UNCHANGED hvars
  BY <1>20 DEF hvars
<1> QED
  BY <1>1, <1>2, <1>3, <1>4, <1>5, <1>6, <1>7, <1>8, <1>9, <1>10,
     <1>11, <1>12, <1>13, <1>14, <1>15, <1>16, <1>17, <1>18, <1>19, <1>20, <1>21
     DEF HandlesNext, BookStep, GuardStep, NativeStep, CloseStep

\* Pointers of an open context stay live.
LEMMA ValueStep == HandlesTypeOK /\ ShapeInv /\ HolderInv /\ CloserInv /\ ValueInv /\ [HandlesNext]_hvars => ValueInv'
<1> SUFFICES ASSUME HandlesTypeOK, ShapeInv, HolderInv, CloserInv, ValueInv, [HandlesNext]_hvars
             PROVE  ValueInv'
  OBVIOUS
<1> USE DEF HandlesTypeOK, ShapeInv, CloserInv, Closer, ValueInv, HasArg, HalfReleased, PCs, At, Goto,
           gvars, context, tracking, registry, handles, locals
<1>1. ASSUME NEW g \in Goroutines, CallStep(g) PROVE ValueInv'
  <2>1. PICK o \in Ops, v \in Values \cup {NoValue},
             label \in {"enter", "untrack", "register", "mark"} :
           /\ Call(g, o, v, label)
           /\ label = "register" <=> o = "function"
           /\ label = "untrack" <=> o = "release"
           /\ label = "mark" <=> o = "close"
           /\ o \in {"derive", "use", "retain", "release"} =>
                v \in Values /\ vptr[v] = "set"
           /\ o \notin {"close", "release"} => Open
    BY <1>1, CallShape
  <2> QED
    BY <2>1 DEF Call
<1>2. ASSUME NEW g \in Goroutines, RegisterHostFunction(g) PROVE ValueInv'
  BY <1>2 DEF RegisterHostFunction
<1>3. ASSUME NEW g \in Goroutines, TrackHostFunction(g) PROVE ValueInv'
  BY <1>3 DEF TrackHostFunction
<1>4. ASSUME NEW g \in Goroutines, UntrackValue(g) PROVE ValueInv'
  BY <1>4 DEF UntrackValue
<1>5. ASSUME NEW g \in Goroutines, Enter(g) PROVE ValueInv'
  BY <1>5 DEF Enter, Take
<1>6. ASSUME NEW g \in Goroutines, Refuse(g) PROVE ValueInv'
  BY <1>6 DEF Refuse
<1>7. ASSUME NEW g \in Goroutines, Leave(g) PROVE ValueInv'
  BY <1>7 DEF Leave, Give
<1>8. ASSUME NEW g \in Goroutines, NativeFromContext(g) PROVE ValueInv'
  BY <1>8 DEF NativeFromContext, Dies, Proceeds
<1>9. ASSUME NEW g \in Goroutines, NativeFromValue(g) PROVE ValueInv'
  BY <1>9 DEF NativeFromValue, Dies, Proceeds
<1>10. ASSUME NEW g \in Goroutines, NativeRelease(g) PROVE ValueInv'
  BY <1>10 DEF NativeRelease, Dies, Proceeds
<1>11. ASSUME NEW g \in Goroutines, WrapValue(g) PROVE ValueInv'
  BY <1>11 DEF WrapValue, Dies, Proceeds
<1>12. ASSUME NEW g \in Goroutines, TrackValue(g) PROVE ValueInv'
  BY <1>12 DEF TrackValue
<1>13. ASSUME NEW g \in Goroutines, UnregisterFailed(g) PROVE ValueInv'
  BY <1>13 DEF UnregisterFailed
<1>14. ASSUME NEW g \in Goroutines, CloseMark(g) PROVE ValueInv'
  BY <1>14 DEF CloseMark
<1>15. ASSUME NEW g \in Goroutines, CloseInvalidate(g) PROVE ValueInv'
  BY <1>15 DEF CloseInvalidate
<1>16. ASSUME NEW g \in Goroutines, CloseUnregister(g) PROVE ValueInv'
  BY <1>16 DEF CloseUnregister
<1>17. ASSUME NEW g \in Goroutines, CloseForget(g) PROVE ValueInv'
  BY <1>17 DEF CloseForget
<1>18. ASSUME NEW g \in Goroutines, CloseDispose(g) PROVE ValueInv'
  BY <1>18 DEF CloseDispose
<1>19. ASSUME NEW g \in Goroutines, CloseClear(g) PROVE ValueInv'
  BY <1>19 DEF CloseClear
<1>21. ASSUME NEW g \in Goroutines, ReleaseUnset(g) PROVE ValueInv'
  BY <1>21 DEF ReleaseUnset
<1>20. CASE UNCHANGED hvars
  BY <1>20 DEF hvars
<1> QED
  BY <1>1, <1>2, <1>3, <1>4, <1>5, <1>6, <1>7, <1>8, <1>9, <1>10,
     <1>11, <1>12, <1>13, <1>14, <1>15, <1>16, <1>17, <1>18, <1>19, <1>20, <1>21
     DEF HandlesNext, BookStep, GuardStep, NativeStep, CloseStep

\* Close can reach every pointer, unless a refused Release was recovered.
LEMMA TrackedStep == ~Recovers /\ HandlesTypeOK /\ ShapeInv /\ CloserInv /\ ValueInv /\ TrackedInv /\ [HandlesNext]_hvars => TrackedInv'
<1> SUFFICES ASSUME ~Recovers, HandlesTypeOK, ShapeInv, CloserInv, ValueInv, TrackedInv, [HandlesNext]_hvars
             PROVE  TrackedInv'
  OBVIOUS
<1> USE DEF HandlesTypeOK, ShapeInv, CloserInv, Closer, ValueInv, HasArg, HalfReleased,
           TrackedInv, AboutToInvalidate, Releasing, PCs, At, Goto,
           gvars, context, tracking, registry, handles, locals
<1>1. ASSUME NEW g \in Goroutines, CallStep(g) PROVE TrackedInv'
  <2>1. PICK o \in Ops, v \in Values \cup {NoValue},
             label \in {"enter", "untrack", "register", "mark"} :
           /\ Call(g, o, v, label)
           /\ label = "register" <=> o = "function"
           /\ label = "untrack" <=> o = "release"
           /\ label = "mark" <=> o = "close"
           /\ o \in {"derive", "use", "retain", "release"} =>
                v \in Values /\ vptr[v] = "set"
           /\ o \notin {"close", "release"} => Open
    BY <1>1, CallShape
  <2> QED
    BY <2>1 DEF Call
<1>2. ASSUME NEW g \in Goroutines, RegisterHostFunction(g) PROVE TrackedInv'
  BY <1>2 DEF RegisterHostFunction
<1>3. ASSUME NEW g \in Goroutines, TrackHostFunction(g) PROVE TrackedInv'
  BY <1>3 DEF TrackHostFunction
<1>4. ASSUME NEW g \in Goroutines, UntrackValue(g) PROVE TrackedInv'
  BY <1>4 DEF UntrackValue
<1>5. ASSUME NEW g \in Goroutines, Enter(g) PROVE TrackedInv'
  BY <1>5 DEF Enter, Take
<1>6. ASSUME NEW g \in Goroutines, Refuse(g) PROVE TrackedInv'
  BY <1>6 DEF Refuse
<1>7. ASSUME NEW g \in Goroutines, Leave(g) PROVE TrackedInv'
  BY <1>7 DEF Leave, Give
<1>8. ASSUME NEW g \in Goroutines, NativeFromContext(g) PROVE TrackedInv'
  BY <1>8 DEF NativeFromContext, Dies, Proceeds
<1>9. ASSUME NEW g \in Goroutines, NativeFromValue(g) PROVE TrackedInv'
  BY <1>9 DEF NativeFromValue, Dies, Proceeds
<1>10. ASSUME NEW g \in Goroutines, NativeRelease(g) PROVE TrackedInv'
  BY <1>10 DEF NativeRelease, Dies, Proceeds
<1>11. ASSUME NEW g \in Goroutines, WrapValue(g) PROVE TrackedInv'
  BY <1>11 DEF WrapValue, Dies, Proceeds
<1>12. ASSUME NEW g \in Goroutines, TrackValue(g) PROVE TrackedInv'
  BY <1>12 DEF TrackValue
<1>13. ASSUME NEW g \in Goroutines, UnregisterFailed(g) PROVE TrackedInv'
  BY <1>13 DEF UnregisterFailed
<1>14. ASSUME NEW g \in Goroutines, CloseMark(g) PROVE TrackedInv'
  BY <1>14 DEF CloseMark
<1>15. ASSUME NEW g \in Goroutines, CloseInvalidate(g) PROVE TrackedInv'
  BY <1>15 DEF CloseInvalidate
<1>16. ASSUME NEW g \in Goroutines, CloseUnregister(g) PROVE TrackedInv'
  BY <1>16 DEF CloseUnregister
<1>17. ASSUME NEW g \in Goroutines, CloseForget(g) PROVE TrackedInv'
  BY <1>17 DEF CloseForget
<1>18. ASSUME NEW g \in Goroutines, CloseDispose(g) PROVE TrackedInv'
  BY <1>18 DEF CloseDispose
<1>19. ASSUME NEW g \in Goroutines, CloseClear(g) PROVE TrackedInv'
  BY <1>19 DEF CloseClear
<1>21. ASSUME NEW g \in Goroutines, ReleaseUnset(g) PROVE TrackedInv'
  BY <1>21 DEF ReleaseUnset
<1>20. CASE UNCHANGED hvars
  BY <1>20 DEF hvars
<1> QED
  BY <1>1, <1>2, <1>3, <1>4, <1>5, <1>6, <1>7, <1>8, <1>9, <1>10,
     <1>11, <1>12, <1>13, <1>14, <1>15, <1>16, <1>17, <1>18, <1>19, <1>20, <1>21
     DEF HandlesNext, BookStep, GuardStep, NativeStep, CloseStep

\* The history does not forget.
LEMMA CarelessStays == [HandlesNext]_hvars /\ ~careless' => ~careless
BY DEF HandlesNext, CallStep, CallCreate, CallDerive, CallUse, CallRetain,
       CallRelease, CallFunction, CallClose, Call, BookStep, RegisterHostFunction,
       TrackHostFunction, UntrackValue, GuardStep, Enter, Refuse, Leave, NativeStep,
       NativeFromContext, NativeFromValue, NativeRelease, ReleaseUnset, WrapValue,
       TrackValue,
       UnregisterFailed, CloseStep, CloseMark, CloseInvalidate, CloseUnregister,
       CloseForget, CloseDispose, CloseClear, context, hvars

\* As long as Close has run alone nothing dangling is ever dereferenced.
LEMMA QuietStep == ~Recovers /\ ~careless' /\ HandlesTypeOK /\ ShapeInv /\ HolderInv /\ CloserInv /\ ValueInv /\ TrackedInv /\ QuietInv /\ [HandlesNext]_hvars => QuietInv'
<1> SUFFICES ASSUME ~Recovers, ~careless', HandlesTypeOK, ShapeInv, HolderInv, CloserInv, ValueInv, TrackedInv, QuietInv, [HandlesNext]_hvars
             PROVE  QuietInv'
  OBVIOUS
<1> USE DEF HandlesTypeOK, ShapeInv, CloserInv, Closer, ValueInv, HasArg, HalfReleased, HolderInv, Guarded, QuietInv,
           Closing, PCs, At, Goto,
           gvars, context, tracking, registry, handles, locals
<1>1. ASSUME NEW g \in Goroutines, CallStep(g) PROVE QuietInv'
  <2>1. PICK o \in Ops, v \in Values \cup {NoValue},
             label \in {"enter", "untrack", "register", "mark"} :
           /\ Call(g, o, v, label)
           /\ label = "register" <=> o = "function"
           /\ label = "untrack" <=> o = "release"
           /\ label = "mark" <=> o = "close"
           /\ o \in {"derive", "use", "retain", "release"} =>
                v \in Values /\ vptr[v] = "set"
           /\ o \notin {"close", "release"} => Open
    BY <1>1, CallShape
  <2>2. ~Overlaps(o)
    BY <2>1, Zenon DEF Call
  <2>3. \A h \in Goroutines : IF o = "close" THEN pc[h] = "run"
                                ELSE pc[h] \notin Closing
    BY <2>2 DEF Overlaps
  <2>4. closed => o = "close"
    <3> SUFFICES ASSUME closed, o # "close" PROVE FALSE
      OBVIOUS
    <3>1. o = "release" /\ vptr[v] = "set" /\ v \in Values
      BY <2>1 DEF Open
    <3>2. \A h \in Goroutines : pc[h] = "run"
      BY <2>3, <3>1
    <3> QED
      BY <3>1, <3>2 DEF TrackedInv, AboutToInvalidate, Releasing
  <2>5. fault = "none" /\ fault' = "none"
    BY <2>1 DEF Call
  <2> QED
    BY <2>1, <2>4, <2>5, <2>3 DEF Call
<1>2. ASSUME NEW g \in Goroutines, RegisterHostFunction(g) PROVE QuietInv'
  BY <1>2 DEF RegisterHostFunction
<1>3. ASSUME NEW g \in Goroutines, TrackHostFunction(g) PROVE QuietInv'
  BY <1>3 DEF TrackHostFunction
<1>4. ASSUME NEW g \in Goroutines, UntrackValue(g) PROVE QuietInv'
  BY <1>4 DEF UntrackValue
<1>5. ASSUME NEW g \in Goroutines, Enter(g) PROVE QuietInv'
  BY <1>5 DEF Enter, Take
<1>6. ASSUME NEW g \in Goroutines, Refuse(g) PROVE QuietInv'
  BY <1>6 DEF Refuse
<1>7. ASSUME NEW g \in Goroutines, Leave(g) PROVE QuietInv'
  BY <1>7 DEF Leave, Give
<1>8. ASSUME NEW g \in Goroutines, NativeFromContext(g) PROVE QuietInv'
  BY <1>8 DEF NativeFromContext, Dies, Proceeds
<1>9. ASSUME NEW g \in Goroutines, NativeFromValue(g) PROVE QuietInv'
  BY <1>9 DEF NativeFromValue, Dies, Proceeds
<1>10. ASSUME NEW g \in Goroutines, NativeRelease(g) PROVE QuietInv'
  BY <1>10 DEF NativeRelease, Dies, Proceeds
<1>11. ASSUME NEW g \in Goroutines, WrapValue(g) PROVE QuietInv'
  BY <1>11 DEF WrapValue, Dies, Proceeds
<1>12. ASSUME NEW g \in Goroutines, TrackValue(g) PROVE QuietInv'
  BY <1>12 DEF TrackValue
<1>13. ASSUME NEW g \in Goroutines, UnregisterFailed(g) PROVE QuietInv'
  BY <1>13 DEF UnregisterFailed
<1>14. ASSUME NEW g \in Goroutines, CloseMark(g) PROVE QuietInv'
  BY <1>14 DEF CloseMark
<1>15. ASSUME NEW g \in Goroutines, CloseInvalidate(g) PROVE QuietInv'
  BY <1>15 DEF CloseInvalidate
<1>16. ASSUME NEW g \in Goroutines, CloseUnregister(g) PROVE QuietInv'
  BY <1>16 DEF CloseUnregister
<1>17. ASSUME NEW g \in Goroutines, CloseForget(g) PROVE QuietInv'
  BY <1>17 DEF CloseForget
<1>18. ASSUME NEW g \in Goroutines, CloseDispose(g) PROVE QuietInv'
  BY <1>18 DEF CloseDispose
<1>19. ASSUME NEW g \in Goroutines, CloseClear(g) PROVE QuietInv'
  BY <1>19 DEF CloseClear
<1>21. ASSUME NEW g \in Goroutines, ReleaseUnset(g) PROVE QuietInv'
  BY <1>21 DEF ReleaseUnset
<1>20. CASE UNCHANGED hvars
  BY <1>20 DEF hvars
<1> QED
  BY <1>1, <1>2, <1>3, <1>4, <1>5, <1>6, <1>7, <1>8, <1>9, <1>10,
     <1>11, <1>12, <1>13, <1>14, <1>15, <1>16, <1>17, <1>18, <1>19, <1>20, <1>21
     DEF HandlesNext, BookStep, GuardStep, NativeStep, CloseStep

\* The invariant holds in every reachable state.
THEOREM HandlesInvariant == HandlesSpec => []HInv
<1>1. HandlesInit => HInv
  BY InitHInv
<1>2. HInv /\ [HandlesNext]_hvars => HInv'
  BY TypeStep, ShapeStep, HolderStep, CloserStep, FnStep, ValueStep, TrackedStep, QuietStep,
     CarelessStays
     DEF HInv
<1> QED
  BY <1>1, <1>2, PTL DEF HandlesSpec

\* The bookkeeping of contexts, values and host functions keeps its types.
THEOREM HandlesTypeCorrect == HandlesSpec => []HandlesTypeOK
<1>1. HInv => HandlesTypeOK
  BY DEF HInv
<1> QED
  BY <1>1, HandlesInvariant, PTL

\* However many NewFunction and Close calls race, no registration is left
\* behind by a closed context.
THEOREM HostFunctionsAreReclaimed == HandlesSpec => []NoHostFunctionLeak
<1>1. HInv => NoHostFunctionLeak
  BY DEF HInv, FnInv
<1> QED
  BY <1>1, HandlesInvariant, PTL

\* A function the host received is found by gv8FunctionCallback until Close.
THEOREM FunctionsStayCallable == HandlesSpec => []FunctionStaysCallable
<1>1. HInv => FunctionStaysCallable
  BY DEF HInv, FnInv, FunctionStaysCallable
<1> QED
  BY <1>1, HandlesInvariant, PTL

\* Inside the guard valid() implies a live native handle, whatever Release and
\* Close do concurrently.
THEOREM ValidHandlesAreLive == HandlesSpec => []ValidIsLive
<1>1. HInv => ValidIsLive
  BY DEF HInv, HolderInv, ValueInv, HalfReleased, ValidIsLive, Guarded, Valid, Open
<1> QED
  BY <1>1, HandlesInvariant, PTL

\* Racing calls of Close free the native context once, and ctxRefs never
\* leads to a freed one.
THEOREM ContextIsFreedOnce == HandlesSpec => []ContextFreedOnce
<1>1. HInv => ContextFreedOnce
  BY DEF HInv, CloserInv, Closer, Closing, ContextFreedOnce, HandlesTypeOK
<1> QED
  BY <1>1, HandlesInvariant, PTL

\* Unless the panic of a refused Release is recovered, Close keeps its
\* promise to invalidate every value created from the context.
THEOREM CloseInvalidatesAll ==
  ASSUME ~Recovers PROVE HandlesSpec => []CloseInvalidates
<1>1. HInv => CloseInvalidates
  <2> SUFFICES ASSUME HInv, cptr = "nil", NEW v \in Values, vptr[v] = "set"
               PROVE  Releasing(v)
    BY DEF CloseInvalidates, Releasing
  <2>1. cnat = "freed" /\ closed
    BY DEF HInv, CloserInv
  <2>2. ~AboutToInvalidate(v)
    BY <2>1 DEF HInv, CloserInv, AboutToInvalidate
  <2> QED
    BY <2>1, <2>2 DEF HInv, TrackedInv
<1> QED
  BY <1>1, HandlesInvariant, PTL

\* As long as Close has run alone, colliding calls never touch freed memory.
THEOREM CollidingCallsAreMemorySafe == HandlesSpec => []MemorySafe
<1>1. HInv => MemorySafe
  BY DEF HInv, QuietInv, MemorySafe
<1> QED
  BY <1>1, HandlesInvariant, PTL

=============================================================================
