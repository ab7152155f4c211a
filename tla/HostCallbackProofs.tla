------------------------- MODULE HostCallbackProofs -------------------------
(***************************************************************************)
(* For every number of handles and every depth of scripts and callbacks:   *)
(* no wrapper points to a freed handle, no handle is orphaned, temporaries *)
(* go with their calls, and reentrant calls are safe but for the listed    *)
(* exceptions.                                                             *)
(***************************************************************************)
EXTENDS HostCallback, SequenceTheorems, TLAPS

USE CallbackConstants

----------------------------------------------------------------------------
(* The inductive invariant, part by part.                                  *)

Depths == 1..Len(stack)
GoKinds == {"callback", "returning"}

\* A wrapper that the host, or the call that made it, can use.
Usable(n) == wrapper[n] \in {"set", "temp"}

\* What a frame answers for: the handles it lends, hands over or made.
Own(f) == f.args \cup f.temps \cup {f.result}
Held(n) == \E i \in Depths : n \in Own(stack[i])

\* JavaScript lends nothing and Go makes no temporaries; only a callback that
\* returns has a result, and it is innermost.
ShapeInv ==
  \A i \in Depths :
    /\ stack[i].kind \in JSKinds => stack[i].args = {} /\ stack[i].result = NoNative
    /\ stack[i].kind \in GoKinds => stack[i].temps = {}
    /\ stack[i].kind = "callback" => stack[i].result = NoNative
    /\ stack[i].kind = "returning" => i = Len(stack)

\* No two frames answer for the same handle, and no frame for one twice.
OwnerInv ==
  /\ \A i, j \in Depths : i # j => Own(stack[i]) \cap Own(stack[j]) \subseteq {NoNative}
  /\ \A i \in Depths : stack[i].result \notin stack[i].args

\* What is lent lives and is not the context's to free; a temporary is known to
\* its call or gone.
LentInv ==
  \A i \in Depths :
    /\ \A n \in stack[i].args : nat[n] = "live" /\ n \notin tracked
    /\ \A n \in stack[i].temps : wrapper[n] = "temp" \/ nat[n] # "live"

\* When a callback has returned nobody in Go can use what C++ is about to free.
ReturnInv ==
  \A i \in Depths : stack[i].kind = "returning" =>
    /\ \A n \in stack[i].args : ~Usable(n)
    /\ stack[i].result # NoNative => nat[stack[i].result] = "live" /\ ~Usable(stack[i].result)

\* A handle that the context records lives, and Go can reach its wrapper.
TrackedInv ==
  \A n \in Natives :
    /\ n \in tracked => nat[n] = "live"
    /\ n \in tracked /\ Usable(n) => n \in liveValues
    /\ wrapper[n] = "temp" => n \in tracked

\* NoOrphans without the frames that only read a handle: they do not keep it.
HeldInv ==
  \A n \in Natives : nat[n] = "live" =>
    \/ Held(n)
    \/ n \in tracked \cap (abandoned \cup {v \in liveValues : wrapper[v] = "set"})

\* Some call waits that made n for its arguments.
Temporary(n) == \E i \in Depths : n \in stack[i].temps

StackInv == ShapeInv /\ OwnerInv /\ LentInv /\ ReturnInv
HandleInv == TrackedInv /\ HeldInv /\ WrappersAreLive /\ TemporariesAreReclaimed

CInv == CallbackTypeOK /\ StackInv /\ HandleInv /\ ReentrantCallsAreSafe

----------------------------------------------------------------------------
(* Frames and stacks.                                                      *)

\* What is left of a stack when its innermost frame is popped.
LEMMA StackPop ==
  ASSUME NEW S, NEW s \in Seq(S), s # <<>>
  PROVE  /\ Front(s) \in Seq(S)
         /\ Last(s) \in S
         /\ Len(s) \in Nat \ {0}
         /\ Len(Front(s)) = Len(s) - 1
         /\ Last(s) = s[Len(s)]
         /\ \A i \in 1..Len(s)-1 : Front(s)[i] = s[i]
<1>1. Len(s) \in Nat \ {0} /\ \A i \in 1..Len(s) : s[i] \in S
  BY EmptySeq
<1>2. PICK n \in Nat : n = Len(s) - 1
  BY <1>1
<1>3. SubSeq(s, 1, n) \in Seq(S)
  BY <1>1, <1>2, SubSeqProperties
<1>4. Len(SubSeq(s, 1, n)) = n /\ \A i \in 1..n : SubSeq(s, 1, n)[i] = s[i]
  BY <1>1, <1>2
<1> QED
  BY <1>1, <1>2, <1>3, <1>4 DEF Front, Last

\* What is in a frame.
LEMMA FrameFields ==
  ASSUME NEW f \in Frames
  PROVE  /\ f.kind \in JSKinds \cup GoKinds
         /\ f.args \subseteq Natives /\ f.temps \subseteq Natives
         /\ f.result \in Natives \cup {NoNative}
         /\ Own(f) \subseteq Natives \cup {NoNative}
  BY DEF Frames, GoKinds, Own

\* A frame of JavaScript.
LEMMA ScriptFrame ==
  ASSUME NEW kind \in JSKinds, NEW reads \in SUBSET Natives, NEW temps \in SUBSET Natives,
         NEW f, f = JS(kind, reads, temps)
  PROVE  /\ f \in Frames /\ f.kind = kind
         /\ f.args = {} /\ f.temps = temps /\ f.result = NoNative
  BY DEF JS, Frames

\* The innermost frame of a stack that is not empty.
LEMMA TopFrame ==
  ASSUME CallbackTypeOK, Innermost # "host"
  PROVE  /\ stack # <<>> /\ Len(stack) \in Nat \ {0}
         /\ Len(stack) \in Depths
         /\ Last(stack) = stack[Len(stack)] /\ Last(stack) \in Frames
         /\ Last(stack).kind = Innermost
<1>1. stack # <<>> /\ Last(stack).kind = Innermost
  BY DEF Innermost
<1> QED
  BY <1>1, StackPop DEF CallbackTypeOK, Depths

\* Frames below the innermost one are not about to return.
LEMMA Waiting ==
  ASSUME CallbackTypeOK, ShapeInv, NEW i \in Depths,
         i # Len(stack) \/ Innermost # "returning"
  PROVE  stack[i].kind # "returning"
<1>1. Len(stack) \in Nat /\ stack # <<>>
  BY LenProperties DEF CallbackTypeOK, Depths
<1>2. Last(stack) = stack[Len(stack)]
  BY <1>1, StackPop DEF CallbackTypeOK
<1> QED
  BY <1>1, <1>2 DEF ShapeInv, Innermost

\* The first k frames stay.
Keeps(k) ==
  /\ stack' \in Seq(Frames) /\ Len(stack') <= MaxStack
  /\ k \in 0..Len(stack) /\ Len(stack') \in {k, k + 1}
  /\ \A i \in 1..k : stack'[i] = stack[i]

\* A push keeps all frames.
LEMMA PushKeeps ==
  ASSUME CallbackTypeOK, NEW f \in Frames, Len(stack) < MaxStack, stack' = Append(stack, f)
  PROVE  Keeps(Len(stack)) /\ Len(stack') = Len(stack) + 1 /\ stack'[Len(stack) + 1] = f
<1>1. stack \in Seq(Frames) /\ Len(stack) \in Nat
  BY LenProperties DEF CallbackTypeOK
<1> QED
  BY <1>1, AppendProperties DEF Keeps

\* A pop keeps all but one.
LEMMA PopKeeps ==
  ASSUME CallbackTypeOK, stack # <<>>, stack' = Front(stack)
  PROVE  Keeps(Len(stack) - 1) /\ Len(stack') = Len(stack) - 1
<1>1. /\ stack' \in Seq(Frames) /\ Len(stack) \in Nat \ {0}
      /\ Len(stack') = Len(stack) - 1
      /\ \A i \in 1..Len(stack)-1 : stack'[i] = stack[i]
  BY StackPop DEF CallbackTypeOK
<1> QED
  BY <1>1 DEF CallbackTypeOK, Keeps

\* So does a change of the innermost frame.
LEMMA ReplaceKeeps ==
  ASSUME CallbackTypeOK, stack # <<>>, NEW f \in Frames, ReplaceTop(f)
  PROVE  Keeps(Len(stack) - 1) /\ Len(stack') = Len(stack) /\ stack'[Len(stack)] = f
<1> DEFINE s == Front(stack)
<1>1. /\ s \in Seq(Frames) /\ Len(stack) \in Nat \ {0} /\ Len(s) = Len(stack) - 1
      /\ \A i \in 1..Len(stack)-1 : s[i] = stack[i]
  BY StackPop DEF CallbackTypeOK
<1>2. stack' = Append(s, f)
  BY DEF ReplaceTop
<1> HIDE DEF s
<1>3. /\ stack' \in Seq(Frames) /\ Len(stack') = Len(stack)
      /\ \A i \in 1..Len(stack)-1 : stack'[i] = stack[i]
      /\ stack'[Len(stack)] = f
  BY <1>1, <1>2, AppendProperties
<1> QED
  BY <1>1, <1>3 DEF Keeps, CallbackTypeOK

\* What frames that stay answer for is still answered for.
LEMMA Stays ==
  ASSUME CallbackTypeOK, NEW k \in 0..Len(stack), Len(stack) \in {k, k + 1}, Keeps(k)
  PROVE  /\ \A n : Held(n) => \/ Held(n)'
                              \/ Len(stack) = k + 1 /\ n \in Own(stack[k + 1])
         /\ \A n : Temporary(n) => \/ Temporary(n)'
                                   \/ Len(stack) = k + 1 /\ n \in stack[k + 1].temps
         /\ Len(stack') = k + 1 =>
              /\ \A n \in Own(stack'[k + 1]) : Held(n)'
              /\ \A n \in stack'[k + 1].temps : Temporary(n)'
<1>1. Len(stack) \in Nat /\ Len(stack') \in Nat /\ k \in Nat
  BY LenProperties DEF CallbackTypeOK, Keeps
<1>2. \A i \in Depths : \/ i \in Depths' /\ stack'[i] = stack[i]
                        \/ i = k + 1 /\ Len(stack) = k + 1
  BY <1>1 DEF Depths, Keeps
<1>3. Len(stack') = k + 1 => k + 1 \in Depths'
  BY <1>1 DEF Depths
<1> QED
  BY <1>2, <1>3 DEF Held, Temporary

----------------------------------------------------------------------------
(* What a step has to respect.                                             *)

\* What the first k frames answer for is left to them.
Respects(k) ==
  \A i \in 1..k :
    /\ stack[i].kind # "returning"
    /\ \A n \in stack[i].args : nat'[n] = "live" /\ n \notin tracked'
    /\ \A n \in stack[i].temps : wrapper'[n] = "temp" \/ nat'[n] # "live"

\* A frame f fits on top of the first k frames.
Fits(k, f) ==
  /\ f.kind \in JSKinds => f.args = {} /\ f.result = NoNative
  /\ f.kind \in GoKinds => f.temps = {}
  /\ f.kind = "callback" => f.result = NoNative
  /\ \A i \in 1..k : Own(stack[i]) \cap Own(f) \subseteq {NoNative}
  /\ f.result \notin f.args
  /\ \A n \in f.args : nat'[n] = "live" /\ n \notin tracked'
  /\ \A n \in f.temps : wrapper'[n] = "temp" \/ nat'[n] # "live"
  /\ f.kind = "returning" =>
       /\ \A n \in f.args : wrapper'[n] \notin {"set", "temp"}
       /\ f.result # NoNative =>
            nat'[f.result] = "live" /\ wrapper'[f.result] \notin {"set", "temp"}

\* Such a step keeps what is said of the stack.
LEMMA StackStep ==
  ASSUME CallbackTypeOK, StackInv, NEW k \in 0..Len(stack), Keeps(k), Respects(k),
         Len(stack') = k + 1 => Fits(k, stack'[k + 1])
  PROVE  StackInv'
<1>1. Len(stack) \in Nat /\ Len(stack') \in Nat /\ k \in Nat
  BY LenProperties DEF CallbackTypeOK, Keeps
<1>2. \A i \in Depths' :
        \/ i \in 1..k /\ i \in Depths /\ stack'[i] = stack[i]
        \/ i = k + 1 /\ Len(stack') = k + 1
  <2> SUFFICES ASSUME NEW i \in 1..Len(stack')
               PROVE  \/ i \in 1..k /\ i \in 1..Len(stack) /\ stack'[i] = stack[i]
                      \/ i = k + 1 /\ Len(stack') = k + 1
    BY DEF Depths
  <2>1. Len(stack') = k \/ Len(stack') = k + 1
    BY DEF Keeps
  <2>2. i \in 1..k \/ i = k + 1
    BY <1>1, <2>1
  <2>3. CASE i \in 1..k
    BY <1>1, <2>3 DEF Keeps
  <2>4. CASE i = k + 1
    BY <1>1, <2>1, <2>4
  <2> QED
    BY <2>2, <2>3, <2>4
<1>3. ASSUME NEW i \in Depths'
      PROVE  /\ stack'[i].kind \in JSKinds =>
                  stack'[i].args = {} /\ stack'[i].result = NoNative
             /\ stack'[i].kind \in GoKinds => stack'[i].temps = {}
             /\ stack'[i].kind = "callback" => stack'[i].result = NoNative
             /\ stack'[i].kind = "returning" => i = Len(stack')
             /\ stack'[i].result \notin stack'[i].args
             /\ \A n \in stack'[i].args : nat'[n] = "live" /\ n \notin tracked'
             /\ \A n \in stack'[i].temps : wrapper'[n] = "temp" \/ nat'[n] # "live"
             /\ stack'[i].kind = "returning" =>
                  /\ \A n \in stack'[i].args : wrapper'[n] \notin {"set", "temp"}
                  /\ stack'[i].result # NoNative =>
                       /\ nat'[stack'[i].result] = "live"
                       /\ wrapper'[stack'[i].result] \notin {"set", "temp"}
  <2>1. CASE i \in 1..k /\ i \in Depths /\ stack'[i] = stack[i]
    BY <2>1 DEF StackInv, ShapeInv, OwnerInv, Respects
  <2>2. CASE i = k + 1 /\ Len(stack') = k + 1
    BY <2>2 DEF Fits
  <2> QED
    BY <1>2, <2>1, <2>2
<1>4. ASSUME NEW i \in Depths', NEW j \in Depths', i # j
      PROVE  Own(stack'[i]) \cap Own(stack'[j]) \subseteq {NoNative}
  <2>1. CASE i \in Depths /\ stack'[i] = stack[i] /\ j \in Depths /\ stack'[j] = stack[j]
    BY <1>4, <2>1 DEF StackInv, OwnerInv
  <2>2. CASE i \in 1..k /\ stack'[i] = stack[i] /\ j = k + 1 /\ Len(stack') = k + 1
    BY <2>2 DEF Fits
  <2>3. CASE j \in 1..k /\ stack'[j] = stack[j] /\ i = k + 1 /\ Len(stack') = k + 1
    BY <2>3 DEF Fits
  <2> QED
    BY <1>2, <1>4, <2>1, <2>2, <2>3
<1>5. ShapeInv'
  BY <1>3 DEF ShapeInv
<1>6. OwnerInv'
  BY <1>3, <1>4 DEF OwnerInv, Own
<1>7. LentInv'
  BY <1>3 DEF LentInv
<1>8. ReturnInv'
  BY <1>3 DEF ReturnInv, Usable
<1> QED
  BY <1>5, <1>6, <1>7, <1>8 DEF StackInv

----------------------------------------------------------------------------
(* The steps.                                                              *)

\* The stack is empty at first, and there are no handles.
LEMMA InitCInv == CallbackInit => CInv
<1> SUFFICES ASSUME CallbackInit PROVE CInv
  OBVIOUS
<1> USE DEF CallbackInit
<1>1. Len(stack) = 0 /\ Depths = {}
  BY DEF Depths
<1>2. closed \in BOOLEAN
  OBVIOUS
<1>3. CallbackTypeOK
  BY <1>1, <1>2 DEF CallbackTypeOK
<1>4. StackInv
  BY <1>1 DEF StackInv, ShapeInv, OwnerInv, LentInv, ReturnInv
<1>5. HandleInv
  BY DEF HandleInv, TrackedInv, HeldInv, WrappersAreLive, TemporariesAreReclaimed, Usable
<1> QED
  BY <1>3, <1>4, <1>5 DEF CInv, ReentrantCallsAreSafe

\* What the allocator hands out belongs to nobody.
LEMMA FreshIsFree ==
  ASSUME CInv, NEW n \in Fresh
  PROVE  /\ n \in Natives /\ n # NoNative
         /\ nat[n] # "live" /\ ~Usable(n) /\ n \notin tracked
         /\ \A i \in Depths : n \notin Own(stack[i])
<1>1. n \in Natives /\ nat[n] # "live" /\ ~Usable(n) /\ ~InUse(n)
  BY DEF Fresh, Usable
<1>2. n \notin tracked
  BY <1>1 DEF CInv, HandleInv, TrackedInv
<1>3. \A i \in Depths : n \notin Own(stack[i])
  BY <1>1 DEF InUse, Depths, Own
<1> QED
  BY <1>1, <1>2, <1>3

\* A step that leaves all but the fault alone.
LEMMA FrozenStep ==
  ASSUME CInv, UNCHANGED <<stack, nat, tracked, wrapper, liveValues, abandoned, closed>>,
         fault' \in {"none", "nilDeref", "nilArg", "useAfterFree", "doubleFree"},
         ReentrantCallsAreSafe'
  PROVE  CInv'
<1> USE DEF CInv
<1>1. CallbackTypeOK'
  BY DEF CallbackTypeOK
<1>2. StackInv'
  BY DEF StackInv, ShapeInv, OwnerInv, LentInv, ReturnInv, Depths, Usable
<1>3. HandleInv'
  BY DEF HandleInv, TrackedInv, HeldInv, Held, Depths, WrappersAreLive,
         TemporariesAreReclaimed, Usable
<1> QED
  BY <1>1, <1>2, <1>3

\* To die while native code waits for its JavaScript with a dangling pointer is
\* a listed exception.
LEMMA CrashStep ==
  ASSUME CInv, NEW f \in {"nilDeref", "useAfterFree"}, Crash(f), stack # <<>>, Dangling
  PROVE  CInv'
<1>1. ReentrantCallsAreSafe'
  BY DEF Crash, ReentrantCallsAreSafe, Dangling
<1> QED
  BY <1>1, FrozenStep DEF Crash

\* A step of the host that leaves the stack alone.
LEMMA HostStep ==
  ASSUME CInv, InGo, UNCHANGED stack,
         \A i \in Depths :
           /\ \A n \in stack[i].args : nat'[n] = "live" /\ n \notin tracked'
           /\ \A n \in stack[i].temps : wrapper'[n] = "temp" \/ nat'[n] # "live"
  PROVE  /\ StackInv'
         /\ \A n : Held(n) => Held(n)'
         /\ \A n : Temporary(n) => Temporary(n)'
<1>1. Len(stack) \in Nat /\ Len(stack) <= MaxStack /\ stack \in Seq(Frames)
  BY LenProperties DEF CInv, CallbackTypeOK
<1>2. Keeps(Len(stack)) /\ Len(stack') # Len(stack) + 1
  BY <1>1 DEF Keeps
<1>3. Respects(Len(stack))
  <2>1. \A i \in Depths : stack[i].kind # "returning"
    BY Waiting DEF CInv, StackInv, InGo
  <2> QED
    BY <2>1 DEF Respects, Depths
<1>4. StackInv'
  BY <1>1, <1>2, <1>3, StackStep DEF CInv
<1> QED
  BY <1>4 DEF Held, Temporary, Depths

\* The parts of HandleInv for one handle.
HandleOK(n) ==
  /\ n \in tracked => nat[n] = "live"
  /\ n \in tracked /\ Usable(n) => n \in liveValues
  /\ wrapper[n] = "temp" => n \in tracked /\ Temporary(n)
  /\ Usable(n) => nat[n] = "live"
  /\ nat[n] = "live" =>
       \/ Held(n)
       \/ n \in tracked /\ (n \in abandoned \/ (n \in liveValues /\ wrapper[n] = "set"))

\* HandleInv says this of every handle.
LEMMA HandleByHandle == HandleInv <=> \A n \in Natives : HandleOK(n)
<1>1. TemporariesAreReclaimed <=> \A n \in Natives : wrapper[n] = "temp" => Temporary(n)
  BY DEF TemporariesAreReclaimed, Temporary, Depths
<1> QED
  BY <1>1 DEF HandleInv, HandleOK, TrackedInv, HeldInv, WrappersAreLive, Usable

\* The same after a step.
LEMMA HandleByHandleNext == HandleInv' <=> \A n \in Natives : HandleOK(n)'
<1>1. TemporariesAreReclaimed' <=> \A n \in Natives : wrapper'[n] = "temp" => Temporary(n)'
  BY DEF TemporariesAreReclaimed, Temporary, Depths
<1> QED
  BY <1>1 DEF HandleInv, HandleOK, TrackedInv, HeldInv, WrappersAreLive, Usable

\* A call into JavaScript: the innermost frame is the script, and its temporaries
\* are new.
LEMMA CallStep ==
  ASSUME CInv, InGo, Len(stack) < MaxStack,
         NEW kind \in JSKinds, NEW reads \in SUBSET Natives, NEW t \in Temporaries,
         Made(t, "temp"), stack' = Append(stack, JS(kind, reads, t)),
         UNCHANGED <<abandoned, closed, fault>>
  PROVE  CInv'
<1> USE DEF CInv
<1> DEFINE f == JS(kind, reads, t)
<1>1. \A n \in t : /\ n \in Natives /\ n # NoNative
                   /\ nat[n] # "live" /\ ~Usable(n) /\ n \notin tracked
                   /\ \A i \in Depths : n \notin Own(stack[i])
  BY FreshIsFree DEF Temporaries
<1>2. t \in SUBSET Natives
  BY <1>1
<1>3. f \in Frames /\ f.kind = kind /\ f.args = {} /\ f.temps = t /\ f.result = NoNative
  BY <1>2, ScriptFrame
<1> HIDE DEF f
<1>4. Keeps(Len(stack)) /\ Len(stack') = Len(stack) + 1 /\ stack'[Len(stack) + 1] = f
  BY <1>3, PushKeeps DEF f
<1>5. Len(stack) \in Nat
  BY LenProperties DEF CallbackTypeOK
<1>6. /\ nat' \in [Natives -> {"none", "live", "freed"}]
      /\ wrapper' \in [Natives -> {"none", "set", "nil", "temp"}]
      /\ \A n \in t : nat'[n] = "live" /\ wrapper'[n] = "temp"
      /\ \A n \in Natives \ t : nat'[n] = nat[n] /\ wrapper'[n] = wrapper[n]
      /\ tracked' = tracked \cup t /\ liveValues' = liveValues \cup t
  BY <1>2 DEF Made, CallbackTypeOK
<1>7. CallbackTypeOK'
  BY <1>2, <1>4, <1>6 DEF CallbackTypeOK, Keeps
<1>8. \A i \in Depths : /\ stack[i].kind # "returning"
                        /\ Own(stack[i]) \cap t = {}
                        /\ stack[i].args \subseteq Natives /\ stack[i].temps \subseteq Natives
  <2> SUFFICES ASSUME NEW i \in Depths
               PROVE  /\ stack[i].kind # "returning"
                      /\ Own(stack[i]) \cap t = {}
                      /\ stack[i].args \subseteq Natives /\ stack[i].temps \subseteq Natives
    OBVIOUS
  <2>1. stack[i].kind # "returning"
    BY Waiting DEF StackInv, InGo
  <2>2. stack[i] \in Frames
    BY ElementOfSeq DEF CallbackTypeOK, Depths
  <2> QED
    BY <1>1, <2>1, <2>2, FrameFields
<1>9. Respects(Len(stack))
  BY <1>6, <1>8 DEF Respects, Depths, StackInv, LentInv, Own
<1>10. Fits(Len(stack), f)
  BY <1>3, <1>6, <1>8 DEF Fits, Own, Depths, JSKinds, GoKinds
<1>11. StackInv'
  BY <1>4, <1>5, <1>9, <1>10, StackStep
<1>12. /\ \A n : Held(n) => Held(n)'
       /\ \A n : Temporary(n) => Temporary(n)'
       /\ \A n \in t : Held(n)' /\ Temporary(n)'
  BY <1>3, <1>4, <1>5, Stays DEF Own
<1>13. HandleInv'
  <2> SUFFICES ASSUME NEW n \in Natives PROVE HandleOK(n)'
    BY HandleByHandleNext
  <2>1. HandleOK(n)
    BY HandleByHandle
  <2> QED
    BY <1>6, <1>12, <2>1 DEF HandleOK, Usable
<1> QED
  BY <1>7, <1>11, <1>13 DEF ReentrantCallsAreSafe, InGo

\* Every call of the host that runs JavaScript is such a step.
LEMMA CallSteps ==
  ASSUME CInv,
         \/ RunScript \/ CallValue \/ CallMethod \/ Effect \/ PerformMicrotaskCheckpoint
  PROVE  CInv'
<1>1. {} \in Temporaries
  BY DEF Temporaries
<1>2. CASE RunScript
  <2>1. Made({}, "temp")
    BY <1>2 DEF RunScript, Made, CInv, CallbackTypeOK
  <2> QED
    BY <1>1, <1>2, <2>1, CallStep DEF RunScript, JSKinds
<1>3. CASE PerformMicrotaskCheckpoint
  <2>1. Made({}, "temp")
    BY <1>3 DEF PerformMicrotaskCheckpoint, Made, CInv, CallbackTypeOK
  <2> QED
    BY <1>1, <1>3, <2>1, CallStep DEF PerformMicrotaskCheckpoint, JSKinds
<1>4. CASE CallValue
  <2>1. PICK f \in Natives, t \in Temporaries :
          Made(t, "temp") /\ stack' = Append(stack, JS("call", {f}, t))
    BY <1>4 DEF CallValue
  <2> QED
    BY <1>4, <2>1, CallStep DEF CallValue, JSKinds
<1>5. CASE CallMethod
  <2>1. PICK o \in Natives, a \in Natives, t \in Temporaries :
          Made(t, "temp") /\ stack' = Append(stack, JS("lookup", {o, a} \cup t, t))
    BY <1>5 DEF CallMethod
  <2>2. {o, a} \cup t \in SUBSET Natives
    BY DEF Temporaries, Fresh
  <2> QED
    BY <1>5, <2>1, <2>2, CallStep DEF CallMethod, JSKinds
<1>6. CASE Effect
  <2>1. PICK t \in Temporaries :
          Made(t, "temp") /\ stack' = Append(stack, JS("effect", {}, t))
    BY <1>6 DEF Effect
  <2> QED
    BY <1>6, <2>1, CallStep DEF Effect, JSKinds
<1> QED
  BY <1>2, <1>3, <1>4, <1>5, <1>6

\* Calls of the host that run nothing: they make or free handles.
LEMMA HandleSteps ==
  ASSUME CInv, RefuseArgs \/ NewHandle \/ Release \/ Close
  PROVE  CInv'
<1> USE DEF CInv
<1>1. InGo /\ stack' = stack /\ fault = "none"
  BY DEF RefuseArgs, NewHandle, Release, Close, InGo
<1>2. \A i \in Depths : /\ stack[i].args \subseteq Natives /\ stack[i].temps \subseteq Natives
                        /\ stack[i].args \subseteq Own(stack[i])
                        /\ stack[i].temps \subseteq Own(stack[i])
                        /\ \A n \in stack[i].args : nat[n] = "live" /\ n \notin tracked
                        /\ \A n \in stack[i].temps : wrapper[n] = "temp" \/ nat[n] # "live"
  BY ElementOfSeq, FrameFields DEF CallbackTypeOK, Depths, StackInv, LentInv, Own
<1>3. \A n \in Natives : HandleOK(n)
  BY HandleByHandle
<1>4. ASSUME CallbackTypeOK', fault' = "none",
             \A i \in Depths :
               /\ \A n \in stack[i].args : nat'[n] = "live" /\ n \notin tracked'
               /\ \A n \in stack[i].temps : wrapper'[n] = "temp" \/ nat'[n] # "live",
             (/\ \A n : Held(n) => Held(n)'
              /\ \A n : Temporary(n) => Temporary(n)') => \A n \in Natives : HandleOK(n)'
      PROVE  CInv'
  BY <1>1, <1>4, HostStep, HandleByHandleNext DEF ReentrantCallsAreSafe
<1>5. CASE RefuseArgs
  <2>1. PICK t \in Fresh : /\ nat' = [nat EXCEPT ![t] = "freed"]
                           /\ wrapper' = [wrapper EXCEPT ![t] = "nil"]
    BY <1>5 DEF RefuseArgs
  <2>2. UNCHANGED <<stack, tracked, liveValues, abandoned, closed, fault>>
    BY <1>5 DEF RefuseArgs
  <2>3. /\ t \in Natives /\ t \notin tracked
        /\ \A i \in Depths : t \notin Own(stack[i])
    BY FreshIsFree
  <2>4. CallbackTypeOK'
    BY <2>1, <2>2, <2>3 DEF CallbackTypeOK
  <2>5. /\ nat'[t] = "freed" /\ wrapper'[t] = "nil"
        /\ \A n \in Natives \ {t} : nat'[n] = nat[n] /\ wrapper'[n] = wrapper[n]
    BY <2>1, <2>3 DEF CallbackTypeOK
  <2> QED
    BY <1>1, <1>2, <1>3, <1>4, <2>2, <2>3, <2>4, <2>5 DEF HandleOK, Usable
<1>6. CASE NewHandle
  <2>1. PICK t \in Fresh : Made({t}, "set")
    BY <1>6 DEF NewHandle
  <2>2. UNCHANGED <<stack, abandoned, closed, fault>>
    BY <1>6 DEF NewHandle
  <2>3. /\ t \in Natives /\ t \notin tracked
        /\ \A i \in Depths : t \notin Own(stack[i])
    BY FreshIsFree
  <2>4. CallbackTypeOK'
    BY <2>1, <2>2, <2>3 DEF Made, CallbackTypeOK
  <2>5. /\ nat'[t] = "live" /\ wrapper'[t] = "set"
        /\ \A n \in Natives \ {t} : nat'[n] = nat[n] /\ wrapper'[n] = wrapper[n]
        /\ tracked' = tracked \cup {t} /\ liveValues' = liveValues \cup {t}
    BY <2>1, <2>3 DEF Made, CallbackTypeOK
  <2> QED
    BY <1>1, <1>2, <1>3, <1>4, <2>2, <2>3, <2>4, <2>5 DEF HandleOK, Usable
<1>7. CASE Release
  <2>1. PICK n \in Natives :
          /\ wrapper[n] = "set"
          /\ IF Borrowed(n) THEN UNCHANGED <<nat, tracked, liveValues, fault>>
             ELSE /\ liveValues' = liveValues \ {n}
                  /\ tracked' = tracked \ {n}
                  /\ nat' = [nat EXCEPT ![n] = "freed"]
                  /\ fault' = IF nat[n] = "freed" THEN "doubleFree" ELSE "none"
          /\ wrapper' = [wrapper EXCEPT ![n] = "nil"]
    BY <1>7 DEF Release
  <2>2. UNCHANGED <<stack, abandoned, closed>>
    BY <1>7 DEF Release
  <2>3. nat[n] = "live"
    BY <1>3, <2>1 DEF HandleOK, Usable
  <2>4. /\ wrapper' \in [Natives -> {"none", "set", "nil", "temp"}]
        /\ wrapper'[n] = "nil" /\ \A m \in Natives \ {n} : wrapper'[m] = wrapper[m]
    BY <2>1 DEF CallbackTypeOK
  <2>5. CASE n \notin tracked
    <3>1. UNCHANGED <<nat, tracked, liveValues, fault>>
      BY <2>1, <2>5 DEF Borrowed
    <3>2. CallbackTypeOK'
      BY <2>2, <2>4, <3>1 DEF CallbackTypeOK
    <3>3. \A i \in Depths : \A m \in stack[i].temps : wrapper'[m] = "temp" \/ nat'[m] # "live"
      BY <1>2, <2>1, <2>4, <3>1
    <3> QED
      BY <1>1, <1>2, <1>3, <1>4, <2>2, <2>4, <2>5, <3>1, <3>2, <3>3 DEF HandleOK, Usable
  <2>6. CASE n \in tracked
    <3>1. /\ liveValues' = liveValues \ {n} /\ tracked' = tracked \ {n}
          /\ nat' = [nat EXCEPT ![n] = "freed"] /\ fault' = "none"
      BY <2>1, <2>3, <2>6 DEF Borrowed
    <3>2. CallbackTypeOK'
      BY <2>2, <2>4, <3>1 DEF CallbackTypeOK
    <3>3. nat'[n] = "freed" /\ \A m \in Natives \ {n} : nat'[m] = nat[m]
      BY <3>1 DEF CallbackTypeOK
    <3>4. \A i \in Depths :
            /\ \A m \in stack[i].args : nat'[m] = "live" /\ m \notin tracked'
            /\ \A m \in stack[i].temps : wrapper'[m] = "temp" \/ nat'[m] # "live"
      BY <1>2, <2>1, <2>4, <2>6, <3>1, <3>3
    <3> QED
      BY <1>3, <1>4, <2>2, <2>4, <3>1, <3>2, <3>3, <3>4 DEF HandleOK, Usable
  <2> QED
    BY <2>5, <2>6
<1>8. CASE Close
  <2> USE <1>8 DEF Close
  <2>1. CallbackTypeOK' /\ fault' = "none"
    BY <1>1 DEF CallbackTypeOK
  <2>2. \A n \in Natives :
          /\ wrapper'[n] = IF n \in liveValues THEN "nil" ELSE wrapper[n]
          /\ nat'[n] = IF n \in tracked THEN "freed" ELSE nat[n]
    OBVIOUS
  <2>3. tracked' = {} /\ liveValues' = {}
    OBVIOUS
  <2> HIDE DEF Close
  <2>4. \A n \in Natives : wrapper[n] = "temp" => n \in tracked
    BY <1>3 DEF HandleOK
  <2>5. \A i \in Depths :
          /\ \A n \in stack[i].args : nat'[n] = "live" /\ n \notin tracked'
          /\ \A n \in stack[i].temps : wrapper'[n] = "temp" \/ nat'[n] # "live"
    BY <1>2, <2>2, <2>3, <2>4
  <2> QED
    BY <1>3, <1>4, <2>1, <2>2, <2>3, <2>5 DEF HandleOK, Usable
<1> QED
  BY <1>5, <1>6, <1>7, <1>8

\* The innermost frame, and what it does not share with the frames below.
LEMMA TopOwner ==
  ASSUME CInv, Innermost # "host"
  PROVE  /\ Len(stack) \in Nat \ {0} /\ stack # <<>>
         /\ Last(stack) = stack[Len(stack)] /\ Last(stack).kind = Innermost
         /\ Last(stack).args \subseteq Natives /\ Last(stack).temps \subseteq Natives
         /\ Last(stack).result \in Natives \cup {NoNative}
         /\ Last(stack).result \notin Last(stack).args
         /\ \A n \in Last(stack).args : nat[n] = "live" /\ n \notin tracked
         /\ \A n \in Last(stack).temps : wrapper[n] = "temp" \/ nat[n] # "live"
         /\ \A i \in 1..Len(stack)-1 :
              /\ i \in Depths /\ stack[i].kind # "returning"
              /\ stack[i].args \subseteq Natives /\ stack[i].temps \subseteq Natives
              /\ stack[i].args \subseteq Own(stack[i]) /\ stack[i].temps \subseteq Own(stack[i])
              /\ \A n \in stack[i].args : nat[n] = "live" /\ n \notin tracked
              /\ \A n \in stack[i].temps : wrapper[n] = "temp" \/ nat[n] # "live"
              /\ Own(stack[i]) \cap Own(Last(stack)) \subseteq {NoNative}
<1> USE DEF CInv
<1>1. /\ stack # <<>> /\ Len(stack) \in Nat \ {0} /\ Len(stack) \in Depths
      /\ Last(stack) = stack[Len(stack)] /\ Last(stack) \in Frames
      /\ Last(stack).kind = Innermost
  BY TopFrame
<1>2. ASSUME NEW i \in 1..Len(stack)-1
      PROVE  /\ i \in Depths /\ stack[i].kind # "returning"
             /\ stack[i].args \subseteq Natives /\ stack[i].temps \subseteq Natives
             /\ stack[i].args \subseteq Own(stack[i]) /\ stack[i].temps \subseteq Own(stack[i])
             /\ \A n \in stack[i].args : nat[n] = "live" /\ n \notin tracked
             /\ \A n \in stack[i].temps : wrapper[n] = "temp" \/ nat[n] # "live"
             /\ Own(stack[i]) \cap Own(Last(stack)) \subseteq {NoNative}
  <2>1. i \in Depths /\ i # Len(stack)
    BY <1>1 DEF Depths
  <2>2. stack[i].kind # "returning"
    BY <2>1, Waiting DEF StackInv
  <2>3. stack[i] \in Frames
    BY <2>1, ElementOfSeq DEF CallbackTypeOK, Depths
  <2>4. stack[i].args \subseteq Own(stack[i]) /\ stack[i].temps \subseteq Own(stack[i])
    BY DEF Own
  <2>5. /\ \A n \in stack[i].args : nat[n] = "live" /\ n \notin tracked
        /\ \A n \in stack[i].temps : wrapper[n] = "temp" \/ nat[n] # "live"
    BY <2>1 DEF StackInv, LentInv
  <2>6. Own(stack[i]) \cap Own(Last(stack)) \subseteq {NoNative}
    BY <1>1, <2>1 DEF StackInv, OwnerInv
  <2> QED
    BY <2>1, <2>2, <2>3, <2>4, <2>5, <2>6, FrameFields
<1>3. /\ \A n \in Last(stack).args : nat[n] = "live" /\ n \notin tracked
      /\ \A n \in Last(stack).temps : wrapper[n] = "temp" \/ nat[n] # "live"
      /\ Last(stack).result \notin Last(stack).args
  BY <1>1 DEF StackInv, LentInv, OwnerInv
<1>4. /\ Last(stack).args \subseteq Natives /\ Last(stack).temps \subseteq Natives
      /\ Last(stack).result \in Natives \cup {NoNative}
  BY <1>1, FrameFields
<1> QED
  BY <1>1, <1>2, <1>3, <1>4

\* A script calls a host function: an argument is lent.
LEMMA CallHostFunctionStep ==
  ASSUME CInv, CallHostFunction
  PROVE  CInv'
<1> USE DEF CInv
<1>1. InScript /\ Innermost # "host" /\ Innermost # "returning" /\ Len(stack) < MaxStack
  BY DEF CallHostFunction, InScript, JSKinds
<1>2. CASE closed
  <2>1. stack # <<>>
    BY <1>1 DEF Innermost
  <2> QED
    BY <1>2, <2>1, CrashStep DEF CallHostFunction, Dangling
<1>3. CASE ~closed
  <2>1. PICK n \in Fresh : /\ nat' = [nat EXCEPT ![n] = "live"]
                           /\ wrapper' = [wrapper EXCEPT ![n] = "set"]
                           /\ stack' = Append(stack, Callback({n}))
    BY <1>3 DEF CallHostFunction
  <2>2. UNCHANGED <<tracked, liveValues, abandoned, closed, fault>> /\ fault = "none"
    BY <1>1, <1>3 DEF CallHostFunction, InScript
  <2>3. /\ n \in Natives /\ n # NoNative /\ n \notin tracked
        /\ \A i \in Depths : n \notin Own(stack[i])
    BY FreshIsFree
  <2> DEFINE f == Callback({n})
  <2>4. f \in Frames /\ f.kind = "callback" /\ f.args = {n} /\ f.temps = {} /\ f.result = NoNative
    <3>1. "callback" \in GoKinds /\ {n} \in SUBSET Natives /\ NoNative \in Natives \cup {NoNative}
      BY <2>3 DEF GoKinds
    <3> QED
      BY <3>1 DEF Callback, Go, Frames, GoKinds
  <2> HIDE DEF f
  <2>5. Keeps(Len(stack)) /\ Len(stack') = Len(stack) + 1 /\ stack'[Len(stack) + 1] = f
    BY <1>1, <2>1, <2>4, PushKeeps DEF f
  <2>6. Len(stack) \in Nat
    BY LenProperties DEF CallbackTypeOK
  <2>7. CallbackTypeOK'
    BY <2>1, <2>2, <2>3, <2>5 DEF CallbackTypeOK, Keeps
  <2>8. /\ nat'[n] = "live" /\ wrapper'[n] = "set"
        /\ \A m \in Natives \ {n} : nat'[m] = nat[m] /\ wrapper'[m] = wrapper[m]
    BY <2>1, <2>3 DEF CallbackTypeOK
  <2>9. \A i \in Depths :
          /\ stack[i].kind # "returning"
          /\ stack[i].args \subseteq Natives /\ stack[i].temps \subseteq Natives
          /\ n \notin stack[i].args /\ n \notin stack[i].temps
    <3> SUFFICES ASSUME NEW i \in Depths
                 PROVE  /\ stack[i].kind # "returning"
                        /\ stack[i].args \subseteq Natives /\ stack[i].temps \subseteq Natives
                        /\ n \notin stack[i].args /\ n \notin stack[i].temps
      OBVIOUS
    <3>1. stack[i].kind # "returning"
      BY <1>1, Waiting DEF StackInv
    <3>2. stack[i] \in Frames
      BY ElementOfSeq DEF CallbackTypeOK, Depths
    <3> QED
      BY <2>3, <3>1, <3>2, FrameFields DEF Own
  <2>10. Respects(Len(stack))
    BY <2>2, <2>8, <2>9 DEF Respects, Depths, StackInv, LentInv
  <2>11. Fits(Len(stack), f)
    BY <2>2, <2>3, <2>4, <2>8 DEF Fits, Own, Depths, JSKinds, GoKinds
  <2>12. StackInv'
    BY <2>5, <2>6, <2>10, <2>11, StackStep
  <2>13. /\ \A m : Held(m) => Held(m)'
         /\ \A m : Temporary(m) => Temporary(m)'
         /\ Held(n)'
    BY <2>4, <2>5, <2>6, Stays DEF Own
  <2>14. HandleInv'
    <3> SUFFICES ASSUME NEW m \in Natives PROVE HandleOK(m)'
      BY HandleByHandleNext
    <3>1. HandleOK(m)
      BY HandleByHandle
    <3> QED
      BY <2>2, <2>3, <2>8, <2>13, <3>1 DEF HandleOK, Usable
  <2> QED
    BY <2>2, <2>7, <2>12, <2>14 DEF ReentrantCallsAreSafe
<1> QED
  BY <1>2, <1>3

\* A callback returns: its arguments' wrappers die, what it gives up is freed
\* and what it hands over is new.
LEMMA ReturnStep ==
  ASSUME CInv, InCallback,
         NEW give \in SUBSET {n \in Natives : wrapper[n] = "set"},
         NEW new \in SUBSET Fresh, NEW r,
         \/ new = {} /\ r = NoNative
         \/ new = {r},
         nat' = [n \in Natives |-> IF n \in new THEN "live"
                                   ELSE IF n \in give \cap tracked THEN "freed" ELSE nat[n]],
         tracked' = (tracked \ give) \cup new,
         liveValues' = liveValues \ give,
         wrapper' = [n \in Natives |-> IF n \in give \cup Last(stack).args
                                       THEN "nil" ELSE wrapper[n]],
         ReplaceTop(Returning(Last(stack).args, r)),
         UNCHANGED <<abandoned, closed, fault>>
  PROVE  CInv'
<1> USE DEF CInv
<1> DEFINE lent == Last(stack).args
           k == Len(stack) - 1
           f == Returning(lent, r)
<1>1. /\ Innermost = "callback" /\ Innermost # "host" /\ fault = "none"
      /\ Last(stack).kind = "callback"
  BY TopFrame DEF InCallback
<1>2. /\ Len(stack) \in Nat \ {0} /\ stack # <<>> /\ Last(stack) = stack[Len(stack)]
      /\ lent \subseteq Natives
      /\ \A n \in lent : nat[n] = "live" /\ n \notin tracked
  BY <1>1, TopOwner
<1>3. \A i \in 1..k :
        /\ i \in Depths /\ stack[i].kind # "returning"
        /\ stack[i].args \subseteq Natives /\ stack[i].temps \subseteq Natives
        /\ stack[i].args \subseteq Own(stack[i]) /\ stack[i].temps \subseteq Own(stack[i])
        /\ \A n \in stack[i].args : nat[n] = "live" /\ n \notin tracked
        /\ \A n \in stack[i].temps : wrapper[n] = "temp" \/ nat[n] # "live"
        /\ Own(stack[i]) \cap Own(Last(stack)) \subseteq {NoNative}
  BY <1>1, TopOwner
<1>4. Last(stack).temps = {} /\ Last(stack).result = NoNative /\ Len(stack) \in Depths
  BY <1>1, <1>2 DEF StackInv, ShapeInv, Depths, GoKinds
<1>5. \A n \in new : /\ n \in Natives /\ n # NoNative /\ nat[n] # "live"
                     /\ ~Usable(n) /\ n \notin tracked
                     /\ \A i \in Depths : n \notin Own(stack[i])
  BY FreshIsFree
<1>6. r \in Natives \cup {NoNative} /\ (r # NoNative => r \in new) /\ r \notin lent
  BY <1>2, <1>4, <1>5 DEF Own
<1>7. f \in Frames /\ f.kind = "returning" /\ f.args = lent /\ f.temps = {} /\ f.result = r
  <2>1. "returning" \in GoKinds /\ lent \in SUBSET Natives
    BY <1>2 DEF GoKinds
  <2> QED
    BY <1>6, <2>1 DEF Returning, Go, Frames, GoKinds
<1> HIDE DEF f
<1>8. Keeps(k) /\ Len(stack') = Len(stack) /\ stack'[Len(stack)] = f
  BY <1>2, <1>7, ReplaceKeeps DEF f
<1>9. k \in 0..Len(stack) /\ k + 1 = Len(stack)
  BY <1>2
<1> HIDE DEF k, lent
<1>10. /\ nat' \in [Natives -> {"none", "live", "freed"}]
       /\ wrapper' \in [Natives -> {"none", "set", "nil", "temp"}]
       /\ \A n \in new : nat'[n] = "live"
       /\ \A n \in Natives \ new :
            nat'[n] = IF n \in give /\ n \in tracked THEN "freed" ELSE nat[n]
       /\ \A n \in Natives :
            wrapper'[n] = IF n \in give \/ n \in lent THEN "nil" ELSE wrapper[n]
  BY <1>5 DEF CallbackTypeOK, lent
<1>11. CallbackTypeOK'
  BY <1>5, <1>8, <1>10 DEF CallbackTypeOK, Keeps
<1>12. Own(Last(stack)) = lent \cup {NoNative}
  BY <1>4 DEF Own, lent
<1>13. Respects(k)
  <2> SUFFICES ASSUME NEW i \in 1..k
               PROVE  /\ stack[i].kind # "returning"
                      /\ \A n \in stack[i].args : nat'[n] = "live" /\ n \notin tracked'
                      /\ \A n \in stack[i].temps : wrapper'[n] = "temp" \/ nat'[n] # "live"
    BY DEF Respects
  <2>1. ASSUME NEW n \in stack[i].args PROVE nat'[n] = "live" /\ n \notin tracked'
    BY <1>3, <1>5, <1>10, <2>1
  <2>2. ASSUME NEW n \in stack[i].temps PROVE wrapper'[n] = "temp" \/ nat'[n] # "live"
    <3>1. n \in Natives /\ n \notin new /\ n \notin lent
      BY <1>3, <1>5, <1>12, <2>2
    <3> QED
      BY <1>3, <1>10, <2>2, <3>1
  <2> QED
    BY <1>3, <2>1, <2>2
<1>14. Fits(k, f)
  <2>1. \A n \in lent : nat'[n] = "live" /\ n \notin tracked'
                        /\ wrapper'[n] \notin {"set", "temp"}
    <3> SUFFICES ASSUME NEW n \in lent
                 PROVE  nat'[n] = "live" /\ n \notin tracked' /\ wrapper'[n] \notin {"set", "temp"}
      OBVIOUS
    <3>1. n \notin new /\ n \in Natives /\ nat[n] = "live" /\ n \notin tracked
      BY <1>2, <1>5 DEF lent
    <3> QED
      BY <1>10, <3>1
  <2>2. r # NoNative => nat'[r] = "live" /\ wrapper'[r] \notin {"set", "temp"}
    BY <1>5, <1>6, <1>10 DEF Usable
  <2>3. \A i \in 1..k : Own(stack[i]) \cap Own(f) \subseteq {NoNative}
    <3>1. Own(f) = lent \cup {r}
      BY <1>7 DEF Own
    <3> QED
      BY <1>3, <1>5, <1>6, <1>12, <3>1
  <2> QED
    BY <1>6, <1>7, <2>1, <2>2, <2>3 DEF Fits, JSKinds, GoKinds
<1>15. StackInv'
  BY <1>8, <1>9, <1>13, <1>14, StackStep
<1>16. /\ \A n \in Natives : Held(n) => Held(n)'
       /\ \A n \in Natives : Temporary(n) => Temporary(n)'
       /\ \A n \in lent \cup new : Held(n)'
  <2>1. \A n \in Own(f) : Held(n)'
    BY <1>8, <1>9, Stays
  <2>2. Own(f) = lent \cup {r} /\ lent \cup new \subseteq Own(f)
    BY <1>7 DEF Own
  <2>3. \A n \in Natives : Held(n) => Held(n)' \/ n \in lent
    BY <1>2, <1>8, <1>9, <1>12, Stays
  <2>4. \A n \in Natives : Temporary(n) => Temporary(n)'
    BY <1>2, <1>4, <1>8, <1>9, Stays
  <2> QED
    BY <2>1, <2>2, <2>3, <2>4
<1>17. HandleInv'
  <2> SUFFICES ASSUME NEW n \in Natives PROVE HandleOK(n)'
    BY HandleByHandleNext
  <2>1. HandleOK(n)
    BY HandleByHandle
  <2>2. CASE n \in new
    BY <1>5, <1>10, <1>16, <2>2 DEF HandleOK, Usable
  <2>3. CASE n \notin new
    BY <1>2, <1>10, <1>16, <2>1, <2>3 DEF HandleOK, Usable, lent
  <2> QED
    BY <2>2, <2>3
<1> QED
  BY <1>1, <1>11, <1>15, <1>17 DEF ReentrantCallsAreSafe

\* The three ways for a callback to return.
LEMMA ReturnSteps ==
  ASSUME CInv, ReturnNothing \/ ReturnValue \/ ReturnError
  PROVE  CInv'
<1> USE DEF CInv
<1>1. InCallback /\ stack # <<>> /\ Last(stack).args \subseteq Natives
  <2>1. InCallback /\ Innermost # "host"
    BY DEF ReturnNothing, ReturnValue, ReturnError, InCallback
  <2> QED
    BY <2>1, TopOwner
<1>2. CASE ReturnNothing
  <2>1. PICK no \in SUBSET Natives : no = {}
    OBVIOUS
  <2>2. /\ nat' = [n \in Natives |-> IF n \in no THEN "live"
                                     ELSE IF n \in no \cap tracked THEN "freed" ELSE nat[n]]
        /\ tracked' = (tracked \ no) \cup no
        /\ liveValues' = liveValues \ no
    BY <1>2, <2>1 DEF ReturnNothing, CallbackTypeOK
  <2>3. wrapper' = [n \in Natives |-> IF n \in no \cup Last(stack).args
                                      THEN "nil" ELSE wrapper[n]]
    BY <1>2, <2>1 DEF ReturnNothing, Invalidated
  <2>4. /\ no \in SUBSET {n \in Natives : wrapper[n] = "set"} /\ no \in SUBSET Fresh
        /\ ReplaceTop(Returning(Last(stack).args, NoNative))
        /\ UNCHANGED <<abandoned, closed, fault>>
    BY <1>2, <2>1 DEF ReturnNothing
  <2> QED
    BY <1>1, <2>1, <2>2, <2>3, <2>4, ReturnStep
<1>3. CASE ReturnValue /\ closed
  BY <1>1, <1>3, CrashStep DEF ReturnValue, Dangling
<1>4. CASE ReturnValue /\ ~closed
  <2>1. PICK n \in Natives, r \in Fresh :
          /\ wrapper[n] = "set"
          /\ nat' = IF Borrowed(n)
                    THEN [nat EXCEPT ![r] = "live"]
                    ELSE [nat EXCEPT ![r] = "live", ![n] = "freed"]
          /\ tracked' = (tracked \ {n}) \cup {r}
          /\ liveValues' = liveValues \ {n}
          /\ wrapper' = Invalidated([wrapper EXCEPT ![n] = "nil"], Last(stack).args)
          /\ ReplaceTop(Returning(Last(stack).args, r))
          /\ UNCHANGED <<abandoned, closed, fault>>
    BY <1>4 DEF ReturnValue
  <2>2. r \in Natives /\ r # n
    BY <2>1, FreshIsFree DEF Usable
  <2>3. nat' = [m \in Natives |-> IF m \in {r} THEN "live"
                                  ELSE IF m \in {n} \cap tracked THEN "freed" ELSE nat[m]]
    <3>1. CASE n \in tracked
      <4>1. nat' = [nat EXCEPT ![r] = "live", ![n] = "freed"]
        BY <2>1, <3>1 DEF Borrowed
      <4> QED
        BY <2>2, <3>1, <4>1 DEF CallbackTypeOK
    <3>2. CASE n \notin tracked
      <4>1. nat' = [nat EXCEPT ![r] = "live"]
        BY <2>1, <3>2 DEF Borrowed
      <4> QED
        BY <2>2, <3>2, <4>1 DEF CallbackTypeOK
    <3> QED
      BY <3>1, <3>2
  <2>4. wrapper' = [m \in Natives |-> IF m \in {n} \cup Last(stack).args
                                      THEN "nil" ELSE wrapper[m]]
    BY <2>1 DEF Invalidated, CallbackTypeOK
  <2>5. {n} \in SUBSET {m \in Natives : wrapper[m] = "set"} /\ {r} \in SUBSET Fresh
    BY <2>1
  <2> QED
    BY <1>1, <2>1, <2>3, <2>4, <2>5, ReturnStep
<1>5. CASE ReturnError /\ closed
  BY <1>1, <1>5, CrashStep DEF ReturnError, Dangling
<1>6. CASE ReturnError /\ ~closed
  <2>1. PICK r \in Fresh : /\ nat' = [nat EXCEPT ![r] = "live"]
                           /\ tracked' = tracked \cup {r}
                           /\ ReplaceTop(Returning(Last(stack).args, r))
    BY <1>6 DEF ReturnError
  <2>2. /\ wrapper' = Invalidated(wrapper, Last(stack).args)
        /\ UNCHANGED <<liveValues, abandoned, closed, fault>>
    BY <1>6 DEF ReturnError
  <2>3. r \in Natives
    BY FreshIsFree
  <2>4. PICK no \in SUBSET Natives : no = {}
    OBVIOUS
  <2>5. /\ nat' = [n \in Natives |-> IF n \in {r} THEN "live"
                                     ELSE IF n \in no \cap tracked THEN "freed" ELSE nat[n]]
        /\ tracked' = (tracked \ no) \cup {r}
        /\ liveValues' = liveValues \ no
    BY <2>1, <2>2, <2>3, <2>4 DEF CallbackTypeOK
  <2>6. wrapper' = [n \in Natives |-> IF n \in no \cup Last(stack).args
                                      THEN "nil" ELSE wrapper[n]]
    BY <2>2, <2>4 DEF Invalidated
  <2>7. {r} \in SUBSET Fresh /\ no \in SUBSET {n \in Natives : wrapper[n] = "set"}
    BY <2>4
  <2>8. /\ ReplaceTop(Returning(Last(stack).args, r))
        /\ UNCHANGED <<abandoned, closed, fault>>
    BY <2>1, <2>2
  <2> QED
    BY <1>1, <2>5, <2>6, <2>7, <2>8, ReturnStep
<1> QED
  BY <1>2, <1>3, <1>4, <1>5, <1>6

\* C++ frees what was lent and what was handed over, each once.
LEMMA FinishStep ==
  ASSUME CInv, FinishCallback
  PROVE  CInv'
<1> USE DEF CInv
<1> DEFINE lent == Last(stack).args
           r == Last(stack).result
           k == Len(stack) - 1
<1>1. Innermost = "returning" /\ Innermost # "host" /\ fault = "none" /\ stack' = Front(stack)
  BY DEF FinishCallback
<1>2. /\ Len(stack) \in Nat \ {0} /\ stack # <<>> /\ Last(stack) = stack[Len(stack)]
      /\ Last(stack).kind = "returning"
      /\ lent \subseteq Natives /\ r \in Natives \cup {NoNative} /\ r \notin lent
      /\ \A n \in lent : nat[n] = "live" /\ n \notin tracked
  BY <1>1, TopOwner
<1>3. \A i \in 1..k :
        /\ i \in Depths /\ stack[i].kind # "returning"
        /\ stack[i].args \subseteq Natives /\ stack[i].temps \subseteq Natives
        /\ stack[i].args \subseteq Own(stack[i]) /\ stack[i].temps \subseteq Own(stack[i])
        /\ \A n \in stack[i].args : nat[n] = "live" /\ n \notin tracked
        /\ \A n \in stack[i].temps : wrapper[n] = "temp" \/ nat[n] # "live"
        /\ Own(stack[i]) \cap Own(Last(stack)) \subseteq {NoNative}
  BY <1>1, TopOwner
<1>4. Len(stack) \in Depths /\ Last(stack).temps = {}
  BY <1>2 DEF StackInv, ShapeInv, Depths, GoKinds
<1>5. /\ \A n \in lent : ~Usable(n)
      /\ r # NoNative => nat[r] = "live" /\ ~Usable(r)
  BY <1>2, <1>4 DEF StackInv, ReturnInv
<1>6. Own(Last(stack)) = lent \cup {r}
  BY <1>4 DEF Own
<1>7. /\ fault' = "none"
      /\ nat' = [n \in Natives |-> IF n \in lent \cup {r} THEN "freed" ELSE nat[n]]
      /\ tracked' = tracked \ {r}
      /\ UNCHANGED <<wrapper, liveValues, abandoned, closed>>
  BY <1>2, <1>5 DEF FinishCallback
<1>8. Keeps(k) /\ Len(stack') = k
  BY <1>1, <1>2, PopKeeps
<1>9. k \in 0..Len(stack) /\ k + 1 = Len(stack) /\ k # k + 1
  BY <1>2
<1> HIDE DEF k, lent, r
<1>10. \A n \in Natives : nat'[n] = IF n \in lent \/ n = r THEN "freed" ELSE nat[n]
  BY <1>7
<1>11. CallbackTypeOK'
  BY <1>7, <1>8 DEF CallbackTypeOK, Keeps
<1>12. Respects(k)
  <2> SUFFICES ASSUME NEW i \in 1..k
               PROVE  /\ stack[i].kind # "returning"
                      /\ \A n \in stack[i].args : nat'[n] = "live" /\ n \notin tracked'
                      /\ \A n \in stack[i].temps : wrapper'[n] = "temp" \/ nat'[n] # "live"
    BY DEF Respects
  <2>1. ASSUME NEW n \in stack[i].args PROVE nat'[n] = "live" /\ n \notin tracked'
    <3>1. n \in Natives /\ n \notin lent /\ n # r
      BY <1>3, <1>6, <2>1
    <3> QED
      BY <1>3, <1>7, <1>10, <2>1, <3>1
  <2>2. ASSUME NEW n \in stack[i].temps PROVE wrapper'[n] = "temp" \/ nat'[n] # "live"
    BY <1>3, <1>7, <1>10, <2>2
  <2> QED
    BY <1>3, <2>1, <2>2
<1>13. StackInv'
  BY <1>8, <1>9, <1>12, StackStep
<1>14. /\ \A n \in Natives : Held(n) => Held(n)' \/ n \in lent \/ n = r
       /\ \A n \in Natives : Temporary(n) => Temporary(n)'
  BY <1>2, <1>4, <1>6, <1>8, <1>9, Stays
<1>15. HandleInv'
  <2> SUFFICES ASSUME NEW n \in Natives PROVE HandleOK(n)'
    BY HandleByHandleNext
  <2>1. HandleOK(n)
    BY HandleByHandle
  <2>2. CASE n = r
    BY <1>5, <1>7, <1>10, <2>1, <2>2 DEF HandleOK, Usable
  <2>3. CASE n \in lent /\ n # r
    <3>1. n \notin tracked /\ ~Usable(n)
      BY <1>2, <1>5, <2>3 DEF lent
    <3> QED
      BY <1>7, <1>10, <2>1, <2>3, <3>1 DEF HandleOK, Usable
  <2>4. CASE n \notin lent /\ n # r
    BY <1>7, <1>10, <1>14, <2>1, <2>4 DEF HandleOK, Usable
  <2> QED
    BY <2>2, <2>3, <2>4
<1> QED
  BY <1>7, <1>11, <1>13, <1>15 DEF ReentrantCallsAreSafe

\* The JavaScript of the innermost frame is done, or CallMethod has its method:
\* the frames below keep what is theirs, whatever happens to the temporaries.
LEMMA ScriptTop ==
  ASSUME CInv, InScript
  PROVE  /\ Innermost # "host" /\ fault = "none"
         /\ Len(stack) \in Nat \ {0} /\ stack # <<>> /\ Last(stack) = stack[Len(stack)]
         /\ Last(stack).temps \subseteq Natives
         /\ Own(Last(stack)) = Last(stack).temps \cup {NoNative}
         /\ \A n \in Last(stack).temps : wrapper[n] = "temp" \/ nat[n] # "live"
<1>1. Innermost # "host" /\ fault = "none" /\ Innermost \in JSKinds
  BY DEF InScript, JSKinds
<1>2. /\ Len(stack) \in Nat \ {0} /\ stack # <<>> /\ Last(stack) = stack[Len(stack)]
      /\ Last(stack).kind \in JSKinds /\ Last(stack).temps \subseteq Natives
      /\ \A n \in Last(stack).temps : wrapper[n] = "temp" \/ nat[n] # "live"
  BY <1>1, TopOwner
<1>3. Last(stack).args = {} /\ Last(stack).result = NoNative
  BY <1>2 DEF CInv, StackInv, ShapeInv, Depths
<1> QED
  BY <1>1, <1>2, <1>3 DEF Own

\* CallMethod has its method.
LEMMA LookupStep ==
  ASSUME CInv, LookupReturns
  PROVE  CInv'
<1> USE DEF CInv
<1> DEFINE temps == Last(stack).temps
           k == Len(stack) - 1
<1>1. InScript
  BY DEF LookupReturns
<1>2. /\ Innermost # "host" /\ fault = "none"
      /\ Len(stack) \in Nat \ {0} /\ stack # <<>> /\ Last(stack) = stack[Len(stack)]
      /\ temps \subseteq Natives /\ Own(Last(stack)) = temps \cup {NoNative}
      /\ \A n \in temps : wrapper[n] = "temp" \/ nat[n] # "live"
  BY <1>1, ScriptTop
<1>3. CASE Dangling
  BY <1>2, <1>3, CrashStep DEF LookupReturns
<1>4. CASE ~Dangling
  <2>1. PICK m \in Fresh :
          /\ nat' = [nat EXCEPT ![m] = "live"]
          /\ tracked' = tracked \cup {m}
          /\ wrapper' = [wrapper EXCEPT ![m] = "none"]
          /\ abandoned' = abandoned \cup {m}
          /\ ReplaceTop(JS("call", {m}, temps))
    BY <1>4 DEF LookupReturns
  <2>2. UNCHANGED <<liveValues, closed, fault>>
    BY <1>4 DEF LookupReturns
  <2>3. /\ m \in Natives /\ m # NoNative /\ m \notin tracked
        /\ \A i \in Depths : m \notin Own(stack[i])
    BY FreshIsFree
  <2> DEFINE f == JS("call", {m}, temps)
  <2>4. f \in Frames /\ f.kind = "call" /\ f.args = {} /\ f.temps = temps /\ f.result = NoNative
    <3>1. "call" \in JSKinds /\ {m} \in SUBSET Natives /\ temps \in SUBSET Natives
      BY <1>2, <2>3 DEF JSKinds
    <3> QED
      BY <3>1 DEF JS, Frames
  <2> HIDE DEF f
  <2>5. Keeps(k) /\ Len(stack') = Len(stack) /\ stack'[Len(stack)] = f
    BY <1>2, <2>1, <2>4, ReplaceKeeps DEF f
  <2>6. \A i \in 1..k :
          /\ i \in Depths /\ stack[i].kind # "returning"
          /\ stack[i].args \subseteq Natives /\ stack[i].temps \subseteq Natives
          /\ stack[i].args \subseteq Own(stack[i]) /\ stack[i].temps \subseteq Own(stack[i])
          /\ \A n \in stack[i].args : nat[n] = "live" /\ n \notin tracked
          /\ \A n \in stack[i].temps : wrapper[n] = "temp" \/ nat[n] # "live"
          /\ Own(stack[i]) \cap Own(Last(stack)) \subseteq {NoNative}
    BY <1>2, TopOwner
  <2>7. k \in 0..Len(stack) /\ k + 1 = Len(stack) /\ m \notin temps
    BY <1>2, <2>3 DEF Depths
  <2> HIDE DEF k, temps
  <2>8. CallbackTypeOK'
    BY <2>1, <2>2, <2>3, <2>5 DEF CallbackTypeOK, Keeps
  <2>9. /\ nat'[m] = "live" /\ wrapper'[m] = "none"
        /\ \A n \in Natives \ {m} : nat'[n] = nat[n] /\ wrapper'[n] = wrapper[n]
    BY <2>1, <2>3 DEF CallbackTypeOK
  <2>10. Respects(k)
    BY <2>1, <2>3, <2>6, <2>9 DEF Respects
  <2>11. Fits(k, f)
    <3>1. Own(f) = Own(Last(stack))
      BY <1>2, <2>4 DEF Own, temps
    <3>2. \A n \in temps : wrapper'[n] = "temp" \/ nat'[n] # "live"
      BY <1>2, <2>7, <2>9 DEF temps
    <3> QED
      BY <2>4, <2>6, <3>1, <3>2 DEF Fits, JSKinds, GoKinds
  <2>12. StackInv'
    BY <2>5, <2>7, <2>10, <2>11, StackStep
  <2>13. /\ \A n : Held(n) => Held(n)'
         /\ \A n : Temporary(n) => Temporary(n)'
    <3>1. Own(f) = Own(Last(stack)) /\ f.temps = Last(stack).temps
      BY <1>2, <2>4 DEF Own, temps
    <3> QED
      BY <1>2, <2>5, <2>7, <3>1, Stays
  <2>14. HandleInv'
    <3> SUFFICES ASSUME NEW n \in Natives PROVE HandleOK(n)'
      BY HandleByHandleNext
    <3>1. HandleOK(n)
      BY HandleByHandle
    <3> QED
      BY <2>1, <2>2, <2>9, <2>13, <3>1 DEF HandleOK, Usable
  <2> QED
    BY <1>2, <2>2, <2>8, <2>12, <2>14 DEF ReentrantCallsAreSafe
<1> QED
  BY <1>3, <1>4

\* The call is over: its temporaries go, and its result is a new handle.
LEMMA UnwindStep ==
  ASSUME CInv, InScript, NEW new \in SUBSET Fresh, Unwind(new),
         UNCHANGED <<abandoned, closed, fault>>
  PROVE  CInv'
<1> USE DEF CInv
<1> DEFINE temps == Last(stack).temps
           done == {n \in temps : wrapper[n] = "temp"}
           k == Len(stack) - 1
<1>1. /\ Innermost # "host" /\ fault = "none"
      /\ Len(stack) \in Nat \ {0} /\ stack # <<>> /\ Last(stack) = stack[Len(stack)]
      /\ temps \subseteq Natives /\ Own(Last(stack)) = temps \cup {NoNative}
      /\ \A n \in temps : wrapper[n] = "temp" \/ nat[n] # "live"
  BY ScriptTop
<1>2. /\ nat' = [n \in Natives |-> IF n \in new THEN "live"
                                   ELSE IF n \in done THEN "freed" ELSE nat[n]]
      /\ tracked' = (tracked \ done) \cup new
      /\ liveValues' = (liveValues \ done) \cup new
      /\ wrapper' = [n \in Natives |-> IF n \in new THEN "set"
                                       ELSE IF n \in done THEN "nil" ELSE wrapper[n]]
      /\ stack' = Front(stack)
  BY DEF Unwind
<1>3. \A n \in new : /\ n \in Natives /\ n # NoNative /\ nat[n] # "live"
                     /\ ~Usable(n) /\ n \notin tracked
                     /\ \A i \in Depths : n \notin Own(stack[i])
  BY FreshIsFree
<1>4. Keeps(k) /\ Len(stack') = k
  BY <1>1, <1>2, PopKeeps
<1>5. \A i \in 1..k :
        /\ i \in Depths /\ stack[i].kind # "returning"
        /\ stack[i].args \subseteq Natives /\ stack[i].temps \subseteq Natives
        /\ stack[i].args \subseteq Own(stack[i]) /\ stack[i].temps \subseteq Own(stack[i])
        /\ \A n \in stack[i].args : nat[n] = "live" /\ n \notin tracked
        /\ \A n \in stack[i].temps : wrapper[n] = "temp" \/ nat[n] # "live"
        /\ Own(stack[i]) \cap Own(Last(stack)) \subseteq {NoNative}
  BY <1>1, TopOwner
<1>6. k \in 0..Len(stack) /\ k + 1 = Len(stack) /\ k # k + 1
  BY <1>1
<1>7. \A n \in done : n \in temps /\ n \in Natives /\ wrapper[n] = "temp"
  BY <1>1
<1>8. \A n \in temps : n \in done \/ (wrapper[n] # "temp" /\ nat[n] # "live")
  BY <1>1
<1> HIDE DEF k, done, temps
<1>9. \A n \in Natives :
        /\ nat'[n] = IF n \in new THEN "live" ELSE IF n \in done THEN "freed" ELSE nat[n]
        /\ wrapper'[n] = IF n \in new THEN "set" ELSE IF n \in done THEN "nil" ELSE wrapper[n]
  BY <1>2
<1>10. CallbackTypeOK'
  <2>1. /\ nat' \in [Natives -> {"none", "live", "freed"}]
        /\ wrapper' \in [Natives -> {"none", "set", "nil", "temp"}]
    BY <1>2 DEF CallbackTypeOK
  <2>2. tracked' \subseteq Natives /\ liveValues' \subseteq Natives
    BY <1>2, <1>3 DEF CallbackTypeOK
  <2> QED
    BY <1>4, <2>1, <2>2 DEF CallbackTypeOK, Keeps
<1>11. Respects(k)
  <2> SUFFICES ASSUME NEW i \in 1..k
               PROVE  /\ stack[i].kind # "returning"
                      /\ \A n \in stack[i].args : nat'[n] = "live" /\ n \notin tracked'
                      /\ \A n \in stack[i].temps : wrapper'[n] = "temp" \/ nat'[n] # "live"
    BY DEF Respects
  <2>1. \A n \in stack[i].args \cup stack[i].temps :
          n \in Natives /\ n \notin new /\ n \notin done
    BY <1>1, <1>3, <1>5, <1>7 DEF temps
  <2> QED
    BY <1>2, <1>5, <1>9, <2>1
<1>12. StackInv'
  BY <1>4, <1>6, <1>11, StackStep
<1>13. /\ \A n \in Natives : Held(n) => Held(n)' \/ n \in temps
       /\ \A n \in Natives : Temporary(n) => Temporary(n)' \/ n \in temps
  BY <1>1, <1>4, <1>6, Stays DEF temps
<1>14. HandleInv'
  <2> SUFFICES ASSUME NEW n \in Natives PROVE HandleOK(n)'
    BY HandleByHandleNext
  <2>1. HandleOK(n)
    BY HandleByHandle
  <2>2. CASE n \in new
    BY <1>2, <1>9, <2>2 DEF HandleOK, Usable
  <2>3. CASE n \in done /\ n \notin new
    BY <1>2, <1>9, <2>3 DEF HandleOK, Usable
  <2>4. CASE n \notin done /\ n \notin new
    BY <1>2, <1>8, <1>9, <1>13, <2>1, <2>4 DEF HandleOK, Usable
  <2> QED
    BY <2>2, <2>3, <2>4
<1> QED
  BY <1>1, <1>10, <1>12, <1>14 DEF ReentrantCallsAreSafe

\* The two ways for JavaScript to end.
LEMMA EndSteps ==
  ASSUME CInv, ScriptReturns \/ EndsWithoutValue
  PROVE  CInv'
<1>1. CASE ScriptReturns /\ Dangling
  <2>1. stack # <<>>
    BY <1>1, ScriptTop DEF ScriptReturns
  <2> QED
    BY <1>1, <2>1, CrashStep DEF ScriptReturns
<1>2. CASE ScriptReturns /\ ~Dangling
  <2>1. PICK n \in Fresh : Unwind({n})
    BY <1>2 DEF ScriptReturns
  <2>2. {n} \in SUBSET Fresh
    OBVIOUS
  <2> QED
    BY <1>2, <2>1, <2>2, UnwindStep DEF ScriptReturns
<1>3. CASE EndsWithoutValue
  BY <1>3, UnwindStep DEF EndsWithoutValue
<1> QED
  BY <1>1, <1>2, <1>3

\* Every step keeps the invariant.
LEMMA NextCInv == CInv /\ [CallbackNext]_cbvars => CInv'
<1> SUFFICES ASSUME CInv, [CallbackNext]_cbvars PROVE CInv'
  OBVIOUS
<1>1. CASE UNCHANGED cbvars
  <2>1. ReentrantCallsAreSafe'
    BY <1>1 DEF cbvars, CInv, ReentrantCallsAreSafe, Dangling
  <2>2. fault' \in {"none", "nilDeref", "nilArg", "useAfterFree", "doubleFree"}
    BY <1>1 DEF cbvars, CInv, CallbackTypeOK
  <2> QED
    BY <1>1, <2>1, <2>2, FrozenStep DEF cbvars
<1>2. CASE CallWithStaleArg
  <2>1. fault' = "nilArg" /\ ReentrantCallsAreSafe'
    BY <1>2 DEF CallWithStaleArg, Crash, ReentrantCallsAreSafe
  <2> QED
    BY <1>2, <2>1, FrozenStep DEF CallWithStaleArg, Crash
<1> QED
  BY <1>1, <1>2, CallSteps, HandleSteps, CallHostFunctionStep, ReturnSteps, FinishStep,
     LookupStep, EndSteps DEF CallbackNext

----------------------------------------------------------------------------
(* Theorems.                                                               *)

\* The invariant holds throughout.
THEOREM CallbackInvariant == CallbackSpec => []CInv
  BY InitCInv, NextCInv, PTL DEF CallbackSpec

\* The variables keep their types, whatever the depth of scripts and callbacks.
THEOREM CallbackTypes == CallbackSpec => []CallbackTypeOK
<1>1. CInv => CallbackTypeOK
  BY DEF CInv
<1> QED
  BY <1>1, CallbackInvariant, PTL

\* Scripts that call host functions that run scripts never touch freed memory
\* and free nothing twice, but for a closed context, a handle released below the
\* call that reads it, and an argument released before the call.
THEOREM ReentrantSafety == CallbackSpec => []ReentrantCallsAreSafe
<1>1. CInv => ReentrantCallsAreSafe
  BY DEF CInv
<1> QED
  BY <1>1, CallbackInvariant, PTL

\* No usable Go wrapper points to a freed handle: wrapBorrowedValue's are dead
\* when C++ frees the arguments, and handoffHostValue's when it frees the result.
THEOREM WrapperLiveness == CallbackSpec => []WrappersAreLive
<1>1. CInv => WrappersAreLive
  BY DEF CInv, HandleInv
<1> QED
  BY <1>1, CallbackInvariant, PTL

\* Every live native handle is in use by a frame, or Close can reach it.
THEOREM NoOrphanHandles == CallbackSpec => []NoOrphans
<1>1. CInv => NoOrphans
  <2>1. \A n : Held(n) => InUse(n)
    BY DEF Held, InUse, Own, Depths
  <2> QED
    BY <2>1 DEF CInv, HandleInv, HeldInv, NoOrphans
<1> QED
  BY <1>1, CallbackInvariant, PTL

\* The temporaries of materializeArgs do not outlive the call they were made for.
THEOREM TemporariesReclaimed == CallbackSpec => []TemporariesAreReclaimed
<1>1. CInv => TemporariesAreReclaimed
  BY DEF CInv, HandleInv
<1> QED
  BY <1>1, CallbackInvariant, PTL
=============================================================================
