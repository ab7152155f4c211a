---------------------------- MODULE ErrorsProofs ----------------------------
(***************************************************************************)
(* For every number of promises and every bound on calls and nesting: the  *)
(* exception counter is exact, every counted exception stems from a failed *)
(* call of its own, and no hook runs while i.obMu is locked.               *)
(***************************************************************************)
EXTENDS Errors, SequenceTheorems, FiniteSetTheorems, TLAPS

USE ErrorConstants

\* The positions of a sequence that hold one of these values.
Positions(s, kinds) == {i \in 1..Len(s) : s[i] \in kinds}

----------------------------------------------------------------------------
(* Stacks and counting.                                                    *)

\* The positions of a sequence are finitely many.
LEMMA PositionsFinite ==
  ASSUME NEW s \in Seq(Frames), NEW kinds
  PROVE  /\ IsFiniteSet(Positions(s, kinds))
         /\ Cardinality(Positions(s, kinds)) \in Nat
<1>1. IsFiniteSet(1..Len(s))
  BY LenProperties, FS_Interval
<1>2. Positions(s, kinds) \in SUBSET (1..Len(s))
  BY DEF Positions
<1>3. IsFiniteSet(Positions(s, kinds))
  BY <1>1, <1>2, FS_Subset
<1> QED
  BY <1>3, FS_CardinalityType

\* A pushed frame counts for the kinds it is of.
LEMMA CountPush ==
  ASSUME NEW s \in Seq(Frames), NEW f \in Frames, NEW kinds
  PROVE  /\ Append(s, f) \in Seq(Frames)
         /\ Len(Append(s, f)) = Len(s) + 1
         /\ Cardinality(Positions(Append(s, f), kinds))
              = Cardinality(Positions(s, kinds)) + (IF f \in kinds THEN 1 ELSE 0)
<1>1. /\ Append(s, f) \in Seq(Frames)
      /\ Len(Append(s, f)) = Len(s) + 1
      /\ \A i \in 1..Len(s) : Append(s, f)[i] = s[i]
      /\ Append(s, f)[Len(s) + 1] = f
  BY AppendProperties
<1>2. Len(s) \in Nat
  BY LenProperties
<1>3. Positions(Append(s, f), kinds)
        = IF f \in kinds THEN Positions(s, kinds) \cup {Len(s) + 1} ELSE Positions(s, kinds)
  BY <1>1, <1>2 DEF Positions
<1>4. Len(s) + 1 \notin Positions(s, kinds)
  BY <1>2 DEF Positions
<1>5. IsFiniteSet(Positions(s, kinds)) /\ Cardinality(Positions(s, kinds)) \in Nat
  BY PositionsFinite
<1>6. Cardinality(Positions(s, kinds) \cup {Len(s) + 1}) = Cardinality(Positions(s, kinds)) + 1
  BY <1>4, <1>5, FS_AddElement
<1> QED
  BY <1>1, <1>3, <1>5, <1>6

\* What is left of a stack when its innermost frame is popped.
LEMMA StackPop ==
  ASSUME NEW S, NEW s \in Seq(S), s # <<>>
  PROVE  /\ Front(s) \in Seq(S)
         /\ Last(s) \in S
         /\ Len(s) \in Nat \ {0}
         /\ Len(Front(s)) = Len(s) - 1
         /\ Last(s) = s[Len(s)]
         /\ \A i \in 1..Len(s)-1 : Front(s)[i] = s[i]
<1>1. Len(s) \in Nat \ {0} /\ \A i \in 1..Len(s) : s[i] \in S
  BY EmptySeq
<1>2. PICK n \in Nat : n = Len(s) - 1
  BY <1>1
<1>3. SubSeq(s, 1, n) \in Seq(S)
  BY <1>1, <1>2, SubSeqProperties
<1>4. Len(SubSeq(s, 1, n)) = n /\ \A i \in 1..n : SubSeq(s, 1, n)[i] = s[i]
  BY <1>1, <1>2
<1> QED
  BY <1>1, <1>2, <1>3, <1>4 DEF Front, Last

\* A popped frame no longer counts.
LEMMA CountPop ==
  ASSUME NEW s \in Seq(Frames), s # <<>>, NEW kinds
  PROVE  /\ Front(s) \in Seq(Frames)
         /\ Len(Front(s)) = Len(s) - 1
         /\ Cardinality(Positions(Front(s), kinds))
              = Cardinality(Positions(s, kinds)) - (IF Last(s) \in kinds THEN 1 ELSE 0)
<1>1. /\ Front(s) \in Seq(Frames) /\ Last(s) \in Frames
      /\ Len(s) \in Nat /\ Len(Front(s)) = Len(s) - 1
  BY StackPop
<1>2. Append(Front(s), Last(s)) = s
  BY <1>1, StackPop, SeqEqual
<1>3. Cardinality(Positions(Append(Front(s), Last(s)), kinds))
        = Cardinality(Positions(Front(s), kinds)) + (IF Last(s) \in kinds THEN 1 ELSE 0)
  BY <1>1, CountPush
<1>4. Cardinality(Positions(Front(s), kinds)) \in Nat
  BY <1>1, PositionsFinite
<1> QED
  BY <1>1, <1>2, <1>3, <1>4

----------------------------------------------------------------------------
(* What the steps do to the stack and to the counts.                       *)

\* The frames whose JSError is counted and not yet returned.
Noting == {"noteException", "readException", "exceptionHook"}

\* A step of the stack: nothing, or a frame is pushed, popped or replaced.
Pushes(f) == frames' = Append(frames, f) /\ Len(frames) < MaxDepth
Pops(g) == frames # <<>> /\ Last(frames) = g /\ frames' = Front(frames)
Replaces(g, f) == frames # <<>> /\ Last(frames) = g /\ frames' = Append(Front(frames), f)

\* One, if f is of these kinds.
One(f, kinds) == IF f \in kinds THEN 1 ELSE 0

\* Counts are natural numbers.
LEMMA CountNat ==
  ASSUME ErrorsTypeOK, NEW kinds
  PROVE  Count(kinds) \in Nat
  BY PositionsFinite DEF Count, Positions, ErrorsTypeOK

\* The count after a push.
LEMMA CountPushes ==
  ASSUME ErrorsTypeOK, NEW f \in Frames, Pushes(f), NEW kinds
  PROVE  /\ frames' \in Seq(Frames) /\ Len(frames') <= MaxDepth
         /\ Count(kinds)' = Count(kinds) + One(f, kinds)
<1>1. /\ frames' \in Seq(Frames)
      /\ Len(frames') = Len(frames) + 1
      /\ Cardinality(Positions(frames', kinds))
           = Cardinality(Positions(frames, kinds)) + One(f, kinds)
  BY CountPush DEF ErrorsTypeOK, Pushes, One
<1>2. Len(frames') <= MaxDepth
  BY <1>1, LenProperties DEF ErrorsTypeOK, Pushes
<1> QED
  BY <1>1, <1>2 DEF Count, Positions

\* The count after a pop.
LEMMA CountPops ==
  ASSUME ErrorsTypeOK, NEW g, Pops(g), NEW kinds
  PROVE  /\ frames' \in Seq(Frames) /\ Len(frames') <= MaxDepth
         /\ Count(kinds)' = Count(kinds) - One(g, kinds)
<1>1. /\ frames' \in Seq(Frames)
      /\ Len(frames') = Len(frames) - 1
      /\ Cardinality(Positions(frames', kinds))
           = Cardinality(Positions(frames, kinds)) - One(g, kinds)
  BY CountPop DEF ErrorsTypeOK, Pops, One
<1>2. Len(frames') <= MaxDepth
  BY <1>1, LenProperties DEF ErrorsTypeOK
<1> QED
  BY <1>1, <1>2 DEF Count, Positions

\* The count after the innermost frame has become another.
LEMMA CountReplaces ==
  ASSUME ErrorsTypeOK, NEW g, NEW f \in Frames, Replaces(g, f), NEW kinds
  PROVE  /\ frames' \in Seq(Frames) /\ Len(frames') <= MaxDepth
         /\ Count(kinds)' = Count(kinds) - One(g, kinds) + One(f, kinds)
<1>1. /\ Front(frames) \in Seq(Frames)
      /\ Len(Front(frames)) = Len(frames) - 1
      /\ Cardinality(Positions(Front(frames), kinds))
           = Cardinality(Positions(frames, kinds)) - One(g, kinds)
  BY CountPop DEF ErrorsTypeOK, Replaces, One
<1>2. /\ frames' \in Seq(Frames)
      /\ Len(frames') = Len(Front(frames)) + 1
      /\ Cardinality(Positions(frames', kinds))
           = Cardinality(Positions(Front(frames), kinds)) + One(f, kinds)
  BY <1>1, CountPush DEF Replaces, One
<1>3. Len(frames') <= MaxDepth
  BY <1>1, <1>2, LenProperties DEF ErrorsTypeOK
<1> QED
  BY <1>1, <1>2, <1>3 DEF Count, Positions

\* The innermost frame, when it is not host code at the top level.
LEMMA TopIsLast ==
  ASSUME ErrorsTypeOK, Top # "host"
  PROVE  frames # <<>> /\ Last(frames) = Top
  BY DEF Top

----------------------------------------------------------------------------
(* The counters.                                                           *)

\* What is counted is nested: every counted exception is a JSError, every JSError
\* a failed call, and every failed call has left the stack.
CountersNest ==
  /\ exceptions <= jsErrors
  /\ jsErrors <= failures
  /\ failures + Count(Scripts) <= calls

EInv == ErrorsTypeOK /\ ExceptionCountIsExact /\ CountersNest

\* Before the first call.
LEMMA InitEInv == ErrorsInit => EInv
<1> SUFFICES ASSUME ErrorsInit PROVE EInv
  OBVIOUS
<1>1. ErrorsTypeOK
  <2>1. frames \in Seq(Frames) /\ Len(frames) <= MaxDepth
    BY DEF ErrorsInit
  <2>2. exceptionHook \in BOOLEAN /\ rejectionHook \in BOOLEAN
    BY DEF ErrorsInit
  <2>3. {calls, failures, jsErrors, reported, exceptions, rejections} \subseteq Nat
    BY DEF ErrorsInit
  <2>4. promises \in [Promises -> {"new", "rejected", "handled", "resolved"}]
    BY DEF ErrorsInit
  <2> QED
    BY <2>1, <2>2, <2>3, <2>4 DEF ErrorsTypeOK
<1>2. \A kinds : Count(kinds) = 0
  <2> TAKE kinds
  <2>1. {i \in 1..Len(frames) : frames[i] \in kinds} = {}
    BY DEF ErrorsInit
  <2> QED
    BY <2>1, FS_EmptySet DEF Count
<1>3. ExceptionCountIsExact
  BY <1>2 DEF ErrorsInit, ExceptionCountIsExact
<1>4. CountersNest
  BY <1>2 DEF ErrorsInit, CountersNest
<1> QED
  BY <1>1, <1>3, <1>4 DEF EInv

\* A step that leaves the counts of calls and exceptions alone.
LEMMA QuietStep ==
  ASSUME EInv,
         UNCHANGED <<calls, failures, jsErrors, reported, exceptions>>,
         rejections' \in Nat,
         exceptionHook' \in BOOLEAN, rejectionHook' \in BOOLEAN,
         promises' \in [Promises -> {"new", "rejected", "handled", "resolved"}],
         frames' \in Seq(Frames), Len(frames') <= MaxDepth,
         Count(Noting)' = Count(Noting),
         Count(Scripts)' <= Count(Scripts), Count(Scripts)' \in Nat
  PROVE  EInv'
<1>1. Count(Scripts) \in Nat
  BY CountNat DEF EInv
<1>2. ErrorsTypeOK'
  BY DEF EInv, ErrorsTypeOK
<1>3. ExceptionCountIsExact'
  BY DEF EInv, ExceptionCountIsExact, Noting
<1>4. CountersNest'
  BY <1>1 DEF EInv, CountersNest, ErrorsTypeOK
<1> QED
  BY <1>2, <1>3, <1>4 DEF EInv

\* A call fails: one failure more, one script less on the stack.
LEMMA FailedCall ==
  ASSUME ErrorsTypeOK, CountersNest, Count(Scripts) \in Nat,
         Count(Scripts)' = Count(Scripts) - 1, failures' = failures + 1, calls' = calls,
         \/ exceptions' = exceptions /\ jsErrors' \in {jsErrors, jsErrors + 1}
         \/ exceptions' = exceptions + 1 /\ jsErrors' = jsErrors + 1
  PROVE  CountersNest'
<1>1. exceptions \in Nat /\ jsErrors \in Nat /\ failures \in Nat /\ calls \in Nat
  BY DEF ErrorsTypeOK
<1>2. exceptions <= jsErrors /\ jsErrors <= failures /\ failures + Count(Scripts) <= calls
  BY DEF CountersNest
<1>3. exceptions' <= jsErrors' /\ jsErrors' <= failures'
  BY <1>1, <1>2
<1>4. failures' + Count(Scripts)' <= calls'
  <2>1. (failures + 1) + (Count(Scripts) - 1) = failures + Count(Scripts)
    BY <1>1
  <2> QED
    BY <1>2, <2>1
<1> QED
  BY <1>3, <1>4 DEF CountersNest

\* Calls and their results.
LEMMA CallSteps ==
  ASSUME EInv,
         \/ CallJavaScript \/ CallHostFunction \/ HostFunctionReturns
         \/ ScriptReturns \/ ScriptThrows
         \/ NoteException \/ ReadExceptionHook \/ ExceptionHookReturns
  PROVE  EInv'
<1> USE DEF EInv, ended, hooks
<1>1. Count(Scripts) \in Nat /\ Count(Noting) \in Nat
  BY CountNat
<1>2. CASE CallJavaScript
  <2>1. PICK k \in Scripts : Pushes(k)
    BY <1>2 DEF CallJavaScript, Push, Pushes
  <2>2. k \in Frames /\ One(k, Noting) = 0 /\ One(k, Scripts) = 1
    BY DEF Frames, Scripts, Noting, One
  <2>3. /\ frames' \in Seq(Frames) /\ Len(frames') <= MaxDepth
        /\ Count(Noting)' = Count(Noting) /\ Count(Scripts)' = Count(Scripts) + 1
    BY <1>1, <2>1, <2>2, CountPushes
  <2>4. ErrorsTypeOK'
    BY <1>2, <2>3 DEF CallJavaScript, ErrorsTypeOK
  <2>5. ExceptionCountIsExact'
    BY <1>2, <2>3 DEF CallJavaScript, ExceptionCountIsExact, Noting
  <2>6. CountersNest'
    BY <1>1, <1>2, <2>3 DEF CallJavaScript, CountersNest, ErrorsTypeOK
  <2> QED
    BY <2>4, <2>5, <2>6
<1>3. CASE CallHostFunction
  <2>1. Pushes("callback") /\ "callback" \in Frames
    BY <1>3 DEF CallHostFunction, Push, Pushes, Frames, HostCode
  <2>2. /\ frames' \in Seq(Frames) /\ Len(frames') <= MaxDepth
        /\ Count(Noting)' = Count(Noting) /\ Count(Scripts)' = Count(Scripts)
    BY <1>1, <2>1, CountPushes DEF One, Noting, Scripts
  <2> QED
    BY <1>1, <1>3, <2>2, QuietStep DEF CallHostFunction, ErrorsTypeOK
<1>4. CASE HostFunctionReturns
  <2>1. Pops("callback")
    BY <1>4, TopIsLast DEF HostFunctionReturns, Pop, Pops
  <2>2. /\ frames' \in Seq(Frames) /\ Len(frames') <= MaxDepth
        /\ Count(Noting)' = Count(Noting) /\ Count(Scripts)' = Count(Scripts)
    BY <1>1, <2>1, CountPops DEF One, Noting, Scripts
  <2> QED
    BY <1>1, <1>4, <2>2, QuietStep DEF HostFunctionReturns, ErrorsTypeOK
<1>5. ASSUME Top \in Scripts, Pop
      PROVE  /\ frames' \in Seq(Frames) /\ Len(frames') <= MaxDepth
             /\ Count(Noting)' = Count(Noting) /\ Count(Scripts)' = Count(Scripts) - 1
             /\ Count(Scripts)' \in Nat
  <2>1. Pops(Top) /\ One(Top, Noting) = 0 /\ One(Top, Scripts) = 1
    BY <1>5, TopIsLast DEF Pop, Pops, Scripts, Noting, One
  <2>2. /\ frames' \in Seq(Frames) /\ Len(frames') <= MaxDepth
        /\ Count(Noting)' = Count(Noting) /\ Count(Scripts)' = Count(Scripts) - 1
    BY <1>1, <2>1, CountPops
  <2>3. Count(Scripts)' \in Nat
    BY <2>2, PositionsFinite DEF Count, Positions
  <2> QED
    BY <2>2, <2>3
<1>6. CASE ScriptReturns
  BY <1>1, <1>5, <1>6, QuietStep DEF ScriptReturns, ErrorsTypeOK
<1>7. CASE ScriptThrows
  <2>1. PICK text \in {"empty", "some"} :
          LET err == newJSError(CopyString(text))
          IN /\ jsErrors' = IF err = "nil" THEN jsErrors ELSE jsErrors + 1
             /\ IF err = "nil" \/ Top = "silent"
                THEN Pop /\ UNCHANGED exceptions
                ELSE /\ Replace("noteException")
                     /\ exceptions' = exceptions + 1
    BY <1>7 DEF ScriptThrows
  <2>2. jsErrors' \in {jsErrors, jsErrors + 1}
    BY <2>1
  <2>3. failures' = failures + 1 /\ calls' = calls
    BY <1>7 DEF ScriptThrows
  <2>4. CASE Pop /\ UNCHANGED exceptions
    <3>1. ErrorsTypeOK'
      BY <1>5, <1>7, <2>2, <2>4 DEF ScriptThrows, ErrorsTypeOK
    <3>2. ExceptionCountIsExact'
      BY <1>5, <1>7, <2>4 DEF ScriptThrows, ExceptionCountIsExact, Noting
    <3>3. CountersNest'
      <4>1. Count(Scripts)' = Count(Scripts) - 1 /\ exceptions' = exceptions
        BY <1>5, <1>7, <2>4 DEF ScriptThrows
      <4> QED
        BY <1>1, <2>2, <2>3, <4>1, FailedCall
    <3> QED
      BY <3>1, <3>2, <3>3
  <2>5. CASE Replace("noteException") /\ exceptions' = exceptions + 1 /\ jsErrors' = jsErrors + 1
    <3>1. /\ Replaces(Top, "noteException") /\ "noteException" \in Frames
          /\ One(Top, Noting) = 0 /\ One(Top, Scripts) = 1
          /\ One("noteException", Noting) = 1 /\ One("noteException", Scripts) = 0
      BY <1>7, <2>5, TopIsLast DEF ScriptThrows, Replace, Replaces, Scripts, Noting, One, Frames
    <3>2. /\ frames' \in Seq(Frames) /\ Len(frames') <= MaxDepth
          /\ Count(Noting)' = Count(Noting) + 1 /\ Count(Scripts)' = Count(Scripts) - 1
      BY <1>1, <3>1, CountReplaces
    <3>3. ErrorsTypeOK'
      BY <1>7, <2>5, <3>2 DEF ScriptThrows, ErrorsTypeOK
    <3>4. ExceptionCountIsExact'
      <4>1. exceptions = reported + Count(Noting) /\ reported \in Nat
        BY DEF ExceptionCountIsExact, Noting, ErrorsTypeOK
      <4>2. reported' = reported
        BY <1>7 DEF ScriptThrows
      <4>3. exceptions' = reported' + Count(Noting)'
        BY <1>1, <2>5, <3>2, <4>1, <4>2
      <4> QED
        BY <4>3 DEF ExceptionCountIsExact, Noting
    <3>5. CountersNest'
      BY <1>1, <2>3, <2>5, <3>2, FailedCall
    <3> QED
      BY <3>3, <3>4, <3>5
  <2> QED
    BY <2>1, <2>4, <2>5
<1>8. ASSUME Top \in Noting, ReturnError,
             UNCHANGED <<calls, failures, jsErrors, exceptions, rejections, hooks, promises>>
      PROVE  EInv'
  <2>1. Pops(Top) /\ One(Top, Noting) = 1 /\ One(Top, Scripts) = 0
    BY <1>8, TopIsLast DEF ReturnError, Pop, Pops, Scripts, Noting, One
  <2>2. /\ frames' \in Seq(Frames) /\ Len(frames') <= MaxDepth
        /\ Count(Noting)' = Count(Noting) - 1 /\ Count(Scripts)' = Count(Scripts)
    BY <1>1, <2>1, CountPops
  <2>3. ErrorsTypeOK'
    BY <1>8, <2>2 DEF ReturnError, ErrorsTypeOK
  <2>4. ExceptionCountIsExact'
    BY <1>1, <1>8, <2>2 DEF ReturnError, ExceptionCountIsExact, Noting, ErrorsTypeOK
  <2>5. CountersNest'
    BY <1>8, <2>2 DEF ReturnError, CountersNest
  <2> QED
    BY <2>3, <2>4, <2>5
<1>9. ASSUME NEW g \in Noting, NEW f \in Noting, Replaces(g, f),
             UNCHANGED <<calls, ended, exceptions, rejections, hooks, promises>>
      PROVE  EInv'
  <2>1. /\ f \in Frames
        /\ One(g, Noting) = 1 /\ One(f, Noting) = 1
        /\ One(g, Scripts) = 0 /\ One(f, Scripts) = 0
    BY DEF Noting, Frames, HostCode, Reading, One, Scripts
  <2>2. /\ frames' \in Seq(Frames) /\ Len(frames') <= MaxDepth
        /\ Count(Noting)' = Count(Noting) /\ Count(Scripts)' = Count(Scripts)
    BY <1>1, <1>9, <2>1, CountReplaces
  <2> QED
    BY <1>1, <1>9, <2>2, QuietStep DEF ErrorsTypeOK
<1>10. CASE NoteException
  <2>1. Replaces("noteException", "readException")
    BY <1>10, TopIsLast DEF NoteException, Replace, Replaces
  <2> QED
    BY <1>9, <1>10, <2>1 DEF NoteException, Noting
<1>11. CASE ReadExceptionHook
  <2>1. CASE ~exceptionHook
    BY <1>8, <1>11, <2>1 DEF ReadExceptionHook, Noting
  <2>2. CASE exceptionHook
    <3>1. Replaces("readException", "exceptionHook")
      BY <1>11, <2>2, TopIsLast DEF ReadExceptionHook, Replace, Replaces
    <3> QED
      BY <1>9, <1>11, <2>2, <3>1 DEF ReadExceptionHook, Noting
  <2> QED
    BY <2>1, <2>2
<1>12. CASE ExceptionHookReturns
  BY <1>8, <1>12 DEF ExceptionHookReturns, Noting
<1> QED
  BY <1>2, <1>3, <1>4, <1>6, <1>7, <1>10, <1>11, <1>12

\* Rejections and hooks leave the exceptions alone.
LEMMA RejectionSteps ==
  ASSUME EInv,
         \/ RejectWithNoHandler \/ HandlerAddedAfterReject \/ Resolved \/ SettledAgain
         \/ NoteRejection \/ ReadRejectionHook \/ RejectionHookReturns
         \/ SetExceptionHandler \/ SetUnhandledPromiseRejectionHandler
  PROVE  EInv'
<1> USE DEF EInv, ended, hooks
<1>1. Count(Scripts) \in Nat /\ Count(Noting) \in Nat
  BY CountNat
<1>2. ASSUME NEW p \in Promises,
             NEW to \in {"rejected", "handled", "resolved"}, Event(p, to)
      PROVE  EInv'
  <2>1. Pushes("noteRejection") /\ "noteRejection" \in Frames
    BY <1>2 DEF Event, Push, Pushes, Frames
  <2>2. /\ frames' \in Seq(Frames) /\ Len(frames') <= MaxDepth
        /\ Count(Noting)' = Count(Noting) /\ Count(Scripts)' = Count(Scripts)
    BY <1>1, <2>1, CountPushes DEF One, Noting, Scripts
  <2> QED
    BY <1>1, <1>2, <2>2, QuietStep DEF Event, ErrorsTypeOK
<1>3. CASE RejectWithNoHandler \/ HandlerAddedAfterReject \/ SettledAgain
  <2>1. \A p \in Promises :
          promises[p] # "new" => promises[p] \in {"rejected", "handled", "resolved"}
    BY DEF ErrorsTypeOK
  <2> QED
    BY <1>2, <1>3, <2>1 DEF RejectWithNoHandler, HandlerAddedAfterReject, SettledAgain
<1>4. ASSUME Top \in {"readRejection", "rejectionHook"}, Pop,
             UNCHANGED <<calls, ended, exceptions, rejections, hooks, promises>>
      PROVE  EInv'
  <2>1. Pops(Top) /\ One(Top, Noting) = 0 /\ One(Top, Scripts) = 0
    BY <1>4, TopIsLast DEF Pop, Pops, Scripts, Noting, One
  <2>2. /\ frames' \in Seq(Frames) /\ Len(frames') <= MaxDepth
        /\ Count(Noting)' = Count(Noting) /\ Count(Scripts)' = Count(Scripts)
    BY <1>1, <2>1, CountPops
  <2> QED
    BY <1>1, <1>4, <2>2, QuietStep DEF ErrorsTypeOK
<1>5. ASSUME NEW g \in {"noteRejection", "readRejection"},
             NEW f \in {"readRejection", "rejectionHook"}, Replaces(g, f),
             UNCHANGED <<calls, ended, exceptions, rejections, hooks, promises>>
      PROVE  EInv'
  <2>1. /\ f \in Frames
        /\ One(g, Noting) = 0 /\ One(f, Noting) = 0
        /\ One(g, Scripts) = 0 /\ One(f, Scripts) = 0
    BY DEF Noting, Frames, HostCode, Reading, One, Scripts
  <2>2. /\ frames' \in Seq(Frames) /\ Len(frames') <= MaxDepth
        /\ Count(Noting)' = Count(Noting) /\ Count(Scripts)' = Count(Scripts)
    BY <1>1, <1>5, <2>1, CountReplaces
  <2> QED
    BY <1>1, <1>5, <2>2, QuietStep DEF ErrorsTypeOK
<1>6. CASE RejectionHookReturns
  BY <1>4, <1>6 DEF RejectionHookReturns
<1>8. CASE NoteRejection
  <2>1. Replaces("noteRejection", "readRejection")
    BY <1>8, TopIsLast DEF NoteRejection, Replace, Replaces
  <2> QED
    BY <1>5, <1>8, <2>1 DEF NoteRejection
<1>9. CASE ReadRejectionHook
  <2>1. CASE ~rejectionHook
    BY <1>4, <1>9, <2>1 DEF ReadRejectionHook
  <2>2. CASE rejectionHook
    <3>1. Replaces("readRejection", "rejectionHook")
      BY <1>9, <2>2, TopIsLast DEF ReadRejectionHook, Replace, Replaces
    <3> QED
      BY <1>5, <1>9, <2>2, <3>1 DEF ReadRejectionHook
  <2> QED
    BY <2>1, <2>2
<1>7. CASE Resolved \/ SetExceptionHandler \/ SetUnhandledPromiseRejectionHandler
  <2>1. /\ UNCHANGED <<frames, calls, failures, jsErrors, reported, exceptions, rejections>>
        /\ exceptionHook' \in BOOLEAN /\ rejectionHook' \in BOOLEAN
        /\ promises' \in [Promises -> {"new", "rejected", "handled", "resolved"}]
    BY <1>7 DEF Resolved, SetExceptionHandler, SetUnhandledPromiseRejectionHandler,
                ErrorsTypeOK
  <2>2. Count(Noting)' = Count(Noting) /\ Count(Scripts)' = Count(Scripts)
    BY <2>1 DEF Count
  <2> QED
    BY <1>1, <2>1, <2>2, QuietStep DEF ErrorsTypeOK
<1> QED
  BY <1>3, <1>6, <1>7, <1>8, <1>9

\* Every step keeps the invariant.
LEMMA NextEInv == EInv /\ [ErrorsNext]_evars => EInv'
<1> SUFFICES ASSUME EInv, [ErrorsNext]_evars PROVE EInv'
  OBVIOUS
<1>1. CASE UNCHANGED evars
  BY <1>1 DEF EInv, evars, ErrorsTypeOK, ExceptionCountIsExact, CountersNest, Count
<1> QED
  BY <1>1, CallSteps, RejectionSteps DEF ErrorsNext

\* The invariant holds throughout.
THEOREM ErrorsInvariant == ErrorsSpec => []EInv
  BY InitEInv, NextEInv, PTL DEF ErrorsSpec

\* i.exceptions is the number of JSErrors that reporting calls have returned, or
\* will when the hooks on the stack return, at any depth of nesting.
THEOREM ExceptionCount == ErrorsSpec => []ExceptionCountIsExact
<1>1. EInv => ExceptionCountIsExact
  BY DEF EInv
<1> QED
  BY <1>1, ErrorsInvariant, PTL

\* i.exceptions never counts more than the JSErrors that newJSError made, those
\* are at most the failed calls, and a failed call is not on the stack any more.
THEOREM CountersAreNested == ErrorsSpec => []CountersNest
<1>1. EInv => CountersNest
  BY DEF EInv
<1> QED
  BY <1>1, ErrorsInvariant, PTL

----------------------------------------------------------------------------
(* i.obMu.                                                                 *)

\* Only the innermost frame holds i.obMu.
OnlyTopReads == \A i \in 1..Len(frames) : frames[i] \in Reading => i = Len(frames)

\* A frame is pushed only over one that does not hold the lock.
LEMMA PushedOverFree ==
  ASSUME ErrorsTypeOK, OnlyTopReads, Top \notin Reading, NEW f, Push(f)
  PROVE  OnlyTopReads'
<1>1. frames' = Append(frames, f) /\ Len(frames) \in Nat /\ frames \in Seq(Frames)
  BY LenProperties DEF Push, ErrorsTypeOK
<1>2. /\ Len(frames') = Len(frames) + 1
      /\ \A i \in 1..Len(frames) : frames'[i] = frames[i]
  BY <1>1
<1>3. \A i \in 1..Len(frames) : frames[i] \notin Reading
  <2> SUFFICES ASSUME NEW i \in 1..Len(frames), frames[i] \in Reading PROVE FALSE
    OBVIOUS
  <2>1. i = Len(frames) /\ frames # <<>>
    BY <1>1 DEF OnlyTopReads
  <2>2. Top = frames[i]
    BY <1>1, <2>1, StackPop DEF Top
  <2> QED
    BY <2>2
<1> QED
  BY <1>1, <1>2, <1>3 DEF OnlyTopReads

\* What is under the innermost frame does not hold the lock.
LEMMA PoppedToFree ==
  ASSUME ErrorsTypeOK, OnlyTopReads, frames # <<>>
  PROVE  /\ Front(frames) \in Seq(Frames)
         /\ \A i \in 1..Len(Front(frames)) : Front(frames)[i] \notin Reading
<1>1. /\ Front(frames) \in Seq(Frames) /\ Len(frames) \in Nat
      /\ Len(Front(frames)) = Len(frames) - 1
      /\ \A i \in 1..Len(frames)-1 : Front(frames)[i] = frames[i]
  BY StackPop DEF ErrorsTypeOK
<1> QED
  BY <1>1 DEF OnlyTopReads

\* Popping and replacing the innermost frame keeps the lock innermost.
LEMMA PoppedOrReplaced ==
  ASSUME ErrorsTypeOK, OnlyTopReads, Top # "host",
         NEW f, Pop \/ Replace(f)
  PROVE  OnlyTopReads'
<1>1. frames # <<>>
  BY TopIsLast
<1>2. CASE Pop
  BY <1>1, <1>2, PoppedToFree DEF Pop, OnlyTopReads
<1>3. CASE Replace(f)
  <2>1. PICK s \in Seq(Frames) : s = Front(frames) /\ frames' = Append(s, f)
    BY <1>1, <1>3, PoppedToFree DEF Replace
  <2>2. Len(s) \in Nat /\ Len(frames') = Len(s) + 1 /\ \A i \in 1..Len(s) : frames'[i] = s[i]
    BY <2>1, LenProperties
  <2>3. \A i \in 1..Len(s) : s[i] \notin Reading
    BY <1>1, <2>1, PoppedToFree
  <2> QED
    BY <2>2, <2>3 DEF OnlyTopReads
<1> QED
  BY <1>2, <1>3

\* Every step keeps the lock with the innermost frame.
LEMMA ReadingStep ==
  ASSUME ErrorsTypeOK, OnlyTopReads, [ErrorsNext]_evars
  PROVE  OnlyTopReads'
<1>1. ASSUME UNCHANGED frames PROVE OnlyTopReads'
  BY <1>1 DEF OnlyTopReads
<1>2. CASE CallJavaScript
  BY <1>2, PushedOverFree DEF CallJavaScript, HostCode, Reading
<1>3. CASE CallHostFunction
  BY <1>3, PushedOverFree DEF CallHostFunction, Scripts, Reading
<1>4. CASE RejectWithNoHandler \/ HandlerAddedAfterReject \/ SettledAgain
  BY <1>4, PushedOverFree
     DEF RejectWithNoHandler, HandlerAddedAfterReject, SettledAgain, Event, Scripts, Reading
<1>5. CASE HostFunctionReturns \/ ExceptionHookReturns \/ RejectionHookReturns
  BY <1>5, PoppedOrReplaced
     DEF HostFunctionReturns, ExceptionHookReturns, RejectionHookReturns, ReturnError
<1>6. CASE ScriptReturns \/ ScriptThrows
  BY <1>6, PoppedOrReplaced DEF ScriptReturns, ScriptThrows, Scripts
<1>7. CASE NoteException \/ NoteRejection
  BY <1>7, PoppedOrReplaced DEF NoteException, NoteRejection
<1>8. CASE ReadExceptionHook \/ ReadRejectionHook
  BY <1>8, PoppedOrReplaced DEF ReadExceptionHook, ReadRejectionHook, ReturnError
<1>9. CASE Resolved \/ SetExceptionHandler \/ SetUnhandledPromiseRejectionHandler
            \/ UNCHANGED evars
  BY <1>1, <1>9 DEF Resolved, SetExceptionHandler, SetUnhandledPromiseRejectionHandler, evars
<1> QED
  BY <1>2, <1>3, <1>4, <1>5, <1>6, <1>7, <1>8, <1>9 DEF ErrorsNext

\* Host code that JavaScript or an error brought about finds i.obMu free, so the
\* handlers can be set from inside a hook at any depth of nesting.
THEOREM HooksUnlocked == ErrorsSpec => []HooksRunUnlocked
<1>1. ErrorsInit => OnlyTopReads
  BY DEF ErrorsInit, OnlyTopReads
<1>2. EInv /\ OnlyTopReads /\ [ErrorsNext]_evars => OnlyTopReads'
  BY ReadingStep DEF EInv
<1>3. EInv /\ OnlyTopReads => HooksRunUnlocked
  <2> SUFFICES ASSUME ErrorsTypeOK, OnlyTopReads, Top \in HostCode,
                      NEW i \in 1..Len(frames), frames[i] \in Reading
               PROVE  FALSE
    BY DEF EInv, HooksRunUnlocked, ObMuFree
  <2>1. frames # <<>> /\ Last(frames) = Top
    BY TopIsLast DEF HostCode
  <2>2. Top = frames[i]
    BY <2>1, StackPop DEF OnlyTopReads, ErrorsTypeOK
  <2> QED
    BY <2>2 DEF HostCode, Reading
<1> QED
  BY <1>1, <1>2, <1>3, ErrorsInvariant, PTL DEF ErrorsSpec
=============================================================================
