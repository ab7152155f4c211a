---------------------------- MODULE AwaitProofs ----------------------------
(***************************************************************************)
(* Proofs about Await, for every choice of its constants.                  *)
(*                                                                         *)
(* The argument rests on two facts that no property states.  Past the top  *)
(* of the loop the promise's handle is valid, because the pump is followed *)
(* by the check, unless another goroutine closed the context               *)
(* (ValidPastCheck).  And a termination request cannot be out before       *)
(* i.terminating has been stored by a watchdog whose context was done      *)
(* (TerminationOrder).                                                     *)
(***************************************************************************)
EXTENDS Await, TLAPS

\* No step between two checks of the loop can lose the handle.
ValidPastCheck ==
  /\ ~ptr => closed
  /\ raced => closed
  /\ ~raced => (closed => ~ptr)
  /\ ~raced /\ pc \in InAwait \ {"check"} => Valid
  /\ pc \in {"again", "againNative", "result", "resultNative"} => promise # "pending"

\* What the two termination flags say about the watchdog.
TerminationOrder ==
  /\ wpc \in {"store", "native"} => done
  /\ goTerm => done /\ wpc \in {"native", "exit"}

\* A watchdog that had exited when Cancel began does not fire again.
CancelIsLast ==
  /\ quiet => wpc = "exit" /\ pc \in {"cancelNative", "reuse", "end"}
  /\ quiet /\ pc = "reuse" => ~v8Term
  /\ pc # "end" => reuse = "none"

AInv == AwaitTypeOK /\ ValidPastCheck /\ TerminationOrder /\ OutcomeIsJustified

\* The Boolean flags, apart from the rest: Zenon decides one, SMT the other.
Flags ==
  /\ closed \in BOOLEAN /\ ptr \in BOOLEAN /\ raced \in BOOLEAN
  /\ goTerm \in BOOLEAN /\ v8Term \in BOOLEAN
  /\ done \in BOOLEAN /\ stopped \in BOOLEAN /\ quiet \in BOOLEAN

\* Every step keeps the flags Boolean.
LEMMA FlagStep == Flags /\ [AwaitNext]_avars => Flags'
<1> SUFFICES ASSUME Flags, [AwaitNext]_avars PROVE Flags'
  OBVIOUS
<1> USE DEF Flags, handle, setup, term, dog, after
<1>1. CASE CheckValid \/ State \/ StateNative \/ CheckTerminating \/ CheckDeadline
  BY <1>1 DEF CheckValid, State, StateNative, CheckTerminating, CheckDeadline
<1>2. CASE CheckpointRuns
  <2>1. (v8Term /\ job = "none") \in BOOLEAN
    OBVIOUS
  <2> QED
    BY <1>2, <2>1, Zenon DEF CheckpointRuns
<1>3. CASE CheckpointLoops \/ LoopTerminated
  BY <1>3, Zenon DEF CheckpointLoops, LoopTerminated
<1>4. CASE Pump
  <2>1. PICK move \in moves : /\ closed' = (closed \/ move = "close")
                                 /\ ptr' = (ptr /\ move # "close")
    BY <1>4 DEF Pump
  <2>2. closed' \in BOOLEAN /\ ptr' \in BOOLEAN
    BY <2>1, Zenon
  <2> QED
    BY <1>4, <2>2, Zenon DEF Pump
<1>5. CASE TimerWait \/ StateAgain \/ StateAgainNative \/ Result \/ ResultNative
  BY <1>5 DEF TimerWait, StateAgain, StateAgainNative, Result, ResultNative
<1>6. CASE StopWatchdog \/ CancelNative \/ RunScript
  BY <1>6, Zenon DEF StopWatchdog, CancelNative, RunScript
<1>7. CASE CancelStore
  BY <1>7, Zenon DEF CancelStore
<1>8. CASE Watchdog
  BY <1>8, Zenon DEF Watchdog, WatchdogSelect, TerminateStore, TerminateNative
<1>9. CASE Closer \/ ContextDone
  BY <1>9, Zenon DEF Closer, CloseMark, CloseInvalidate, ContextDone
<1>10. CASE UNCHANGED avars
  BY <1>10 DEF avars
<1> QED
  BY <1>1, <1>2, <1>3, <1>4, <1>5, <1>6, <1>7, <1>8, <1>9, <1>10
  DEF AwaitNext, Awaiter

\* The type invariant holds of every state Await, the watchdog and a
\* concurrent Close can reach.
LEMMA TypeStep == AwaitTypeOK /\ [AwaitNext]_avars => AwaitTypeOK'
<1> SUFFICES ASSUME AwaitTypeOK, [AwaitNext]_avars PROVE AwaitTypeOK'
  OBVIOUS
<1>f. Flags /\ Flags'
  BY FlagStep DEF AwaitTypeOK, Flags
<1> DEFINE Rest == /\ pc \in InAwait \cup {"returned", "cancelStore", "cancelNative",
                                           "reuse", "end"}
                   /\ outcome \in Outcomes \cup {"none"}
                   /\ outcome = "none" <=> pc \in InAwait
                   /\ promise \in {"pending", "fulfil", "reject"}
                   /\ job \in {"none", "fulfil", "reject", "loop"}
                   /\ wpc \in {"select", "store", "native", "exit"}
                   /\ reuse \in {"none", "ok", "terminated"}
                   /\ moves \in Pumps /\ deadline \in Deadlines
<1>r. Rest
  BY DEF AwaitTypeOK
<1> SUFFICES Rest'
  BY <1>f DEF AwaitTypeOK, Flags
<1> USE <1>r, AwaitConstants DEF Outcomes, InAwait, Continue, Return, Goto,
        handle, setup, term, dog, after
<1>1. CASE CheckValid \/ State \/ StateNative \/ CheckTerminating \/ CheckDeadline
  BY <1>1 DEF CheckValid, State, StateNative, CheckTerminating, CheckDeadline
<1>2. CASE CheckpointRuns \/ CheckpointLoops \/ LoopTerminated
  BY <1>2 DEF CheckpointRuns, CheckpointLoops, LoopTerminated
<1>3. CASE Pump
  BY <1>3 DEF Pump
<1>4. CASE TimerWait
  BY <1>4 DEF TimerWait
<1>5. CASE StateAgain \/ StateAgainNative \/ Result \/ ResultNative
  BY <1>5 DEF StateAgain, StateAgainNative, Result, ResultNative
<1>6. CASE StopWatchdog \/ CancelStore \/ CancelNative \/ RunScript
  BY <1>6 DEF StopWatchdog, CancelStore, CancelNative, RunScript
<1>7. CASE Watchdog
  BY <1>7 DEF Watchdog, WatchdogSelect, TerminateStore, TerminateNative
<1>8. CASE Closer \/ ContextDone
  BY <1>8 DEF Closer, CloseMark, CloseInvalidate, ContextDone
<1>9. CASE UNCHANGED avars
  BY <1>9 DEF avars
<1> QED
  BY <1>1, <1>2, <1>3, <1>4, <1>5, <1>6, <1>7, <1>8, <1>9 DEF AwaitNext, Awaiter

\* Await starts with a valid handle, no outcome and no termination.
LEMMA InitAInv == AwaitInit => AInv /\ CancelIsLast
BY AwaitConstants DEF AwaitInit, AInv, AwaitTypeOK, ValidPastCheck, TerminationOrder,
   OutcomeIsJustified, CancelIsLast, InAwait, Valid, Outcomes

\* Every step preserves the invariant.
LEMMA NextAInv == AInv /\ [AwaitNext]_avars => AInv'
<1> SUFFICES ASSUME AInv, [AwaitNext]_avars PROVE AInv'
  OBVIOUS
<1>t. AwaitTypeOK /\ AwaitTypeOK'
  BY TypeStep DEF AInv
<1> SUFFICES (ValidPastCheck /\ TerminationOrder /\ OutcomeIsJustified)'
  BY <1>t DEF AInv
<1> USE <1>t DEF AInv, AwaitTypeOK, ValidPastCheck, TerminationOrder,
        OutcomeIsJustified, InAwait, Valid,
        Continue, Return, Goto, handle, setup, term, dog, after
<1>1. CASE CheckValid
  BY <1>1 DEF CheckValid
<1>2. CASE State \/ StateNative
  BY <1>2 DEF State, StateNative
<1>3. CASE CheckTerminating
  BY <1>3 DEF CheckTerminating
<1>4. CASE CheckDeadline
  BY <1>4 DEF CheckDeadline
<1>5. CASE CheckpointRuns \/ CheckpointLoops \/ LoopTerminated
  BY <1>5 DEF CheckpointRuns, CheckpointLoops, LoopTerminated
<1>6. CASE Pump
  BY <1>6 DEF Pump
<1>7. CASE TimerWait
  BY <1>7 DEF TimerWait
<1>8. CASE StateAgain \/ StateAgainNative
  BY <1>8 DEF StateAgain, StateAgainNative
<1>9. CASE Result \/ ResultNative
  BY <1>9 DEF Result, ResultNative
<1>10. CASE StopWatchdog \/ CancelStore \/ CancelNative \/ RunScript
  BY <1>10 DEF StopWatchdog, CancelStore, CancelNative, RunScript
<1>11. CASE Watchdog
  BY <1>11 DEF Watchdog, WatchdogSelect, TerminateStore, TerminateNative
<1>12. CASE Closer
  BY <1>12 DEF Closer, CloseMark, CloseInvalidate
<1>13. CASE ContextDone
  BY <1>13 DEF ContextDone
<1>14. CASE UNCHANGED avars
  BY <1>14 DEF avars
<1> QED
  BY <1>1, <1>2, <1>3, <1>4, <1>5, <1>6, <1>7, <1>8, <1>9, <1>10, <1>11, <1>12,
     <1>13, <1>14 DEF AwaitNext, Awaiter

\* Once Cancel has begun after the watchdog's exit, nobody terminates.
LEMMA CancelStep ==
  AwaitTypeOK /\ CancelIsLast /\ CancelRestoresExecution /\ [AwaitNext]_avars
    => (CancelIsLast /\ CancelRestoresExecution)'
<1> SUFFICES ASSUME AwaitTypeOK, CancelIsLast, CancelRestoresExecution,
                    [AwaitNext]_avars
             PROVE  (CancelIsLast /\ CancelRestoresExecution)'
  OBVIOUS
<1> USE DEF AwaitTypeOK, CancelIsLast, CancelRestoresExecution, InAwait,
        Continue, Return, Goto, handle, setup, term, dog, after
<1>1. CASE CheckValid \/ State \/ StateNative \/ CheckTerminating \/ CheckDeadline
  BY <1>1 DEF CheckValid, State, StateNative, CheckTerminating, CheckDeadline
<1>2. CASE CheckpointRuns \/ CheckpointLoops \/ LoopTerminated
  BY <1>2 DEF CheckpointRuns, CheckpointLoops, LoopTerminated
<1>3. CASE Pump \/ TimerWait
  BY <1>3 DEF Pump, TimerWait
<1>4. CASE StateAgain \/ StateAgainNative \/ Result \/ ResultNative
  BY <1>4 DEF StateAgain, StateAgainNative, Result, ResultNative
<1>5. CASE CancelStore
  <2>1. quiet' => wpc' = "exit"
    BY <1>5, Zenon DEF CancelStore
  <2>2. pc' = "cancelNative" /\ reuse' = "none"
    BY <1>5 DEF CancelStore
  <2> QED
    BY <2>1, <2>2
<1>6. CASE StopWatchdog \/ CancelNative \/ RunScript
  BY <1>6 DEF StopWatchdog, CancelNative, RunScript
<1>7. CASE Watchdog
  BY <1>7 DEF Watchdog, WatchdogSelect, TerminateStore, TerminateNative
<1>8. CASE Closer \/ ContextDone
  BY <1>8 DEF Closer, CloseMark, CloseInvalidate, ContextDone
<1>9. CASE UNCHANGED avars
  BY <1>9 DEF avars
<1> QED
  BY <1>1, <1>2, <1>3, <1>4, <1>5, <1>6, <1>7, <1>8, <1>9 DEF AwaitNext, Awaiter

\* Await, watchdog and Close keep the types of their state, and an outcome is
\* set exactly when Await has returned.
THEOREM AwaitTypeCorrect == AwaitSpec => []AwaitTypeOK
<1>1. AwaitInit => AwaitTypeOK
  BY InitAInv DEF AInv
<1> QED
  BY <1>1, TypeStep, PTL DEF AwaitSpec

\* Await's outcome is justified by what happened, whatever the pump and the
\* watchdog do, and whoever closes the context.
THEOREM AwaitIsSound == AwaitSpec => []OutcomeIsJustified
<1>1. AwaitInit => AInv
  BY InitAInv
<1>2. AInv /\ [AwaitNext]_avars => AInv'
  BY NextAInv
<1>3. AInv => OutcomeIsJustified
  BY DEF AInv
<1> QED
  BY <1>1, <1>2, <1>3, PTL DEF AwaitSpec

\* CancelTerminateExecution restores the isolate when the watchdog was
\* through by then, even if contexts are closed concurrently.
THEOREM CancelRestores == AwaitSpec => []CancelRestoresExecution
<1>1. AwaitInit => AwaitTypeOK /\ CancelIsLast /\ CancelRestoresExecution
  BY InitAInv DEF AInv, AwaitInit, CancelRestoresExecution
<1> QED
  BY <1>1, TypeStep, CancelStep, PTL DEF AwaitSpec
=============================================================================
