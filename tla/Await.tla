------------------------------- MODULE Await -------------------------------
(***************************************************************************)
(* Promise.Await and what races with it: the watchdog goroutine that       *)
(* TerminateOnContextDone starts, and a Close of the context from the pump *)
(* or from another goroutine.  Afterwards the host stops the watchdog,     *)
(* calls CancelTerminateExecution and runs another script, as              *)
(* TestPromiseAwaitTerminationAndReuseStress does.                         *)
(*                                                                         *)
(* Termination is recorded twice: i.terminating (here goTerm), which Await *)
(* polls and only Cancel resets, and V8's own request (v8Term), which the  *)
(* next JavaScript to run consumes.  TerminateExecution and                *)
(* CancelTerminateExecution write the two one after the other.             *)
(*                                                                         *)
(* Promise.State and Promise.Result look at valid() first and pass p.ptr   *)
(* to C later, two steps here.  The isolate's guard is not a variable: the *)
(* awaiting goroutine is the only one that enters.                         *)
(***************************************************************************)
EXTENDS Naturals

CONSTANTS
  Jobs,         \* what the microtask queue may hold when Await starts
  Pumps,        \* the pumps, each the set of its moves; {} is a nil pump
  Deadlines,    \* whether the context given to Await is the watchdog's
  HasWatchdog,  \* TerminateOnContextDone was called
  OthersClose   \* another goroutine may call Close

ASSUME AwaitConstants ==
  /\ Jobs \subseteq {"none", "fulfil", "reject", "loop"} /\ Jobs # {}
  /\ Pumps \subseteq SUBSET {"idle", "fulfil", "enqueue", "close", "error"}
  /\ Deadlines \subseteq BOOLEAN
  /\ {HasWatchdog, OthersClose} \subseteq BOOLEAN

VARIABLES
  pc,        \* the awaiting goroutine
  outcome,   \* what Await returned
  promise,   \* V8's state of the promise
  job,       \* the microtask that is queued
  closed,    \* c.closed
  ptr,       \* p.ptr is set
  raced,     \* history: another goroutine called Close
  moves,     \* what the pump may do
  deadline,  \* the context given to Await is the watchdog's
  goTerm,    \* i.terminating
  v8Term,    \* V8 has a termination request it has not acted on
  done,      \* the watchdog's context is done
  stopped,   \* the watchdog's stop channel is closed
  wpc,       \* the watchdog goroutine
  quiet,     \* history: the watchdog had exited when Cancel was called
  reuse      \* how the script after Cancel ended

avars == <<pc, outcome, promise, job, closed, ptr, raced, moves, deadline,
           goTerm, v8Term, done, stopped, wpc, quiet, reuse>>

setup == <<moves, deadline>>
handle == <<closed, ptr, raced, setup>>
term == <<goTerm, v8Term>>
dog == <<done, stopped, wpc>>
after == <<quiet, reuse>>

InAwait == {"check", "checkpoint", "looping", "state", "stateNative",
            "terminating", "deadline", "wait", "again", "againNative",
            "result", "resultNative"}
Outcomes == {"value", "rejected", "invalid", "terminated", "ctxErr",
             "pumpErr", "unsettled", "nil", "crash"}

AwaitTypeOK ==
  /\ pc \in InAwait \cup {"returned", "cancelStore", "cancelNative", "reuse",
                          "end"}
  /\ outcome \in Outcomes \cup {"none"}
  /\ outcome = "none" <=> pc \in InAwait
  /\ promise \in {"pending", "fulfil", "reject"}
  /\ job \in {"none", "fulfil", "reject", "loop"}
  /\ closed \in BOOLEAN /\ ptr \in BOOLEAN /\ raced \in BOOLEAN
  /\ moves \in Pumps /\ deadline \in Deadlines
  /\ goTerm \in BOOLEAN /\ v8Term \in BOOLEAN
  /\ done \in BOOLEAN /\ stopped \in BOOLEAN /\ quiet \in BOOLEAN
  /\ wpc \in {"select", "store", "native", "exit"}
  /\ reuse \in {"none", "ok", "terminated"}

AwaitInit ==
  /\ pc = "check"
  /\ outcome = "none"
  /\ promise = "pending"
  /\ job \in Jobs
  /\ closed = FALSE
  /\ ptr = TRUE
  /\ raced = FALSE
  /\ moves \in Pumps
  /\ deadline \in Deadlines
  /\ goTerm = FALSE
  /\ v8Term = FALSE
  /\ done = FALSE
  /\ stopped = FALSE
  /\ wpc = IF HasWatchdog THEN "select" ELSE "exit"
  /\ quiet = FALSE
  /\ reuse = "none"

----------------------------------------------------------------------------
(* Await, step by step.                                                    *)

Valid == ptr /\ ~closed

Goto(from, to) == pc = from /\ pc' = to
Continue(to) == pc' = to /\ UNCHANGED outcome
Return(o) == pc' = "returned" /\ outcome' = o

\* A loop that looks at valid() only before its first round.
CheckValidSkipped ==
  /\ pc = "check"
  /\ Continue("checkpoint")
  /\ UNCHANGED <<promise, job, handle, term, dog, after>>

\* The top of the loop.
CheckValid ==
  /\ pc = "check"
  /\ IF Valid THEN Continue("checkpoint") ELSE Return("invalid")
  /\ UNCHANGED <<promise, job, handle, term, dog, after>>

\* PerformMicrotaskCheckpoint, once the queue has been looked at.  A pending
\* termination request empties the queue and is consumed.
CheckpointRuns ==
  /\ pc = "checkpoint"
  /\ job # "loop"
  /\ Continue("state")
  /\ job' = "none"
  /\ promise' = IF job = "none" \/ v8Term \/ promise # "pending"
                THEN promise ELSE job
  /\ v8Term' = (v8Term /\ job = "none")
  /\ UNCHANGED <<handle, goTerm, dog, after>>

\* A microtask that does not end by itself.
CheckpointLoops ==
  /\ pc = "checkpoint"
  /\ job = "loop"
  /\ Continue("looping")
  /\ UNCHANGED <<promise, job, handle, term, dog, after>>

\* V8 acts on the request at the next interrupt check of the loop.
LoopTerminated ==
  /\ pc = "looping"
  /\ v8Term
  /\ Continue("state")
  /\ job' = "none"
  /\ v8Term' = FALSE
  /\ UNCHANGED <<promise, handle, goTerm, dog, after>>

\* Promise.State is pending for a handle that is no longer valid.
State ==
  /\ pc = "state"
  /\ Continue(IF Valid THEN "stateNative" ELSE "terminating")
  /\ UNCHANGED <<promise, job, handle, term, dog, after>>

\* C.GV8PromiseState(p.ptr) reads through its argument.
StateNative ==
  /\ pc = "stateNative"
  /\ IF ~ptr THEN Return("crash")
     ELSE Continue(IF promise = "pending" THEN "terminating" ELSE "again")
  /\ UNCHANGED <<promise, job, handle, term, dog, after>>

\* IsExecutionTerminating.
CheckTerminating ==
  /\ pc = "terminating"
  /\ IF goTerm THEN Return("terminated") ELSE Continue("deadline")
  /\ UNCHANGED <<promise, job, handle, term, dog, after>>

\* A missing return: the error is kept and the loop goes on.
CheckDeadlineGoesOn ==
  /\ pc = "deadline"
  /\ pc' = "wait"
  /\ outcome' = IF deadline /\ done THEN "ctxErr" ELSE outcome
  /\ UNCHANGED <<promise, job, handle, term, dog, after>>

CheckDeadline ==
  /\ pc = "deadline"
  /\ IF deadline /\ done THEN Return("ctxErr") ELSE Continue("wait")
  /\ UNCHANGED <<promise, job, handle, term, dog, after>>

\* The pump is host code: it settles or queues work for the promise, closes
\* the context, fails, or does nothing.
Pump ==
  /\ pc = "wait"
  /\ \E move \in moves :
       /\ IF move = "error" THEN Return("pumpErr") ELSE Continue("check")
       /\ promise' = IF move = "fulfil" /\ Valid /\ promise = "pending"
                     THEN "fulfil" ELSE promise
       /\ job' = IF move = "enqueue" /\ job = "none" /\ Valid THEN "fulfil" ELSE job
       /\ closed' = (closed \/ move = "close")
       /\ ptr' = (ptr /\ move # "close")
  /\ UNCHANGED <<raced, setup, term, dog, after>>

\* Without a pump a timer runs, and the deadline may end the wait; Go picks
\* either when both are ready.
TimerWait ==
  /\ pc = "wait"
  /\ moves = {}
  /\ \/ Continue("check")
     \/ deadline /\ done /\ Return("ctxErr")
  /\ UNCHANGED <<promise, job, handle, term, dog, after>>

\* The second State, which decides.
StateAgain ==
  /\ pc = "again"
  /\ IF Valid THEN Continue("againNative") ELSE Return("unsettled")
  /\ UNCHANGED <<promise, job, handle, term, dog, after>>

StateAgainNative ==
  /\ pc = "againNative"
  /\ IF ptr THEN Continue("result") ELSE Return("crash")
  /\ UNCHANGED <<promise, job, handle, term, dog, after>>

\* Promise.Result is nil for a handle that is no longer valid.
Result ==
  /\ pc = "result"
  /\ IF Valid THEN Continue("resultNative")
     ELSE Return(IF promise = "fulfil" THEN "nil" ELSE "rejected")
  /\ UNCHANGED <<promise, job, handle, term, dog, after>>

\* A switch without its case for rejected promises.
ResultNativeAny ==
  /\ pc = "resultNative"
  /\ Return(IF ~ptr THEN "crash" ELSE "value")
  /\ UNCHANGED <<promise, job, handle, term, dog, after>>

ResultNative ==
  /\ pc = "resultNative"
  /\ Return(IF ~ptr THEN "crash"
            ELSE IF promise = "fulfil" THEN "value" ELSE "rejected")
  /\ UNCHANGED <<promise, job, handle, term, dog, after>>

----------------------------------------------------------------------------
(* The watchdog.                                                           *)

\* The deadline passes, or the host cancels the context.
ContextDone ==
  /\ HasWatchdog \/ deadline
  /\ ~done
  /\ done' = TRUE
  /\ UNCHANGED <<pc, outcome, promise, job, handle, term, stopped, wpc, after>>

\* select between ctx.Done and stop; Go picks either when both are ready.
WatchdogSelect ==
  /\ wpc = "select"
  /\ \/ done /\ wpc' = "store"
     \/ stopped /\ wpc' = "exit"
  /\ UNCHANGED <<pc, outcome, promise, job, handle, term, done, stopped, after>>

\* A TerminateExecution that leaves i.terminating alone.
TerminateNoStore ==
  /\ wpc = "store"
  /\ wpc' = "native"
  /\ UNCHANGED <<pc, outcome, promise, job, handle, term, done, stopped, after>>

\* TerminateExecution: i.terminating first, then V8.
TerminateStore ==
  /\ wpc = "store"
  /\ wpc' = "native"
  /\ goTerm' = TRUE
  /\ UNCHANGED <<pc, outcome, promise, job, handle, v8Term, done, stopped, after>>

TerminateNative ==
  /\ wpc = "native"
  /\ wpc' = "exit"
  /\ v8Term' = TRUE
  /\ UNCHANGED <<pc, outcome, promise, job, handle, goTerm, done, stopped, after>>

----------------------------------------------------------------------------
(* Context.Close by another goroutine: it marks the context, invalidates   *)
(* the handles and frees the native ones, without entering the isolate.    *)

CloseMark ==
  /\ OthersClose /\ ~closed
  /\ closed' = TRUE
  /\ raced' = TRUE
  /\ UNCHANGED <<pc, outcome, promise, job, ptr, setup, term, dog, after>>

CloseInvalidate ==
  /\ closed /\ ptr
  /\ ptr' = FALSE
  /\ UNCHANGED <<pc, outcome, promise, job, closed, raced, setup, term, dog, after>>

----------------------------------------------------------------------------
(* After Await: stop the watchdog, cancel, run another script.             *)

StopWatchdog ==
  /\ Goto("returned", "cancelStore")
  /\ outcome # "crash"
  /\ stopped' = TRUE
  /\ UNCHANGED <<outcome, promise, job, handle, term, done, wpc, after>>

CancelStore ==
  /\ Goto("cancelStore", "cancelNative")
  /\ goTerm' = FALSE
  /\ quiet' = (wpc = "exit")
  /\ UNCHANGED <<outcome, promise, job, handle, v8Term, dog, reuse>>

\* A CancelTerminateExecution that only resets i.terminating.
CancelGoOnly ==
  /\ Goto("cancelNative", "reuse")
  /\ UNCHANGED <<outcome, promise, job, handle, term, dog, after>>

CancelNative ==
  /\ Goto("cancelNative", "reuse")
  /\ v8Term' = FALSE
  /\ UNCHANGED <<outcome, promise, job, handle, goTerm, dog, after>>

\* RunScript, in a context that may be a new one.
RunScript ==
  /\ Goto("reuse", "end")
  /\ reuse' = IF v8Term THEN "terminated" ELSE "ok"
  /\ v8Term' = FALSE
  /\ UNCHANGED <<outcome, promise, job, handle, goTerm, dog, quiet>>

----------------------------------------------------------------------------
Awaiter ==
  \/ CheckValid \/ CheckpointRuns \/ CheckpointLoops \/ LoopTerminated
  \/ State \/ StateNative \/ CheckTerminating \/ CheckDeadline
  \/ Pump \/ TimerWait
  \/ StateAgain \/ StateAgainNative \/ Result \/ ResultNative
  \/ StopWatchdog \/ CancelStore \/ CancelNative \/ RunScript

Watchdog == WatchdogSelect \/ TerminateStore \/ TerminateNative

Closer == CloseMark \/ CloseInvalidate

AwaitNext == Awaiter \/ Watchdog \/ Closer \/ ContextDone

AwaitSpec == AwaitInit /\ [][AwaitNext]_avars

\* Goroutines that can run are scheduled, and the pump returns.  Nothing
\* makes the context done, and nobody need close the context.
AwaitFairSpec == AwaitSpec /\ WF_avars(Awaiter) /\ WF_avars(Watchdog)

----------------------------------------------------------------------------
(* Properties.                                                             *)

\* Await reports what happened: a value of a fulfilled promise, a rejection
\* of a rejected one, a termination somebody asked for, an expired context,
\* a closed one.  Unless another goroutine closes the context under it, it
\* never returns nil for both results or gives up on a settled promise, however
\* the two State calls and Result interleave with the pump and the watchdog.
OutcomeIsJustified ==
  /\ outcome = "value" => promise = "fulfil"
  /\ outcome = "rejected" => promise = "reject"
  /\ outcome = "terminated" => done /\ wpc \in {"native", "exit"}
  /\ outcome = "ctxErr" => deadline /\ done
  /\ outcome = "invalid" => closed
  /\ ~raced => outcome \notin {"nil", "unsettled", "crash"}

\* TestIsolateTerminateExecution: a script after CancelTerminateExecution
\* runs, provided the watchdog was through when Cancel was called.
CancelRestoresExecution == quiet => reuse # "terminated"

\* TestPromiseAwaitTerminationAndReuseStress: stop(), Cancel, and the isolate
\* can be used again.
ReuseAfterCancel == reuse # "terminated"

\* Once the watchdog's context is done Await returns, even if a microtask
\* loops or the promise is never settled.
DeadlineEndsAwait == done ~> outcome # "none"

\* Await has found the promise valid and has not passed p.ptr to C yet.
PastItsCheck == pc \in {"stateNative", "againNative", "resultNative"}

\* TestPromiseAwaitFailsWhenContextClosesDuringPendingWork, wherever the Close of
\* the other goroutine, or of the pump, falls: a pending Await returns an error,
\* "gv8: value is no longer valid" unless the deadline, a termination or the
\* pump's own error comes first.  It never crashes and never returns nil.  Two
\* places are excepted: a microtask that loops, which Close does not end, and
\* the gap between valid() and the C call that trusts it (promise.go:85-90 and
\* promise.go:94-99), where Close leads to the outcome crash.
CloseFailsAwait ==
  closed /\ outcome = "none" /\ promise = "pending" /\ job # "loop" /\ ~PastItsCheck
    ~> outcome \in {"invalid", "terminated", "ctxErr", "pumpErr"}
=============================================================================
