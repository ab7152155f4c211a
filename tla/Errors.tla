------------------------------- MODULE Errors -------------------------------
(***************************************************************************)
(* How a JavaScript exception reaches Go: ExceptionError turns it into     *)
(* C strings, newJSError into a *JSError, observeJSError counts it and     *)
(* calls the exception hook; and how V8's promise rejections are counted.  *)
(*                                                                         *)
(* Calls nest: a script calls a host function, a hook is host code as      *)
(* well, and either may run another script.  The text of an exception is   *)
(* abstracted to whether it is empty, which is all that CopyString asks.   *)
(***************************************************************************)
EXTENDS Naturals, Sequences, SequencesExt, FiniteSets

CONSTANTS Promises,  \* promises that scripts reject
          MaxDepth,  \* bound: frames on the stack
          MaxCalls,  \* bound: calls that run JavaScript
          MaxEvents  \* bound: promise events that V8 reports

ASSUME ErrorConstants == MaxDepth \in Nat /\ MaxCalls \in Nat /\ MaxEvents \in Nat

VARIABLES
  frames,          \* what is running, innermost last
  calls,           \* calls made so far
  failures,        \* calls that ended with a JavaScript exception
  jsErrors,        \* calls whose exception became a *JSError
  reported,        \* reporting calls that returned a *JSError
  exceptions,      \* i.exceptions
  rejections,      \* i.unhandledPromiseRejections
  exceptionHook,   \* i.exceptionHook is set
  rejectionHook,   \* i.unhandledPromiseRejectionHook is set
  promises         \* what the scripts did with each promise

evars == <<frames, calls, failures, jsErrors, reported, exceptions, rejections,
           exceptionHook, rejectionHook, promises>>
ended == <<failures, jsErrors, reported>>
hooks == <<exceptionHook, rejectionHook>>

\* "reporting": RunScript, Evaluate, Call, Get and the other calls that end in
\* valueResult or observeJSError.  "silent": Set, SetIdx, StringValue,
\* JSONStringify, Bytes, Resolve, Reject, which end in newJSError alone.
Scripts == {"reporting", "silent"}
HostCode == {"callback", "exceptionHook", "rejectionHook"}
Reading == {"readException", "readRejection"}   \* i.obMu is read-locked
Frames == Scripts \cup HostCode \cup Reading \cup {"noteException", "noteRejection"}

ErrorsTypeOK ==
  /\ frames \in Seq(Frames) /\ Len(frames) <= MaxDepth
  /\ {calls, failures, jsErrors, reported, exceptions, rejections} \subseteq Nat
  /\ exceptionHook \in BOOLEAN /\ rejectionHook \in BOOLEAN
  /\ promises \in [Promises -> {"new", "rejected", "handled", "resolved"}]

ErrorsInit ==
  /\ frames = <<>>
  /\ calls = 0
  /\ failures = 0 /\ jsErrors = 0 /\ reported = 0
  /\ exceptions = 0 /\ rejections = 0
  /\ exceptionHook = FALSE /\ rejectionHook = FALSE
  /\ promises = [p \in Promises |-> "new"]

----------------------------------------------------------------------------
(* The stack.                                                              *)

Top == IF frames = <<>> THEN "host" ELSE Last(frames)
Push(f) == Len(frames) < MaxDepth /\ frames' = Append(frames, f)
Pop == frames' = Front(frames)
Replace(f) == frames' = Append(Front(frames), f)

----------------------------------------------------------------------------
(* Calls and their results.                                                *)

\* Host code, at the top level, in a host function or in a hook.
CallJavaScript ==
  /\ Top \in HostCode \cup {"host"}
  /\ calls < MaxCalls
  /\ calls' = calls + 1
  /\ \E s \in Scripts : Push(s)
  /\ UNCHANGED <<ended, exceptions, rejections, hooks, promises>>

CallHostFunction ==
  /\ Top \in Scripts
  /\ Push("callback")
  /\ UNCHANGED <<calls, ended, exceptions, rejections, hooks, promises>>

HostFunctionReturns ==
  /\ Top = "callback"
  /\ Pop
  /\ UNCHANGED <<calls, ended, exceptions, rejections, hooks, promises>>

ScriptReturns ==
  /\ Top \in Scripts
  /\ Pop
  /\ UNCHANGED <<calls, ended, exceptions, rejections, hooks, promises>>

\* CopyString(Utf8Value) is a null pointer for the empty string, and also
\* for a symbol, which has no string form.
CopyString(text) == IF text = "empty" THEN "nil" ELSE text

\* newJSError: no message, no error.
newJSError(msg) == IF msg = "nil" THEN "nil" ELSE "JSError"

\* An observeJSError that counts what is not an error too.
ScriptThrowsCountsNil ==
  /\ Top \in Scripts
  /\ failures' = failures + 1
  /\ \E text \in {"empty", "some"} :
       LET err == newJSError(CopyString(text))
       IN /\ jsErrors' = IF err = "nil" THEN jsErrors ELSE jsErrors + 1
          /\ IF err = "nil" \/ Top = "silent" THEN Pop ELSE Replace("noteException")
          /\ exceptions' = IF Top = "silent" THEN exceptions ELSE exceptions + 1
  /\ UNCHANGED <<calls, reported, rejections, hooks, promises>>

\* The script ends with an exception: ExceptionError, newJSError, and for a
\* reporting call i.exceptions, then the hook.
ScriptThrows ==
  /\ Top \in Scripts
  /\ failures' = failures + 1
  /\ \E text \in {"empty", "some"} :
       LET err == newJSError(CopyString(text))
       IN /\ jsErrors' = IF err = "nil" THEN jsErrors ELSE jsErrors + 1
          /\ IF err = "nil" \/ Top = "silent"
             THEN Pop /\ UNCHANGED exceptions
             ELSE /\ Replace("noteException")
                  /\ exceptions' = exceptions + 1
  /\ UNCHANGED <<calls, reported, rejections, hooks, promises>>

\* The failed call returns its error.
ReturnError == Pop /\ reported' = reported + 1

\* noteException has counted and takes i.obMu to read the hook.
NoteException ==
  /\ Top = "noteException"
  /\ Replace("readException")
  /\ UNCHANGED <<calls, ended, exceptions, rejections, hooks, promises>>

\* It reads the hook, gives i.obMu back, and calls the hook if it was set.
ReadExceptionHook ==
  /\ Top = "readException"
  /\ IF exceptionHook
     THEN Replace("exceptionHook") /\ UNCHANGED reported
     ELSE ReturnError
  /\ UNCHANGED <<calls, failures, jsErrors, exceptions, rejections, hooks, promises>>

\* The exception hook returns, and with it the call that failed.
ExceptionHookReturns ==
  /\ Top = "exceptionHook"
  /\ ReturnError
  /\ UNCHANGED <<calls, failures, jsErrors, exceptions, rejections, hooks, promises>>

----------------------------------------------------------------------------
(* Promise rejections.  V8 reports four events and                         *)
(* gv8PromiseRejectCallback counts each of them.                           *)

Event(p, to) ==
  /\ Top \in Scripts
  /\ rejections < MaxEvents
  /\ promises' = [promises EXCEPT ![p] = to]
  /\ rejections' = rejections + 1
  /\ Push("noteRejection")
  /\ UNCHANGED <<calls, ended, exceptions, hooks>>

\* PromiseRejectWithNoHandler.
RejectWithNoHandler ==
  \E p \in Promises : promises[p] = "new" /\ Event(p, "rejected")

\* PromiseHandlerAddedAfterReject: the rejection is handled after all.
HandlerAddedAfterReject ==
  \E p \in Promises : promises[p] = "rejected" /\ Event(p, "handled")

\* A promise is resolved, or rejected with a handler, which V8 does not report.
Resolved ==
  /\ Top \in Scripts
  /\ \E p \in Promises : promises[p] = "new"
                         /\ promises' = [promises EXCEPT ![p] = "resolved"]
  /\ UNCHANGED <<frames, calls, ended, exceptions, rejections, hooks>>

\* PromiseRejectAfterResolved and PromiseResolveAfterResolved: the executor
\* settles a promise again, however it was settled and however often.
SettledAgain ==
  \E p \in Promises : promises[p] # "new" /\ Event(p, promises[p])

\* noteUnhandledPromiseRejection takes i.obMu to read the hook.
NoteRejection ==
  /\ Top = "noteRejection"
  /\ Replace("readRejection")
  /\ UNCHANGED <<calls, ended, exceptions, rejections, hooks, promises>>

\* A deferred RUnlock: the hook runs with i.obMu still read-locked.
ReadRejectionHookDeferred ==
  /\ Top = "readRejection"
  /\ IF rejectionHook THEN Push("rejectionHook") ELSE Pop
  /\ UNCHANGED <<calls, ended, exceptions, rejections, hooks, promises>>

\* It gives i.obMu back and calls the hook, or goes back into the script.
ReadRejectionHook ==
  /\ Top = "readRejection"
  /\ IF rejectionHook THEN Replace("rejectionHook") ELSE Pop
  /\ UNCHANGED <<calls, ended, exceptions, rejections, hooks, promises>>

RejectionHookReturns ==
  /\ Top = "rejectionHook"
  /\ Pop
  /\ UNCHANGED <<calls, ended, exceptions, rejections, hooks, promises>>

\* Nobody on the stack holds i.obMu.
ObMuFree == \A i \in 1..Len(frames) : frames[i] \notin Reading

\* SetExceptionHandler and SetUnhandledPromiseRejectionHandler, by any
\* goroutine, also from inside a hook: i.obMu.Lock waits for the reader.
SetExceptionHandler ==
  /\ ObMuFree
  /\ \E h \in BOOLEAN : exceptionHook' = h
  /\ UNCHANGED <<frames, calls, ended, exceptions, rejections, rejectionHook,
                 promises>>

SetUnhandledPromiseRejectionHandler ==
  /\ ObMuFree
  /\ \E h \in BOOLEAN : rejectionHook' = h
  /\ UNCHANGED <<frames, calls, ended, exceptions, rejections, exceptionHook,
                 promises>>

----------------------------------------------------------------------------
ErrorsNext ==
  \/ CallJavaScript \/ CallHostFunction \/ HostFunctionReturns
  \/ ScriptReturns \/ ScriptThrows
  \/ NoteException \/ ReadExceptionHook \/ ExceptionHookReturns
  \/ RejectWithNoHandler \/ HandlerAddedAfterReject \/ Resolved \/ SettledAgain
  \/ NoteRejection \/ ReadRejectionHook \/ RejectionHookReturns
  \/ SetExceptionHandler \/ SetUnhandledPromiseRejectionHandler

ErrorsSpec == ErrorsInit /\ [][ErrorsNext]_evars

----------------------------------------------------------------------------
(* Properties.                                                             *)

\* How many frames of these kinds are on the stack.
Count(kinds) == Cardinality({i \in 1..Len(frames) : frames[i] \in kinds})

\* TestObservabilitySnapshotCountsAreExact: i.exceptions is the number of
\* JSErrors that reporting calls returned, or will once the hooks on the stack
\* return, however calls, host functions and hooks nest.  A silent call and a
\* nil error add nothing.
ExceptionCountIsExact ==
  exceptions = reported + Count({"noteException", "readException", "exceptionHook"})

\* README: "JavaScript exceptions are returned as `JSError`."
ExceptionsAreJSErrors == failures = jsErrors

\* A hook or a host function that calls SetExceptionHandler or
\* SetUnhandledPromiseRejectionHandler does not wait for a lock its own
\* goroutine holds, and neither does another goroutine that calls them while the
\* hook runs: noteException and noteUnhandledPromiseRejection gave i.obMu back
\* before the hook, however deep scripts, host functions and hooks nest.
HooksRunUnlocked == Top \in HostCode => ObMuFree
=============================================================================
