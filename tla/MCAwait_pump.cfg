\* Any pump or none, a watchdog, with and without a deadline, and a Close by
\* the pump or by another goroutine between any two steps.
CONSTANTS
  Jobs = {"none", "fulfil", "reject", "loop"}
  Pumps = {{}, {"idle", "fulfil", "enqueue", "close", "error"}}
  Deadlines = {TRUE, FALSE}
  HasWatchdog = TRUE
  OthersClose = TRUE
SPECIFICATION AwaitFairSpec
CHECK_DEADLOCK FALSE
INVARIANTS
  AwaitTypeOK
  OutcomeIsJustified
  CancelRestoresExecution
PROPERTIES
  DeadlineEndsAwait
  CloseFailsAwait
