\* The watchdog fires while the host stops it, cancels and goes on.
CONSTANTS
  Jobs = {"none"}
  Pumps = {{}}
  Deadlines = {FALSE}
  HasWatchdog = TRUE
  OthersClose = FALSE
SPECIFICATION AwaitSpec
CHECK_DEADLOCK FALSE
INVARIANTS
  ReuseAfterCancel
