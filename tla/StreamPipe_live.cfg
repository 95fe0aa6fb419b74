\* Interrupted calls, failing copies, flushes and closes; calls may stop, so no deadlock check.
CONSTANTS
  p1 = p1
  p2 = p2
  p3 = p3
  e1 = e1
  e2 = e2
  Procs = {p1, p2, p3}
  Ends = {e1, e2}
  None = None
  Limit = 4
  LoLimit = 2
  Cap = 2
  DataWeight = 2
  DelimWeight = 1
  Holds <- EndOf
  CallsOf <- LiveCalls
  MaxBytes = 6
  MaxCount = 2
  Eager = {p2, p3}
  Signals = {p1, p2}
  Faults = TRUE
SPECIFICATION FairSpec
INVARIANTS CountIsInside
PROPERTIES PipeIsFifo WritesReturn HangupHeard
CHECK_DEADLOCK FALSE
