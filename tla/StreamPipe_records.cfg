\* Records and files through a pipe; calls may stop, so no deadlock check.
CONSTANTS
  p1 = p1
  p2 = p2
  p3 = p3
  e1 = e1
  e2 = e2
  Procs = {p1, p2}
  Ends = {e1, e2}
  None = None
  Limit = 4
  LoLimit = 2
  Cap = 2
  DataWeight = 2
  DelimWeight = 1
  Holds <- EndOf
  CallsOf <- RecordCalls
  MaxBytes = 6
  MaxCount = 2
  Eager = {p2}
  Signals = {}
  Faults = FALSE
SPECIFICATION Spec
INVARIANTS TypeOK RecordsKept QueueBounded WritersWillWake ReadersWillWake
CHECK_DEADLOCK FALSE
