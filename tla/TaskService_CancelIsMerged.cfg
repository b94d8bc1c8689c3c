\* A request to cancel from another process crosses a save of the runner.
SPECIFICATION Spec
CONSTANTS
  N = 2
  MaxWorkers = 1
  WaitOnCancel = TRUE
  c1 = c1
  Cancellers = {c1}
  LocalCancellers = {}
  MaxRuns = 2
  MaxCleans = 0
  MaxCrashes = 0
PROPERTIES CancelIsMerged
CHECK_DEADLOCK FALSE
