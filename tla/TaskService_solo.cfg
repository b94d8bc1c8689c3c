\* The command line: parallel workers, crashes, exceptions, pauses, resumes, no canceller.
SPECIFICATION Spec
CONSTANTS
  N = 3
  MaxWorkers = 2
  WaitOnCancel = FALSE
  Cancellers = {}
  LocalCancellers = {}
  MaxRuns = 4
  MaxCleans = 0
  MaxCrashes = 2
INVARIANTS LaunchedIsOnFile BoundedConcurrency
PROPERTIES OutcomesAreKept EventsAppendOnly ImplementsLedger
CHECK_DEADLOCK FALSE
