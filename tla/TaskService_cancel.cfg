\* A request to cancel from the runner's process, a file deleted under a run, a
\* crash and a second run; the runner and its calls are fair.
SPECIFICATION FairSpec
CONSTANTS
  N = 2
  MaxWorkers = 2
  WaitOnCancel = TRUE
  c1 = c1
  Cancellers = {c1}
  LocalCancellers = {c1}
  MaxRuns = 3
  MaxCleans = 1
  MaxCrashes = 1
INVARIANTS TypeOK VerdictMatchesUnits ProgressIsExact AtMostOneLateUnit
PROPERTIES RunReturns
CHECK_DEADLOCK FALSE
