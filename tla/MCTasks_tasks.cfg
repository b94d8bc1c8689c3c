\* A pause, a resume, a cancellation against two workers and two faults of any
\* kind, for the three business tasks and for an import; fair workers and calls.
SPECIFICATION FairSpec
CONSTANTS
  Parts = {"business", "import"}
  Kinds = {"experiment", "benchmark", "ab_test"}
  NUnits = 2
  BusinessFaults = {"crash", "error", "repeat", "restart"}
  MaxBusinessFaults = 2
  ImportFaults = {"crash", "error", "repeat", "timeout", "commit"}
  MaxImportFaults = 1
  w1 = w1
  w2 = w2
  c1 = c1
  Workers = {w1, w2}
  Clients = {c1}
  MaxGens = 2
INVARIANTS TypeOK OneExecutor RowAgrees DatasetFollowsVerdict
PROPERTIES PauseIsConfirmed VerdictReachesTask
CHECK_DEADLOCK FALSE
