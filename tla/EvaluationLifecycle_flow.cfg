\* Two workers, a message delivered twice, a crash, an exception.
SPECIFICATION Spec
CONSTANTS
  N = 2
  Caps = {1, 3}
  w1 = w1
  w2 = w2
  c1 = c1
  Workers = {w1, w2}
  Clients = {c1}
  MaxTasks = 1
  MaxGens = 2
  MaxCrashes = 1
  MaxErrors = 1
  MaxRepeats = 1
SYMMETRY Symmetry
INVARIANTS TypeOK ExecutorIsCurrent ChargedOnce CompletedIsWhole AtMostOneLateCall CapHolds
CHECK_DEADLOCK FALSE
