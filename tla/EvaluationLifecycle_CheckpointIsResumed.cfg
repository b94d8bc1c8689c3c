\* A worker lost right after create leaves a checkpoint no worker accepts.
SPECIFICATION Spec
CONSTANTS
  N = 1
  Caps = {2}
  w1 = w1
  c1 = c1
  Workers = {w1}
  Clients = {c1}
  MaxTasks = 1
  MaxGens = 1
  MaxCrashes = 1
  MaxErrors = 0
  MaxRepeats = 0
PROPERTIES CheckpointIsResumed
CHECK_DEADLOCK FALSE
