\* Two clients start, pause, resume, cancel and delete against one worker.
SPECIFICATION Spec
CONSTANTS
  N = 1
  Caps = {2}
  w1 = w1
  c1 = c1
  c2 = c2
  Workers = {w1}
  Clients = {c1, c2}
  MaxTasks = 2
  MaxGens = 2
  MaxCrashes = 1
  MaxErrors = 1
  MaxRepeats = 0
SYMMETRY Symmetry
INVARIANTS VerdictsAgree
PROPERTIES DecidedIsFinal
CHECK_DEADLOCK FALSE
