\* The late failure of a publication fails the next generation.
SPECIFICATION Spec
CONSTANTS
  N = 1
  Caps = {2}
  w1 = w1
  c1 = c1
  c2 = c2
  Workers = {w1}
  Clients = {c1, c2}
  MaxTasks = 1
  MaxGens = 2
  MaxCrashes = 0
  MaxErrors = 0
  MaxRepeats = 0
PROPERTIES PublishFailureIsOwn
CHECK_DEADLOCK FALSE
