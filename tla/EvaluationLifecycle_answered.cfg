\* Every message is answered; fair clients and workers.
SPECIFICATION FairSpec
CONSTANTS
  N = 1
  Caps = {2}
  w1 = w1
  w2 = w2
  c1 = c1
  Workers = {w1, w2}
  Clients = {c1}
  MaxTasks = 1
  MaxGens = 2
  MaxCrashes = 1
  MaxErrors = 0
  MaxRepeats = 1
PROPERTIES MessagesAreAnswered
CHECK_DEADLOCK FALSE
