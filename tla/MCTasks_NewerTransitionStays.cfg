\* The commit of one transition is refused while the next one goes through.
SPECIFICATION Spec
CONSTANTS
  Parts = {"import"}
  Kinds = {}
  NUnits = 1
  BusinessFaults = {}
  MaxBusinessFaults = 0
  ImportFaults = {"commit"}
  MaxImportFaults = 1
  w1 = w1
  c1 = c1
  Workers = {w1}
  Clients = {c1}
  MaxGens = 2
PROPERTIES NewerTransitionStays
CHECK_DEADLOCK FALSE
