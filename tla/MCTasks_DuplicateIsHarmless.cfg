\* A child process of a repeated delivery dies beside the delivery that holds the claim.
SPECIFICATION Spec
CONSTANTS
  Parts = {"business"}
  Kinds = {"ab_test"}
  NUnits = 1
  BusinessFaults = {"repeat", "crash"}
  MaxBusinessFaults = 2
  ImportFaults = {}
  MaxImportFaults = 0
  w1 = w1
  w2 = w2
  c1 = c1
  Workers = {w1, w2}
  Clients = {c1}
  MaxGens = 1
PROPERTIES DuplicateIsHarmless
CHECK_DEADLOCK FALSE
