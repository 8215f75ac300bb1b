\* Every kind of failure, and workers an operator starts by hand.
SPECIFICATION Spec
CONSTANTS
  w1 = w1  w2 = w2  w3 = w3  a = a  b = b  bad = bad
  Workers = {w1, w2}
  Tasks = {a, bad}
  Malformed = {bad}
  Unknown = {}
  None = None
  SystemCap = 2
  MaxDowns = 1
  MaxCrashes = 1
  MaxRestarts = 1
  MaxFaults = 1
  MaxCompleted = 2
  ManualStarts = TRUE
SYMMETRY WorkerSymmetry
INVARIANTS TypeOK Accounted
