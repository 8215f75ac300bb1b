\* One sweep beside one worker: no scale-down, crash or fault.
SPECIFICATION Spec
CONSTANTS
  w1 = w1  w2 = w2  w3 = w3  a = a  b = b  bad = bad
  Workers = {w1, w2}
  Tasks = {a, b}
  Malformed = {}
  Unknown = {}
  None = None
  SystemCap = 2
  MaxDowns = 0
  MaxCrashes = 0
  MaxRestarts = 0
  MaxFaults = 0
  MaxCompleted = 9
  ManualStarts = FALSE
SYMMETRY WorkerSymmetry
INVARIANTS CleanupRemoves
