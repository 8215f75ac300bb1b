\* Every kind of failure; one worker more than may run at a time.
SPECIFICATION Spec
CONSTANTS
  w1 = w1  w2 = w2  w3 = w3  a = a  b = b  bad = bad
  Workers = {w1, w2, w3}
  Tasks = {a, b}
  Malformed = {}
  Unknown = {}
  None = None
  SystemCap = 2
  MaxDowns = 1
  MaxCrashes = 1
  MaxRestarts = 1
  MaxFaults = 1
  MaxCompleted = 9
  ManualStarts = FALSE
SYMMETRY WorkerSymmetry
INVARIANTS CrashSafe ExclusiveExecution FleetWithinCap SweepComplete StopsExactly DecisionReached ExactlyOnceWhenCalm
PROPERTIES KeepsLedger
