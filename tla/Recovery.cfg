\* Liveness through every kind of failure, one task.
SPECIFICATION FairSpec
CONSTANTS
  w1 = w1  w2 = w2  w3 = w3  a = a  b = b  bad = bad
  Workers = {w1, w2}
  Tasks = {a}
  Malformed = {}
  Unknown = {}
  None = None
  SystemCap = 2
  MaxDowns = 1
  MaxCrashes = 1
  MaxRestarts = 1
  MaxFaults = 1
  MaxCompleted = 9
  ManualStarts = FALSE
PROPERTIES TickEnds TempDrains Served OrphansRecovered
