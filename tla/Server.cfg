\* One worker at a time, one click, one handler of /metrics, and one crash,
\* restart and fault each.
SPECIFICATION ServerSpec
CONSTANTS
  w1 = w1  a = a
  Workers = {w1}
  Tasks = {a}
  Malformed = {}
  Unknown = {}
  None = None
  SystemCap = 1
  MaxDowns = 0
  MaxCrashes = 1
  MaxRestarts = 1
  MaxFaults = 1
  MaxCompleted = 9
  ManualStarts = FALSE
  Clicks = {a}
  CpuStats <- MCCpuStats
  MemStats <- MCMemStats
  Word = 1000
  Gets = {g1}
INVARIANTS ServerTypeOK LoggedIsKept NoTornAnswer QueueWithinRequests CountIsLive
PROPERTIES NobodyWaits
