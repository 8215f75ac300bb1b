\* The numbers the autoscaler sees and what it decides, with every failure.
SPECIFICATION Spec
CONSTANTS
  Cpus = 2
  HostMemoryMB = 700
  CpuLevels = {0, 50}
  MemLevels = {2, 80}
  Word = 1000
  Bursts = {6}
  MaxRequests = 6
  MaxPeriods = 1
  MaxDeaths = 1
  MaxRestarts = 1
  MaxFaults = 1
INVARIANTS TypeOK DecisionAllowed HostNotOvercommitted BacklogCovered CalmAddsNone ClientsClosed
