\* GetRequestCount fails once.
SPECIFICATION Spec
CONSTANTS
  Cpus = 2
  HostMemoryMB = 700
  CpuLevels = {0, 50}
  MemLevels = {2}
  Word = 1000
  Bursts = {1}
  MaxRequests = 6
  MaxPeriods = 1
  MaxDeaths = 0
  MaxRestarts = 0
  MaxFaults = 1
INVARIANTS NoUnnecessaryScaling
