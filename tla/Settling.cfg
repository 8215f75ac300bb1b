\* Requests cease: the fleet shrinks to one worker, in spite of a failing read.
SPECIFICATION FairSpec
CONSTANTS
  Cpus = 2
  HostMemoryMB = 700
  CpuLevels = {50}
  MemLevels = {2}
  Word = 1000
  Bursts = {6}
  MaxRequests = 6
  MaxPeriods = 1
  MaxDeaths = 1
  MaxRestarts = 0
  MaxFaults = 1
PROPERTIES Settles
