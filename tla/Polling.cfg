\* Two outages of the master and one failing read of Redis.
SPECIFICATION Spec
CONSTANTS
  Total = 1
  Latency = 2
  MaxRequests = 1
  MaxOutages = 2
  MaxFaults = 1
INVARIANTS TypeOK FreshWhileOnline StatusTracksMaster
