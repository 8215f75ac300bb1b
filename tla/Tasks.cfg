\* Calls with values of both signs; three cores,
\* ints of 8 bits beside the sign.
SPECIFICATION FairSpec
CONSTANTS
  Values <- MCValues
  Width = 8
  NumCPU = 3
INVARIANTS TypeOK NthPrimeReturned PowerOfTwoTold CountIsExact BurnsThenStops
PROPERTIES Returns
\* A call returns once.
CHECK_DEADLOCK FALSE
