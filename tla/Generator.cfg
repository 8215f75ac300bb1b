\* Three requests through two slots, and Ctrl+C at any time.
SPECIFICATION FairSpec
CONSTANTS
  Kinds = {heavy, light}
  NoTask = NoTask
  Concurrency = 2
  MaxRequests = 3
INVARIANTS TypeOK InFlightBounded ReportComplete
PROPERTIES Reports
\* The program ends.
CHECK_DEADLOCK FALSE
