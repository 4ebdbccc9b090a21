SPECIFICATION FairSpec
CONSTANTS
  Tests <- AllTests
  Count = 2
  Limit = 3
  Tries = 1
  Lag = 1
INVARIANTS
  FailsOnlyOnFault
  Rendezvous
PROPERTIES
  TestsEnd
CHECK_DEADLOCK FALSE
