SPECIFICATION FairSpec
CONSTANTS
  MaxWrites = 3
  MaxReads = 2
INVARIANTS
  OneAtATime
  NothingDangles
PROPERTIES
  KeepsPromise
  NeverStuck
  FailureNoticed
CHECK_DEADLOCK FALSE
