SPECIFICATION FairSpec
CONSTANTS
  t1 = t1
  t2 = t2
  Targets = {t1, t2}
  NoTarget = NoTarget
  MaxWatchStreamFailures = 1
  MaxListens = 3
  MaxInFlight = 3
  MaxFaults = 2
CHECK_DEADLOCK FALSE
INVARIANT CountsMatch
INVARIANT ServerFollows
INVARIANT OnlineTruth
PROPERTY AskedIsAnswered
