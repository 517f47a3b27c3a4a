SPECIFICATION Spec
CONSTANTS
  PageSize = 2
  Initial = 4
  Counts = {3, 4, 6}
  MaxUploads = 2
  MaxLoads = 4
INVARIANTS
  NoGaps
  RepeatsHaveCause
  StopsComplete
CHECK_DEADLOCK FALSE
