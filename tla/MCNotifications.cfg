SPECIFICATION Spec
CONSTANTS
  x = x
  y = y
  Ids <- MCIds
  NoValue = NoValue
  Titled = {TRUE, FALSE}
  MaxArrivals = 3
  MaxSaves = 1
SYMMETRY MCSymmetry
INVARIANTS
  NewestFirst
  PushesKept
  RemovesTheSwiped
