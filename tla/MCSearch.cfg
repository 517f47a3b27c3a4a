SPECIFICATION SearchFairSpec
CONSTANTS
  v = v
  w = w
  Words <- MCWords
  Screens = {"tab", "page"}
  NoText = NoText
  MaxSearches = 2
INVARIANTS
  ShowsOwnBlogs
  RecentFirst
PROPERTIES
  LoadingEnds
