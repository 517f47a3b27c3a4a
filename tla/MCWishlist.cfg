SPECIFICATION WishlistSpec
CONSTANTS
  a1 = a1
  a2 = a2
  a3 = a3
  Articles <- MCArticles
  Keys <- MCKeys
  Nothing = Nothing
  MaxWrites = 3
INVARIANTS
  WishlistTypeOK
  BookmarksKept
PROPERTY KeepsPromise
