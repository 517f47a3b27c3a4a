SPECIFICATION MCShowListSpec
CONSTANTS
  news = news
  sport = sport
  Categories <- MCCategories
  NoCategory = NoCategory
  PerPage = 2
  LayoutSize = 1
  FirstPosts <- MCFirstPosts
  MaxRequests = 4
  MaxPosts = 4
INVARIANT OldProductsCleared
