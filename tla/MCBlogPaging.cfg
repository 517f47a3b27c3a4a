SPECIFICATION ArticlesFairSpec
CONSTANTS
  news = news
  sport = sport
  Categories <- MCCategories
  NoCategory = NoCategory
  PerPage = 2
  LayoutSize = 1
  FirstPosts <- MCFirstPosts
  MaxRequests = 3
  MaxPosts = 5
INVARIANTS
  FetchingHasRequest
  NoArticleSkipped
  EndMeansAll
PROPERTIES
  IndicatorStops
