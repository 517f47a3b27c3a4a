----------------------------- MODULE BlogPaging -----------------------------
(***************************************************************************)
(* The article list of the app: the one BlogNewsModel every screen shares  *)
(* (models/blog_news.dart), the BlogsPage that shows it (screens/posts.dart)*)
(* with its pull-to-refresh BlogList (widgets/blog_news/blog_list.dart),   *)
(* and the requests to the WordPress server that are still unanswered.     *)
(*                                                                         *)
(* Dart runs one event at a time, so an action is the code between two     *)
(* awaits: a user gesture up to the http call, or the arrival of an answer.*)
(* Answers arrive in any order, each may fail, and a request outlives the  *)
(* page that made it.                                                      *)
(*                                                                         *)
(* The server numbers the articles of a category 1, 2, ... as they are     *)
(* published and lists the newest first, PerPage to a page, so a page is   *)
(* an interval of numbers that moves when an article is published.         *)
(***************************************************************************)
EXTENDS Integers, Sequences

CONSTANTS
  Categories,   \* category ids
  NoCategory,   \* newCategoryId when no BlogsPage is open
  PerPage,      \* articles in an answer of fetchBlogsByCategory (per_page=15)
  LayoutSize,   \* articles in an answer of fetchBlogLayout (per_page=10)
  FirstPosts,   \* FirstPosts[c]: articles category c has at the start
  MaxRequests,  \* bound: requests made in a behaviour
  MaxPosts      \* bound: articles the server publishes in one category

ASSUME PagingAssumption ==
  /\ NoCategory \notin Categories
  /\ PerPage \in Nat \ {0}
  /\ LayoutSize \in Nat \ {0}
  /\ FirstPosts \in [Categories -> Nat]
  /\ MaxRequests \in Nat
  /\ MaxPosts \in Nat

VARIABLES
  blogList, isFetching, isEnd,   \* BlogNewsModel
  newCategoryId, order,          \* _BlogsPageState: the open page, its sort order
  page, refreshing, loadingMore, \* _BlogListState: _page and the two pull indicators
  requests, made,                \* unanswered requests; how many were ever made
  posts,                         \* posts[c]: articles published in category c
  clean                          \* history: the open list was built without overlap or failure

modelVars == <<blogList, isFetching, isEnd>>
pageVars  == <<newCategoryId, order>>
listVars  == <<page, refreshing, loadingMore>>
netVars   == <<requests, made>>
articlesVars == <<modelVars, pageVars, listVars, netVars, posts, clean>>

Orders   == {"none", "asc", "desc"}
Articles == [cat : Categories, num : Nat \ {0}]
Requests == [id : Nat, cat : Categories, page : Nat \ {0}]

-----------------------------------------------------------------------------
(* What the server answers: the interval of article numbers on a page.     *)

Newest(c, top, n) ==
  [i \in 1 .. (IF top < n THEN (IF top < 0 THEN 0 ELSE top) ELSE n) |->
     [cat |-> c, num |-> top - i + 1]]

PageOf(c, p) == Newest(c, posts[c] - (p - 1) * PerPage, PerPage)

-----------------------------------------------------------------------------
(* BlogNewsModel.getBlogsList up to its await.  Neither the sort order nor  *)
(* the price range it is given reaches the request.                         *)

GetBlogsList(c, p) ==
  /\ made < MaxRequests
  /\ isFetching' = TRUE
  /\ isEnd' = FALSE
  /\ requests' = requests \cup {[id |-> made, cat |-> c, page |-> p]}
  /\ made' = made + 1

(* BlogNews.showList of a category from a menu or a card: the old list is   *)
(* cleared, page 1 requested and a new BlogsPage pushed.                    *)
ShowList(c) ==
  /\ newCategoryId = NoCategory
  /\ blogList' = <<>>
  /\ GetBlogsList(c, 1)
  /\ newCategoryId' = c
  /\ order' = "none"
  /\ page' = 1
  /\ refreshing' = FALSE
  /\ loadingMore' = FALSE
  /\ clean' = (requests = {})
  /\ UNCHANGED posts

(* BlogNews.showList with the blogs a home layout already fetched, when the *)
(* category had `top` articles: shown at once, nothing is requested.        *)
ShowCachedList(c, top) ==
  /\ newCategoryId = NoCategory
  /\ blogList' = Newest(c, top, LayoutSize)
  /\ isFetching' = FALSE
  /\ isEnd' = FALSE
  /\ newCategoryId' = c
  /\ order' = "none"
  /\ page' = 1
  /\ refreshing' = FALSE
  /\ loadingMore' = FALSE
  /\ clean' = FALSE
  /\ UNCHANGED <<netVars, posts>>

(* The back arrow pops the BlogsPage; what it requested stays in flight.    *)
ClosePage ==
  /\ newCategoryId # NoCategory
  /\ newCategoryId' = NoCategory
  /\ order' = "none"
  /\ page' = 1
  /\ refreshing' = FALSE
  /\ loadingMore' = FALSE
  /\ clean' = FALSE
  /\ UNCHANGED <<modelVars, netVars, posts>>

(* _BlogsPageState.onFilter: the _page of the BlogList below is kept.       *)
OnFilter(c) ==
  /\ newCategoryId # NoCategory
  /\ newCategoryId' = c
  /\ blogList' = <<>>
  /\ GetBlogsList(c, 1)
  /\ clean' = (requests = {} /\ page = 1)
  /\ UNCHANGED <<order, listVars, posts>>

(* _BlogsPageState.onSort: page 1 again, the list and _page are kept.       *)
OnSort(o) ==
  /\ newCategoryId # NoCategory
  /\ order' = o
  /\ GetBlogsList(newCategoryId, 1)
  /\ clean' = (requests = {} /\ page = 1)
  /\ UNCHANGED <<blogList, newCategoryId, listVars, posts>>

-----------------------------------------------------------------------------
(* The gestures of the BlogList: it offers them while it shows articles or, *)
(* during a fetch, the placeholders.                                        *)

ShowsList == newCategoryId # NoCategory /\ (blogList # <<>> \/ isFetching)

(* Mutant: the page count is not set back.                                   *)
MutOnRefresh ==
  /\ GetBlogsList(newCategoryId, 1)
  /\ clean' = (requests = {})
  /\ UNCHANGED page

(* _BlogListState._onRefresh past its guard, with BlogsPage.onRefresh, whose *)
(* guard widget.config == null holds of every page: the pages that           *)
(* showList builds (models/blog_news.dart) have no configuration.            *)
OnRefresh ==
  /\ page' = 1
  /\ GetBlogsList(newCategoryId, 1)
  /\ clean' = (requests = {})

(* Mutant: a pull starts a fetch during another.                             *)
MutMayLoad == ~isEnd

(* The guard of _BlogListState._onLoading.                                  *)
MayLoad == ~isFetching /\ ~isEnd

(* _BlogListState._onLoading past its guard, with BlogsPage.onLoadMore.     *)
OnLoading ==
  /\ page' = page + 1
  /\ GetBlogsList(newCategoryId, page + 1)
  /\ UNCHANGED clean

PullDown ==
  /\ ShowsList
  /\ ~refreshing
  /\ refreshing' = TRUE
  /\ \/ ~isFetching /\ OnRefresh
     \/ isFetching /\ UNCHANGED <<page, isFetching, isEnd, netVars, clean>>
  /\ UNCHANGED <<blogList, pageVars, loadingMore, posts>>

PullUp ==
  /\ ShowsList
  /\ ~isEnd                       \* enablePullUp
  /\ ~loadingMore
  /\ loadingMore' = TRUE
  /\ \/ MayLoad /\ OnLoading
     \/ ~MayLoad /\ UNCHANGED <<page, isFetching, isEnd, netVars, clean>>
  /\ UNCHANGED <<blogList, pageVars, refreshing, posts>>

-----------------------------------------------------------------------------
(* The answer to a request: getBlogsList after its await, and the rebuild   *)
(* in which _BlogListState.didUpdateWidget sees isFetching go down.         *)

(* Mutant: the load indicator does not hear of the end.                      *)
MutDidUpdateWidget ==
  /\ refreshing' = (refreshing /\ ~isFetching)
  /\ UNCHANGED loadingMore

DidUpdateWidget ==
  /\ refreshing' = (refreshing /\ ~isFetching)
  /\ loadingMore' = (loadingMore /\ ~isFetching)

Answered(r) ==
  /\ requests' = requests \ {r}
  /\ DidUpdateWidget
  /\ UNCHANGED <<pageVars, page, made, posts>>

AnswerBlogs(r) ==
  LET blogs == PageOf(r.cat, r.page) IN
  /\ Answered(r)
  /\ isEnd' = (isEnd \/ blogs = <<>>)
  /\ blogList' = IF r.page = 1 THEN blogs ELSE blogList \o blogs
  /\ isFetching' = FALSE
  /\ UNCHANGED clean

(* Mutant: a failure leaves isFetching up.                                   *)
MutAnswerError(r) ==
  /\ Answered(r)
  /\ clean' = FALSE
  /\ UNCHANGED modelVars

(* The catch clause: no connection, or an answer that is not a list, which  *)
(* is what WordPress sends for a page past the last one.                    *)
AnswerError(r) ==
  /\ Answered(r)
  /\ isFetching' = FALSE
  /\ clean' = FALSE
  /\ UNCHANGED <<blogList, isEnd>>

(* The newsroom publishes an article.                                       *)
Publish(c) ==
  /\ posts[c] < MaxPosts
  /\ posts' = [posts EXCEPT ![c] = @ + 1]
  /\ UNCHANGED <<modelVars, pageVars, listVars, netVars, clean>>

-----------------------------------------------------------------------------
ArticlesInit ==
  /\ blogList = <<>>
  /\ isFetching = FALSE
  /\ isEnd = FALSE
  /\ newCategoryId = NoCategory
  /\ order = "none"
  /\ page = 1
  /\ refreshing = FALSE
  /\ loadingMore = FALSE
  /\ requests = {}
  /\ made = 0
  /\ posts = FirstPosts
  /\ clean = FALSE

ArticlesNext ==
  \/ \E c \in Categories : ShowList(c)
  \/ \E c \in Categories : \E top \in FirstPosts[c] .. posts[c] : ShowCachedList(c, top)
  \/ ClosePage
  \/ \E c \in Categories : OnFilter(c)
  \/ \E o \in {"asc", "desc"} : OnSort(o)
  \/ PullDown
  \/ PullUp
  \/ \E r \in requests : AnswerBlogs(r)
  \/ \E r \in requests : AnswerError(r)
  \/ \E c \in Categories : Publish(c)

(* Every request is answered in the end, if only by a connection error; the *)
(* user and the newsroom owe nothing.                                       *)
ArticlesFairness == WF_articlesVars(\E r \in requests : AnswerBlogs(r) \/ AnswerError(r))

ArticlesSpec == ArticlesInit /\ [][ArticlesNext]_articlesVars
ArticlesFairSpec == ArticlesSpec /\ ArticlesFairness

-----------------------------------------------------------------------------
ArticlesTypeOK ==
  /\ blogList \in Seq(Articles)
  /\ isFetching \in BOOLEAN
  /\ isEnd \in BOOLEAN
  /\ newCategoryId \in Categories \cup {NoCategory}
  /\ order \in Orders
  /\ page \in Nat \ {0}
  /\ refreshing \in BOOLEAN
  /\ loadingMore \in BOOLEAN
  /\ requests \subseteq Requests
  /\ made \in Nat
  /\ posts \in [Categories -> Nat]
  /\ clean \in BOOLEAN

(* The list says it is fetching only while some request is unanswered, so   *)
(* a pull indicator or the placeholders never wait for nothing, whatever    *)
(* pages were opened, filtered or left and whatever failed meanwhile.       *)
FetchingHasRequest == isFetching => requests # {}

(* A pull indicator turns only during a fetch, the one its completion in    *)
(* didUpdateWidget is tied to.                                              *)
IndicatorHasFetch == (refreshing \/ loadingMore) => isFetching

(* A list that was opened or refreshed with nothing else in flight, and met *)
(* no failure since, skips no article: going down the list, the next one is *)
(* of the same category and at most one older, even when publishing shifts  *)
(* the pages between two requests.                                          *)
NoArticleSkipped ==
  clean /\ ~isFetching =>
    /\ \A i \in 1 .. Len(blogList) : blogList[i].cat = newCategoryId
    /\ \A i \in 1 .. Len(blogList) - 1 : blogList[i + 1].num >= blogList[i].num - 1

(* On such a list "no more pages" is said only when the oldest article of   *)
(* the category is on display (or the category was empty).                  *)
EndMeansAll ==
  clean /\ isEnd /\ blogList # <<>> => blogList[Len(blogList)].num = 1

(* blog_news.dart:204 clears the list "//clear old products" as showList     *)
(* opens a category: while a category is on display, no article of another  *)
(* one is.  onFilter clears it in the same way (posts.dart:73).              *)
OldProductsCleared ==
  newCategoryId # NoCategory =>
    \A i \in 1 .. Len(blogList) : blogList[i].cat = newCategoryId

(* The placeholders and the pull indicators always go away: every fetch     *)
(* ends, by an answer or an error.                                          *)
IndicatorStops ==
  (isFetching \/ refreshing \/ loadingMore) ~> ~(isFetching \/ refreshing \/ loadingMore)
=============================================================================
