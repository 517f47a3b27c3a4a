---------------------------- MODULE MCBlogPaging ----------------------------
(* Instances of BlogPaging for TLC.  Two categories, one with more than two *)
(* pages and one with less than a page, and a page longer than the home     *)
(* layout's list, as in the app (15 and 10).                                *)
EXTENDS BlogPaging

CONSTANTS news, sport

MCCategories == {news, sport}
MCFirstPosts == [c \in MCCategories |-> IF c = news THEN 4 ELSE 1]

(* The articles read without the filter, the sort order or a cached layout:  *)
(* pages are opened by showList, pulled and left.                            *)
OpenedByShowList ==
  \/ \E c \in Categories : ShowList(c)
  \/ ClosePage
  \/ PullDown
  \/ PullUp
  \/ \E r \in requests : AnswerBlogs(r)
  \/ \E r \in requests : AnswerError(r)
  \/ \E c \in Categories : Publish(c)

MCShowListSpec == ArticlesInit /\ [][OpenedByShowList]_articlesVars
=============================================================================
