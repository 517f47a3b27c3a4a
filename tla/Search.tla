------------------------------- MODULE Search --------------------------------
(* Searching articles (models/search.dart, screens/search): one SearchModel  *)
(* for the whole app, the search screens, whose field starts a search half a *)
(* second after the last key, and the search of the header, which asks the   *)
(* same model.  The words found are kept, newest first, in                   *)
(* SharedPreferences.  Requests are answered in any order.                   *)
EXTENDS Integers, Sequences, SequencesExt, FiniteSets

CONSTANTS
  Screens,     \* SearchScreens: the tab, the page of the wishlist
  Words,       \* what can be typed, the empty text aside
  NoText,      \* the empty text; no timer; no value stored
  MaxSearches  \* bound: requests sent

ASSUME SearchAssumption ==
  /\ {NoText, "off", "answered"} \cap Words = {}
  /\ NoText \notin {"off", "answered"} \cup Seq(Words)
  /\ "header" \notin Screens
  /\ MaxSearches \in Nat

VARIABLES
  searchText,  \* searchText[s]: what screen s shows the results of
  timer,       \* timer[s]: what the armed Timer will search for
  requests,    \* requests[n]: the word of the n-th search, if it is in flight
  keywords, results, loading, errMsg,  \* SearchModel: results, its blogs, is the
                                       \* word searched and whether it found any
  prefs, prefsFile, prefsWrites, prefsLost,  \* SharedPreferences
  last,        \* history: the screen of the newest search and its number
  overtaken,   \* history: an answer came after that of a later search
  answers      \* history: the words found since the last clear, oldest first

fieldVars  == <<searchText, timer>>
modelVars  == <<keywords, results, loading, errMsg>>
prefsVars  == <<prefs, prefsFile, prefsWrites, prefsLost>>
answerVars == <<last, overtaken, answers>>
searchVars == <<fieldVars, requests, modelVars, prefsVars, answerVars>>

Prefs == INSTANCE Store WITH
           Keys <- {"recentSearches"}, Nothing <- NoText,
           mem <- prefs, disk <- prefsFile, writes <- prefsWrites, lost <- prefsLost

Pending == {n \in DOMAIN requests : requests[n] # "answered"}

-----------------------------------------------------------------------------
(* searchBlogs up to its request. *)
SearchBlogs(s, name) ==
  /\ Len(requests) < MaxSearches
  /\ loading' = TRUE
  /\ requests' = Append(requests, name)
  /\ last' = [screen |-> s, n |-> Len(requests) + 1]
  /\ UNCHANGED <<keywords, results, errMsg, prefsVars, overtaken, answers>>

(* A key in the field: the timer starts again. *)
Type(s, text) ==
  /\ timer' = [timer EXCEPT ![s] = text]
  /\ UNCHANGED <<searchText, requests, modelVars, prefsVars, answerVars>>

TimerFires(s) ==
  /\ timer[s] # "off"
  /\ timer' = [timer EXCEPT ![s] = "off"]
  /\ searchText' = [searchText EXCEPT ![s] = timer[s]]
  /\ SearchBlogs(s, timer[s])

(* The words on display under an empty field. *)
RecentSearches == {keywords[i] : i \in 1 .. IF Len(keywords) < 5 THEN Len(keywords) ELSE 5}

TapRecent(s, text) ==
  /\ searchText[s] = NoText
  /\ text \in RecentSearches
  /\ searchText' = [searchText EXCEPT ![s] = text]
  /\ SearchBlogs(s, text)
  /\ UNCHANGED timer

(* The timer and the search in flight go on. *)
Cancel(s) ==
  /\ searchText[s] # NoText
  /\ searchText' = [searchText EXCEPT ![s] = NoText]
  /\ UNCHANGED <<timer, requests, modelVars, prefsVars, answerVars>>

(* The screen is left.  Its timer is not cancelled, but setState throws in   *)
(* it, so nothing is searched.                                               *)
Leave(s) ==
  /\ searchText' = [searchText EXCEPT ![s] = NoText]
  /\ timer' = [timer EXCEPT ![s] = "off"]
  /\ UNCHANGED <<requests, modelVars, prefsVars, answerVars>>

(* The search of the header builds its results, which sends a request. *)
HeaderSearch(text) ==
  /\ SearchBlogs("header", text)
  /\ UNCHANGED fieldVars

-----------------------------------------------------------------------------
(* Mutant: the word stays where it was too.                                  *)
MutMoved(list, name) == <<name>> \o list

(* The word goes to the front. *)
Moved(list, name) == <<name>> \o RemoveFirst(list, name)

SaveKeywords(list) == Prefs!SetItem("recentSearches", list, "search")

(* Mutant: an answer without articles leaves those of before.                *)
MutFound(name, some) == IF some THEN [name |-> name, some |-> some] ELSE results

Found(name, some) == [name |-> name, some |-> some]

(* The request n is answered, with articles or without. *)
Answer(n, some) ==
  LET name == requests[n]
      kept == some /\ name # NoText IN
  /\ n \in Pending
  /\ requests' = [requests EXCEPT ![n] = "answered"]
  /\ results' = Found(name, some)
  /\ keywords' = IF kept THEN Moved(keywords, name) ELSE keywords
  /\ IF kept THEN SaveKeywords(keywords') ELSE UNCHANGED prefsVars
  /\ answers' = IF kept THEN Append(answers, name) ELSE answers
  /\ loading' = FALSE
  /\ overtaken' = (overtaken \/ \E m \in DOMAIN requests \ Pending : m > n)
  /\ UNCHANGED <<fieldVars, errMsg, last>>

(* Mutant: a failure leaves loading up.                                      *)
MutRequestFails(n) ==
  /\ n \in Pending
  /\ requests' = [requests EXCEPT ![n] = "answered"]
  /\ errMsg' = TRUE
  /\ UNCHANGED <<fieldVars, keywords, results, loading, prefsVars, answerVars>>

(* The request n fails: its message is shown from now on. *)
RequestFails(n) ==
  /\ n \in Pending
  /\ requests' = [requests EXCEPT ![n] = "answered"]
  /\ loading' = FALSE
  /\ errMsg' = TRUE
  /\ UNCHANGED <<fieldVars, keywords, results, prefsVars, answerVars>>

ClearKeywords ==
  /\ keywords # <<>>
  /\ keywords' = <<>>
  /\ SaveKeywords(<<>>)
  /\ answers' = <<>>
  /\ UNCHANGED <<fieldVars, requests, results, loading, errMsg, last, overtaken>>

SaveEnds ==
  /\ Prefs!Written("search") \/ Prefs!WriteFails("search")
  /\ UNCHANGED <<fieldVars, requests, modelVars, answerVars>>

NoBlogs == [name |-> NoText, some |-> FALSE]

(* The app is killed and started again: SearchModel() reads its words. *)
SearchRestart ==
  /\ Prefs!Reload
  /\ keywords' = IF prefsFile["recentSearches"] = NoText THEN <<>> ELSE prefsFile["recentSearches"]
  /\ results' = NoBlogs /\ loading' = FALSE /\ errMsg' = FALSE
  /\ searchText' = [s \in Screens |-> NoText]
  /\ timer' = [s \in Screens |-> "off"]
  /\ requests' = [n \in DOMAIN requests |-> "answered"]
  /\ last' = [screen |-> "header", n |-> 0]
  /\ overtaken' = FALSE
  /\ answers' = Reverse(keywords')

SearchInit ==
  /\ searchText = [s \in Screens |-> NoText]
  /\ timer = [s \in Screens |-> "off"]
  /\ requests = <<>>
  /\ keywords = <<>> /\ results = NoBlogs /\ loading = FALSE /\ errMsg = FALSE
  /\ Prefs!StoreInit
  /\ last = [screen |-> "header", n |-> 0]
  /\ overtaken = FALSE
  /\ answers = <<>>

User ==
  \/ \E s \in Screens :
       \/ \E text \in Words \cup {NoText} : Type(s, text)
       \/ \E text \in Words : TapRecent(s, text)
       \/ Cancel(s) \/ Leave(s)
  \/ \E text \in Words : HeaderSearch(text)
  \/ ClearKeywords
  \/ SearchRestart

Answers ==
  \E n \in DOMAIN requests : RequestFails(n) \/ \E some \in BOOLEAN : Answer(n, some)

SearchNext ==
  \/ User
  \/ \E s \in Screens : TimerFires(s)
  \/ Answers
  \/ SaveEnds

SearchSpec == SearchInit /\ [][SearchNext]_searchVars

(* Timers fire and requests end, by an answer or by the time limit of the    *)
(* network; nothing is assumed of the user.                                  *)
SearchFairSpec == SearchSpec /\ WF_searchVars(\E s \in Screens : TimerFires(s)) /\ WF_searchVars(Answers)

-----------------------------------------------------------------------------
SearchTypeOK ==
  /\ searchText \in [Screens -> Words \cup {NoText}]
  /\ timer \in [Screens -> Words \cup {NoText, "off"}]
  /\ requests \in Seq(Words \cup {NoText, "answered"})
  /\ keywords \in Seq(Words)
  /\ results \in [name : Words \cup {NoText}, some : BOOLEAN]
  /\ loading \in BOOLEAN /\ errMsg \in BOOLEAN
  /\ Prefs!StoreOK(Seq(Words))

(* The screen s shows the articles of results, or that there are none. *)
ShowsBlogs(s) == searchText[s] # NoText /\ ~loading /\ ~errMsg

(* When every search has been answered, and in order, the screen that        *)
(* searched last shows the articles of the text it searched for, not those   *)
(* of an earlier word, of a cancelled one or of a header search before it.   *)
ShowsOwnBlogs ==
  \A s \in Screens :
    ShowsBlogs(s) /\ last.screen = s /\ Pending = {} /\ ~overtaken
      => results.name = searchText[s]

(* The words are those found since the list was cleared, each once, the one  *)
(* found last first, in whatever order the answers came; and those in the    *)
(* file are the same once nothing is being written.                          *)
RecentFirst ==
  LET Newest(w) == CHOOSE i \in DOMAIN answers :
                     answers[i] = w /\ \A j \in i + 1 .. Len(answers) : answers[j] # w IN
  /\ SearchTypeOK
  /\ ToSet(keywords) = ToSet(answers)
  /\ \A i, j \in DOMAIN keywords : i < j => Newest(keywords[i]) > Newest(keywords[j])
  /\ Prefs!Settled /\ prefsFile["recentSearches"] # NoText => prefsFile["recentSearches"] = keywords
  /\ Prefs!Settled /\ prefsFile["recentSearches"] = NoText => keywords = <<>>

(* The screens do not show the loading widget for ever. *)
LoadingEnds == loading ~> ~loading
=============================================================================
