# A verification development for News Central TV

News Central TV (`src/lib`, Dart on Flutter) is a news reader: a client of a
WordPress server, with accounts, bookmarks, search, push notifications, a
video list, a form to submit articles, and a support chat over Firestore whose
client is vendored in C++ under `src/ios/Pods`.  This directory holds TLA+
modules that model its logic, the configurations that check them with TLC, and
proofs checked by TLAPS.

## How the program runs, and what a step is

Dart has one thread.  Code between two `await`s is never interrupted, so an
action of the models is a whole handler up to its `await`, or the continuation
after it, with everything it calls.  What makes the program hard is what
happens across `await`s:

* an http answer may come late, in any order, or be an error, after the screen
  that asked is gone; the answer is still applied to the shared model;
* `LocalStorage('fstore')` keeps one map in memory, changed at once, and
  writes it to one file, which takes time, can fail and can be cut by a crash;
* `SharedPreferences` is a second store with writes of its own.

The Firestore client runs every operation on one worker queue, so there an
action is a whole queued operation.  The exception is `GrpcStream`, whose
worker blocks in the middle of operations while the thread that polls gRPC
goes on; each place where it blocks is a step of its own.

## The parts of the system

| part | state | operations | interacts with | what must hold |
|---|---|---|---|---|
| Article list: `BlogNewsModel`, `BlogsPage`, `BlogList` | the list, `isFetching`, `isEnd`; the open category; `_page`, pull indicators | open from menu or home layout, close, filter, sort, pull down, pull up, answer, failure | WordPress | no article skipped, end announced truly, a fetch ends, the list belongs to its category |
| Search: `SearchModel` | results, `loading`, `errMsg`, keywords | search, answer, failure, clear keywords, load keywords | WordPress, preferences | results of the last query, keywords unique and persisted |
| Wish list: `WishListModel` | articles | load, add, remove | local storage; logout deletes its key | no duplicates, what is stored is what is shown |
| Notifications | stored list, last message id; the open screen's copy | push arrives, open, mark seen, remove | local storage, push services | each push listed once, the entry touched is the one tapped |
| Session: `UserModel`, `LoginScreen` | `user`, `loggedIn`, `loading`, stored copies | six ways to log in, register, log out, restart | WordPress, Firebase, both stores | memory and stores agree, also after a crash |
| Startup: `MyApp`, `AppInit`, splash, welcome screen | the loads under way, the routes, the splash's timers | splash, load, next screen | every model | the splash gives way and does not come back |
| Configuration: `AppModel` | language, configuration | change language, load | local assets, storage, preferences | the last choice wins |
| Post submission: `NewPostScreen`, `createBlog` | the form, its button, the stored token | offer, submit, leave | WordPress, session | one submission at a time, the author's own token, a button that comes back |
| Video list: `VideosScreen` | videos, page token | open, scroll | YouTube | no video skipped, repeats have a cause |
| Firestore writes: mutation queue, pipeline, write stream, callbacks | queues and tokens on disk, pipeline, stream, callbacks | write, wait, acknowledge, refuse, reconnect, crash, change user | the server over a gRPC stream | a write is applied in order or refused, the right caller is told |
| Firestore listening: watch stream, aggregator, online state | targets, answers due, stream, tracker | listen, unlisten, target changes, mismatch, failures | the server over a gRPC stream | the server watches what the client listens to |
| Firestore's `GrpcStream` | completions, write buffer, the call | write, stop, finish, callbacks | worker queue and polling thread | gRPC's rules, nothing dangles, nobody blocks for good |
| Chat | messages, room document | type, send, read | Firestore | not reachable in this program |
| Home layouts, search results, `BlogListView` | a list each | become visible, scroll, refresh | WordPress | pages in order |
| Deep links, advertisement, categories, comments, recently read | a field or a list each | one request or one plugin call | WordPress, AdMob | - |

`PROJECT.json` lists all of them with their files and says what is modelled of
each; "What is not modelled" below says why the rest is not.

## The plan

Modules in the order they were written; each stands on those before it.

| # | module | what it is | state |
|---|---|---|---|
| 1 | `BlogPaging` | the shared article list and its paging | done |
| 2 | `Store`, `StoreProofs` | a key-value store with a file behind it, external to `src/`; `Wishlist`, `Session`, `Notifications` and `Search` instantiate it, `Session` twice; lemmas on its operations | done |
| 3 | `Bookmarks`, `Wishlist` | the promise of the wish list; the code, which refines it | done |
| 4 | `Session`, `SessionProofs` | logins, registration, logout over two stores, with proofs | done |
| 5 | `Notifications` | pushes and the announcement screen | done |
| 6 | `Search` | the search field, its model, the recent words | done |
| 7 | `PostSubmission` | writing an article over the accounts and the stored token | done |
| 8 | `VideosPaging`, `PagingProofs` | paging by token; the proofs of both lists read page by page | done |
| 9 | `Startup`, `ScreenProofs` | splash, welcome screen, configuration, change of language; its proofs and those of `PostSubmission` | done |
| 10 | `Outbox`, `FirestoreWrites`, `FirestoreWritesProofs` | the promise made of a write; the client's write half, which refines it, with proofs | done |
| 11 | `FirestoreWatch`, `FirestoreWatchProofs` | the client's listen half with its online state, with proofs | done |
| 12 | `Wire`, `GrpcStream`, `GrpcStreamProofs` | the promise of a stream; two threads, which refine it, with proofs | done |
| 13 | `ListProofs` | the proofs of the three stored lists: `Notifications`, `Search`, `Wishlist` | done |

Every safety invariant and action property of a passing run is stated by a
theorem; so is the refinement of each promise.  What remains to TLC is
liveness.

## The modules, the code and the runs

Every definition that stands for code is in the `map` of `PROJECT.json` with
its lines.  Definitions whose names begin with `Mut` are not part of any
specification: each is the definition of the rest of its name with a plausible
mistake in it, kept to show that a property would notice.

Bounds are constants named in the modules and are guards of the actions that
would run away (`MaxRequests`, `MaxPosts`, `MaxWrites`, `MaxSaves`,
`MaxArrivals`, `MaxSearches`, `MaxFaults` and so on; in `Session` the set
`Attempts`).  They bound how often the user or the outside world acts, never
what the program does about it.

History variables are marked as such where they are declared.  Most name the
behaviours a property has to except because the code does not cover them; the
exception is part of the property and is explained with it.

| run | module | question | bounds |
|---|---|---|---|
| `blog_paging` | `BlogPaging` | skipped articles, a false end, an indicator that turns for ever | two categories of four articles and one, pages of 2, three requests, five articles: two pages of one list, the second moved by publishing, and a request left over by another page |
| `old_products` | `BlogPaging` | a finding, below | pages opened by `showList`, pulled and closed; four requests, four articles |
| `wishlist` | `Wishlist` | duplicates, and the refinement of `Bookmarks` | three articles, so that a list has a middle; three pending writes, for one to be overtaken by a failure of another |
| `session` | `Session` | memory and stores agree, the button comes to rest | two tasks of two accounts, by email, Google or Apple, or a registration or a logout: each pair that can overlap |
| `notifications` | `Notifications` | lost, repeated and misplaced entries | three pushes of two ids, titled or not, for A, B, A and for a push into a list of two while the screen is open; a row is touched while no write is pending |
| `search` | `Search` | whose articles are shown, the words in order and saved | two screens, two words and the empty text, two searches, so that one overtakes the other |
| `post_submission` | `PostSubmission` | overlapping submissions, whose token, the button | two accounts of which one may write, two logins, two submissions, two sets of tabs |
| `videos_paging` | `VideosPaging` | skipped and repeated videos, a complete end | two pages, a channel that counts fewer videos than it has, as many, or a page more; four loads, two uploads |
| `startup` | `Startup` | the language tapped last, the splash's timers | three languages and four calls: the two of the start and two taps that overlap each other or them |
| `firestore_writes` | `FirestoreWrites` | a write lost, reordered, told to the wrong caller, stuck | two users, three writes over a pipeline of two, so that a batch waits for room; four faults, enough for a write that is sent, applied, cut off, sent again and cut off by a crash under another user |
| `firestore_watch` | `FirestoreWatch` | answers miscounted, a target not watched, a wait that is not timed | two targets, three listens (one listened to again while answers to the first are under way), three messages under way, two faults |
| `grpc_stream` | `GrpcStream` | gRPC's rules, dangling pointers, a blocked worker | three writes, so that one waits behind another that waits; two messages of the server |

Deadlock is not checked where the program may rest: nothing to send, nothing
to listen to, a stream destroyed, a list at its end.

### `Store`

`localstorage` and `shared_preferences` are packages, not part of `src/`; the
module is how the code uses them.  `setItem` changes the map at once; its
future completes when the file has been written, with the whole map as it was
at the call; a write may fail, which the caller sees as an exception.  Two
things are assumed of the packages: writes reach the file in the order of the
calls, and one write replaces the file as a whole.  A restart keeps `disk`.

### `BlogPaging` - the article list

There is one `BlogNewsModel` for the whole app.  A `BlogsPage` puts its
category in it, the `BlogList` inside pulls it, answers are assigned (page 1)
or appended (any other) as they arrive, whichever page is open by then.
`blogList`, `isFetching`, `isEnd` are the model's fields; `newCategoryId` and
`order` the page's; `page`, `refreshing`, `loadingMore` the list's `_page` and its
two pull indicators.  The server's articles of a category are numbered by
age, and a page is an interval of numbers that moves when an article is
published.  `clean` is a history variable: the list was opened or refreshed
while nothing else was in flight, from its first page, and nothing failed since.

Liveness assumes that a request in flight is answered in the end, by an
article list or an error: the http client gives up at the connection's time
limit.  Nothing is assumed of the user or the newsroom.

`NoArticleSkipped` and `EndMeansAll` hold for clean lists only, and the code
does skip articles otherwise: after a failed page (`_page` has moved on), after
sorting or filtering a list that was pulled (`_page` is kept), below a list a
home layout passed (10 articles shown, page 2 begins at the 16th).

`OnRefresh` has no guard for posts.dart:97-98: every `BlogsPage` is built
without a `config`.

Finding `old_products`: blog_news.dart:204 calls `setBlogsList` with the
comment `//clear old products`.  The run (`MCShowListSpec`) opens a page by
`showList`, leaves it before its answer came, and opens one of another
category, which clears the list; then the first answer is assigned
(blog_news.dart:72-76) and the old category's articles are on the new page.  A
filter does the same without a page being left, for `onFilter` clears the list
in the same way (posts.dart:73).

### `Wishlist` and `Bookmarks` - the wish list

`blogs` is the model's list.  `AddToWishlist` and `RemoveToWishlist` are the
hearts and the button of the wish list screen; both save, and nobody awaits
the save.  `LogoutDeletes` is what `UserModel.logout` does to the key, and
`WishlistRestart` what `getLocalWishlist` reads.  The splash screen outlasts the
opening of the storage, so no heart can be tapped before the list is loaded.

`Bookmarks` says what the user may rely on: articles are listed once, in the
order of adding, and a restart brings back a list that was on display, or the
empty one of a logout.  Under the mapping `Versions` (the list in the file and
those in pending writes) every step of `Wishlist` is a step of it or a stutter.

`removeToWishlist` filters the list (`where`); an article is listed once, which
is `WishlistTypeOK`, so the model takes out one place (`RemoveAt`).  A filter would be
`SelectSeq`, of whose result the provers know nothing.

### `Session` - logging in and out

A task (`tasks[a]`) is one login, registration or logout, and `pc` the
`await` it is at: the button's animation, the request, the two writes of
`saveUser`, the three of `logout`, the JWT and Firebase steps that follow an
email login.  `here` says whether the page that started it still exists; when
it does not, its callbacks throw.  A task that waits for an animation is
dropped when another `forward()` or `reverse()` cancels that animation.
`upsets` is a history variable that names what a property has to except:
`"overlap"` (a login and a logout between each other's writes), `"failure"`
(of a write), `"crash"` (a restart between two writes).

Fairness is weak fairness of `Continuations`: animations, requests and writes
end.  Gestures and restarts are not fair.  `ComesToRest` excepts behaviours
where a callback threw, for then the code does hang: a JWT request that fails
is awaited by nobody, the Apple and SMS logins call `fail()` without the
message it takes, and `createUser` lowers `loading` only after calling a
`fail` that throws when its page is gone.

### `Notifications` - pushes and the announcement screen

The stored list is a Dart object everybody changes in place, so the module has
a `heap` of lists, and the key is `bound` to one.  `saveToLocal` takes the
list, sets the message id, awaits that write, and only then inserts
(`Push`, `IdWritten`).  When there was no list yet, each of two overlapping
pushes makes its own, and the second replaces the first.  The screen's `data`
is a list object too; its `rows` keep the indices of the last build, and
`TapRow` and `SwipeRow` act on what those indices hold now.  `RowDone` takes
the bound list where the code, after a swipe, takes the one it had read: they
differ only when a second list was bound meanwhile (`"two lists"`, below).

`upsets` again names the exceptions: overlapping first pushes lose one of the
two (`"two lists"`), a list that moved under its rows makes a swipe remove the
neighbour (`"moved rows"`), and a kill between the id and the list loses the
push and refuses its redelivery (`"crash"`).  `RemovesTheSwiped` needs no
exception for a kill: what was swiped away left the list before its write began,
and a restart that brings an entry back neither removes nor swipes.  No text in the repository claims
otherwise, so these are hazards and not findings.  The ids are symmetric.

### `Search`

`searchText` and `timer` are a search screen's; the rest is `SearchModel`.
`TimerFires` and `TapRecent` search; `Cancel` stops neither the timer nor the
request; `HeaderSearch` is the search of the header, which uses the same
model.  `answers` is the history `RecentFirst` compares the words with.
`Moved` takes a word out of where it is and puts it in front, as the code does
with `indexOf`, `removeAt` and `insert`.

Timers fire and requests end (weak fairness of each).  A user who types for
ever re-arms the timer, which is enabled all the while.  `ShowsOwnBlogs` waits
for the last answer and excepts overtaken ones, for the code shows what comes
last; and it speaks of screens without an error message, which once set is
never taken back.

### `PostSubmission` - writing an article

`user` and `role` are `UserModel`'s, `token` the stored `jwtToken` by the
account it was made for: only an email login asks for one, and logout leaves
it (models/user.dart:229).  `tabs` are the `MainTabs` on the navigator, each of
which asks once, after its first layout, whether the user may post.  A
submission is one call of `createBlog`: token, upload of the image, article,
then `whenComplete` with the message, the animation and the pop, and
`catchError`, whose `reverse()` cancels the first.  Refusals are answers like
any other: the code looks at none.  A submission's `here` says whether the
screen it was made on is still there, which its callbacks find out by
throwing.  A registration names the user's role as an email login does, but
brings no token; the other logins name no role.

`OneAtATime` speaks of submissions on their way from the tap to the end of the
animation, at every await between them.
`TokenFitsAuthor` holds for an author whose own email login brought the token
and who is still logged in, when no logins overlapped; otherwise an article
goes out with another account's token.  `ButtonComesBack` excepts a submission
without a user, whose exception leaves the button turning.  Fair are the
continuations of a submission: requests and animations end.

### `VideosPaging` - the list of videos

A video is the number of its upload; a page token is how many videos precede
the page, as YouTube's offset tokens do (assumed: an upload therefore shifts
the pages to come).  `StartLoad` is `_loadVideos` up to its `await`, where the
token is read; `Loaded` moves token and list together.  The scroll handler
starts a load whether or not one is under way.  `NoGaps` needs no exception;
`RepeatsHaveCause` and `StopsComplete` name the causes: overlapping loads,
uploads, a channel that counts more than its playlist has.

### `Startup` - splash, welcome screen, languages

`calls` are the calls of `loadAppConfig` with what leads to them, each at the
`await` it has reached; `routes` are the navigator's above the splash.  Every
build of the splash starts a timer, and each timer that elapses while the
splash is in the tree replaces the route on top.  `isFirstSeen` is always
absent, for nothing calls `setFirstSeen`, so the welcome screen comes at every
start.  `SettledOnTheLastTap` names the exception: with overlapping calls the
configuration is the one whose asset came last.  Fair: the awaits of the
device, timers, transitions; not the user.

### `FirestoreWrites` and `Outbox` - a write's way to the server

`queue` and `savedToken` are what LevelDB keeps per user, `pipeline`
`write_pipeline_`, `callbacks` and `waiting` the SyncEngine's maps.  `state`,
`handshake`, `idle`, `up`, `down`, `closing` are the write stream and what it
carries.  An error is one of three kinds, which is all `IsPermanentError` and
`IsPermanentWriteError` distinguish.  `CrashAndRestart` keeps the disk and
runs `FirestoreClient::Initialize`; `CredentialChanges` is the SyncEngine's
handler with the restart of the network it ends in.

`Outbox` is the promise: each user's writes are applied in their order and
stay queued until applied or refused.  `FirestoreWrites` implements it with
`pending` mapped to the queue on disk.  `InStep` gathers what the comments and
assertions of remote_store.cc and local_store.cc take for granted when an
answer is "correlated to the first write in our write pipeline";
`ConfirmedStays` says that sending again never undoes a confirmed write;
`CallersTold` that a write's callback is called and `waitForPendingWrites`
answers in the step that settles the last of their writes: `StillDue` says that
nobody is left waiting for what is settled, `ToldInTime` that nobody is told
before, but by a change of user or a crash.  The app dies between operations of
the worker queue; that `HandleSuccessfulWrite` tells the caller just before it
takes the batch off the disk (sync_engine.cc:350, 354) is one step.

Fairness is weak fairness of the client's queue and of the server's answers
together (`Progress`); faults are bounded
(`MaxFaults`), so in the end they stop.  `Settles`
excepts a network that is off and a user who has gone.  Assumed: a stream
delivers in order, its status after its answers; a permanent status is about
the first request not answered; the server never closes a stream with OK.

### `FirestoreWatch` - listening

`targets` are the keys of `listen_targets_`, `outstanding` the aggregator's
`outstanding_responses_`, `resets` its `pending_target_resets_`, `online` the
`OnlineStateTracker`.  A target keeps its id when listened to again, which is
when late answers matter.  `state` is "Open" once the stream's token has come,
before anything has passed (grpc_stream.cc:108-125); `heard` is a history
variable: a message of the server has come on the stream that is open, which
is what Online has to mean.  Documents, resume tokens, matching filters and
CURRENT are one message, "changes": what they do to views is not modelled.

Fair are the client's queue and timers, and, strongly, the server's answers to
the requests it has (whatever else it sends meanwhile).  `CountsMatch` and
`AskedIsAnswered` except a target removed with a cause amid other requests
(`miscounted`), `OnlineTruth` a timer cleared while the stream starts
(`untimed`); see the disagreements below.

### `GrpcStream` and `Wire` - one stream, two threads

`worker` is `Idle` or the place where it blocks for its completions to come
off gRPC's queue: after a failure, in `Shutdown` before and after the status,
or behind a last write.  `passing` is the completion the polling thread has
taken off that queue and not yet put on the worker queue; that a completion is
off before its callback is queued is the order of `GrpcCompletion::Complete`.
`Wire` is the promise: messages in order both ways, none after the end.

Fair are both threads, the operations of a dead call (gRPC's guarantee) and,
once the worker queue is restricted, the client's own `Stop`.  Nothing is
assumed of a live call.  Assumed of gRPC: an operation fails only on a call
that is dead, and its status comes only then.

## Disagreements with comments, met on the way

`old_products` is a run.  These were met while modelling, and are stated here
because the properties except them:

* The menu offers 'Date ASC' (backdrop.dart:326) and posts.dart:84 passes the
  order on, but `getBlogsList` (blog_news.dart:66) drops `orderBy` and `order`.
* 'Your post has been successfully created' (new_post.dart:138) is said without
  a token, and when the server refuses the image or the article
  (wordpress.dart:67-68, 76).
* remote_event.h:208-209 calls `outstanding_responses_` the number of answers
  due; `ProcessTargetError` (remote_store.cc:354-366) removes a target without
  counting, so requests that cross the removal are not counted right.
* remote_event.h:157-160 on "current": the flag outlives an unlisten that a
  listen of the same target follows at once (remote_event.cc:157-172).
* online_state_tracker.cc:44-46 says the app is told Offline when the server
  does not answer in time; the timer is cleared while the stream starts when
  the last listener goes (remote_store.cc:186) or the network is enabled again
  (:111, :163), and nobody sets it anew.
* grpc_stream.cc:205-208 has only the finish operation to drain; a write issued
  between the failure and its status is drained beside it.  It does no harm.

## What is proved

Eight proof modules.  The bounds are parameters, any natural numbers.

A proof module that serves several components extends all of them: `PagingProofs`
the two paged lists, `ScreenProofs` `Startup` and `PostSubmission`, `ListProofs`
the three lists kept in a store.  Each theorem is about one component's
specification.  For that no two of these modules may declare the same name, so
some names carry their component: `ArticlesSpec`, `PostInit`, `SearchNext`,
`WishlistTypeOK`, and `postLoading`, `loadingMore` and `results` for what the
code calls `isLoading`, `loading` and `blogs` in more than one class.

`PagingProofs` proves of `BlogPaging`, for any categories, page sizes, layout
size and bounds (`PagingAssumption`: the sizes are positive, the rest natural
numbers):

* `ArticleTypes`: `ArticlesTypeOK`.  It is inductive; the proof takes the Boolean flags
  and the data apart (`ArticleFlagsOK`, `ArticleDataOK`), one step per action each.
* `FetchingCorrect`, `IndicatorCorrect`: `FetchInv`, the conjunction of the
  two, is inductive: the indicators rise only with the flag or under it, and
  every answer lowers all three.
* `NoneSkipped` and `EndIsTrue`: neither is inductive, for neither says what a
  pending answer will append.  `CleanInv` does: on a clean list there is at
  most one request, it is for the open category and for the page the list is
  at; the list goes down by at most one from each article to the next
  (`Descends`), and after p answered pages it ends at article 1 or at most one
  above where the server's page p + 1 begins now (`Holds`).  Publishing moves the
  server's pages down the list, so the next page begins at most one below
  where the list ends, or repeats articles, and the bound stays true.
  `NewestProps`, `AppendDescends`, `NextOffset` and `AnswerHolds` are the
  lemmas on pages this rests on.

And of `VideosPaging`, for any page size, playlist and channel
(`VideosAssumption`):

* `TypeCorrect`: `TypeOK`.  That a page holds only videos of the playlist
  needs `Bounds` (what an answer counts is between the first playlist and the
  present one) and `NotYet` (nothing is loaded before the channel is known).
* `NoVideoSkipped`: `NoGaps`.  It says nothing of pages to come; `Ahead` does:
  all that precedes the page the token names is listed, and the same of the
  page each load under way has asked for, measured by the playlist the server
  answered with.  An upload only makes less precede a page, and a load that
  ends out of order sets the token to a page whose predecessors its own page
  and `Ahead` cover.
* `RepeatsExplained` and `StopIsComplete`: `Orderly` is the list's order while
  no loads overlapped and nothing was uploaded: one load at a time (`Alone`);
  until the playlist is listed, the list is its beginning and the next page
  the one asked for (`InOrder`); from then on all is shown (`Complete`); and if
  the channel counts no more than the playlist has, nothing is loaded again
  (`Once`).  `PageIs` and `ListingOfTwo` are the lemmas on pages.

`ScreenProofs` proves of `Startup`, for any languages and bounds (`StartupAssumption`: the
default is one of the languages):

* `TypeCorrect`: `TypeOK`.  It needs `Chosen`: a call that is about to set the
  locale, or has taken its path, has a language.
* `LastTapSettles`: `SettledOnTheLastTap`.  `LastTap` carries it while calls
  are under way: with none at the preferences the locale is the one tapped
  last, otherwise the last of those there will set it, for they go on in
  order.  `Settling` does the same for the configuration while none overlap.
* `TabsAreKept`: the action property `TabsStay`, from the types alone.

And of `PostSubmission`, for any accounts, authors and bounds
(`PostAssumption`: no account is `Nothing`):

* `OneSubmission`: `OneAtATime`.  `ScreenOK` adds to it what makes it
  inductive: whoever waits for the animation has its screen there, for leaving
  a screen drops the animation with it; so the end of an animation closes or
  frees the screen of the only submission that is on its way there.
* `ArticlesAreSignedByTheirAuthor`: `TokenFitsAuthor`.  It looks at the moment
  the token is read, so `TokenIsUsers` has to hold before: while no logins
  overlapped, a token that came after the user's last login is the user's, and
  one that is awaited can only be for the user, or for one who logged out.

`ListProofs` is about the three lists with a store of their own.  The lemmas
at its head are about a queue of writes and the file behind it: what is left
when a write ends or fails (`Dropped`), and `SyncOK`: unless the newest write
was lost, the last of the queue, or the file when there is none, is the map in
memory.  It holds of all three stores, and gives each property its part on
what the file holds.

Of `Notifications`, for any ids, pushes and bounds
(`NotificationsAssumption`, `NoValueIsNoList`):

* `NewestComesFirst`: `NewestFirst`.  A push that was refused as a repeat, one
  that waits for its id to be written, the lists of the heap, the file and each
  pending write are parts of one story, for a restart may bring any version
  back.  `LiveOK` tells it of memory: of the pushes listed or under way, two
  of one id have another push between them, after each came a push with the
  id stored last, and those under way are newer than the listed.  `FileOK`
  says the same of the file and of each write, whose pushes a restart makes
  the listed ones, and `QueueOK` that the writes of the pushes under way are
  in their order.
* `NoPushIsLost`: `PushesKept`.  `KeptOK` carries it with the removed ones;
  that an entry with a title stays visible when it is opened is part of what
  makes an entry good (`GoodEntry`), in memory and in the file.
* `SwipingRemovesTheRow`: `RemovesTheSwiped`.  `SwipedOK`: while nothing moved
  the screen holds the stored list, and but for the time a removal is being
  written its rows are that list's, index by index (`InPlace`).

Of `Search`, for any screens, words and bound (`SearchAssumption`):

* `LastSearchIsShown`: `ShowsOwnBlogs`.  It speaks of the time when nothing is
  pending; `LastOK` of all others: the last search of a screen that still has
  its text is the last request, and is for that text while it is in flight.
* `WordsAreRecentFirst`: `RecentFirst`.  `Recent` says it without `CHOOSE`;
  that moving a word to the front keeps it is the lemma `MovedRecent`, that
  a restart may take the words it read as found in that order `ReverseRecent`.
  The file may lag behind by any number of writes, so each has to hold no word
  twice (`PrefsOK`).

Of `Wishlist`, for any articles and bound (`WishlistAssumption`):

* `NoArticleTwice` (`WishlistTypeOK`) and `TheFileHoldsTheList` (`BookmarksKept`): a
  restart may load any version, so none in the file or a pending write lists an
  article twice; and what memory holds for the key is the list on display, or
  nothing since a logout.
* `WishlistKeepsThePromise`: `KeepsPromise`.  An add or a removal is `Add` or
  `Discard`, a logout `Forget`; a write that ends or fails leaves a part of the
  versions (`Settle`), and a restart shows the one in the file.

`StoreProofs` states, for any store, what each operation does to the map, the
file and the queue of pending writes: it puts one write behind the others
(`Longer`) or takes one out and keeps the order (`Without`).  `Synced` says
what the map and the file have in common: the last pending write, or the file
where none is pending, holds the map's value of a key, and so does the one
before a last write that nobody awaits and that may fail, as the JWT's may.  A module that holds a store
instantiates it beside `Store`.  On these lemmas,
`SessionProofs` proves, for any number of attempts, any accounts and any of
the buttons (`SessionAssumption`: the keys exist, no account is `Nothing`, no
attempt is named like the JWT's write):

* `TypeCorrect`: `TypeOK`, and with it that a task which saves has an account.
* `MenuMatchesUser`: `LoggedInHasUser`.  It needs that account, and the stored
  profile a restart reads to be typed.
* `StoredProfileHasFlag`: `ProfileHasFlag`, which speaks of the two files only
  and is far from inductive.  `SessionInv` adds, while no login and logout
  overlapped: a profile anywhere, in the map, the file or a pending write, has
  the flag raised in the file and in every pending write of the preferences
  (`ProfileRaised`); from the write a logout awaits on, the storage's queue holds
  no profile (`Forgetting`); after it there is none at all (`Forgotten`); saves and
  logouts are not under way together (`Apart`).  That a pending write of the
  flag is awaited by one task at a known place (`PWaits`) ties the queue to the
  program counters.  Most steps come near no write and are done by one lemma,
  `PlainStep`; the six that set a profile, a flag or a deletion have one each.
* `LastLoginIsSaved`: `StoresAgree`, about the moments when no save and no
  logout is under way, which says nothing of the steps in between.  `Agreeing`
  does, while no login has met a logout, no write has failed and no process
  died: each pending write that a task awaits is awaited there and once
  (`Awaited`), and whoever is at a write of the flag has one pending
  (`Served`); both stores are `Synced`; the newest pending flag belongs to the
  login whose account is shown, and once none is pending the profile set last
  is the user's (`ShownIsSaved`); the flag in the map is up exactly for a user
  (`FlagFollows`).  It comes down to the queue of the preferences: its writes
  end in the order they were begun, so of two logins the one answered last sets
  its profile last.

`GrpcStreamProofs` proves, for any number of calls, writes and polls
(`GrpcAssumption`):

* `StreamInvariant`: the inductive invariant.  A completion is in one place
  only, with gRPC, with the polling thread or with the worker (`Unique`); the
  stream has registered those whose answer it waits for (`Registered`); at most
  one read and one write are with gRPC or back and not cancelled, and no read
  is beside the finish (`Single`); a worker that drains waits for cancelled completions only, and
  the call is finished once (`Draining`); a request is buffered only behind a
  write under way (`Flowing`); what is buffered and what gRPC was given are
  the requests in order (`HandedInOrder`), and so is what the observer has been
  handed, the answer on its way being the next (`SeenInOrder`).
* `GrpcRulesKept` and `NoDanglingStream`: `OneAtATime` and `NothingDangles`, by
  `Single` and by `Registered`.
* `StreamKeepsPromise`: `KeepsPromise`, the refinement of `Wire`, each action a
  step of `Wire` or a stutter.

`FirestoreWritesProofs` proves, for any number of users, writes and listeners:

* `WritesInvariant`: the inductive invariant, in six parts.  `Disk`: each
  user's queue is in the order of its ids and of the numbers the writes were
  made with.  `Past`: what the server has settled precedes what waits, and no
  write is confirmed beyond the last.  `Told`: a callback is kept under its
  own write, and a waiter under a batch that still waits and is one of its
  own.  `Piped`: the pipeline is the beginning of the queue.
  `Streaming`: the answers under way followed by the requests under way are
  the pipeline's writes, in order (`Carries`).  `Serving`: the server has
  applied what its answers say.
* `StreamStaysInStep`, `ConfirmedIsKept`, `CallersAreTold`: `InStep`,
  `ConfirmedStays`, `CallersTold`.  That nobody waits for what is settled
  follows from `Told` and `Past`: the waiter's batch was written after
  everything settled, and it is taken from the waiters with the batch.
  `InStep` needs `Carries`: a queue that
  loses its head by an answer must lose the write the answer is for.
* `OutboxKept`: `KeepsPromise`, the refinement of `Outbox`: the server's apply
  and refuse are its steps, a write made again after a lost answer is none.

`FirestoreWatchProofs` proves, for any targets and bounds, also for a tracker
that allows more than the one failure of `kMaxWatchStreamFailures`:

* `WatchInvariant`: the inductive invariant.  `Counting` is `CountsMatch` with
  the numbers written as `Num`, and inductive with the types, which say that
  the targets are finitely many: `RaiseWatchSnapshot` makes a sequence of
  them.  `Following` is what `ServerFollows` needs while requests are under
  way: the last request for a target says whether the client listens to it,
  and where there is none the server watches it just when the client listens
  to it or a removal is on its way (`Agrees`).  That a removal met after the
  target was watched again does no harm needs `Renews`: behind the removal
  comes the answer to the new listen.  `Tracked` is `OnlineTruth` where it
  speaks of no targets, with the failures counted from zero by every start.
* `AnswersCounted`, `ServerIsBrought`, `OnlineIsTrue`: `CountsMatch`,
  `ServerFollows`, `OnlineTruth`.

The attempt at `OnlineTruth` showed the history variable `untimed` to be wrong
for a tracker that allows more failures than one: a stream started again after
the first of them sets no timer (`HandleStart` looks at the failures,
online_state_tracker.cc:55-58), so the start does not end the exception.  With the
code's limit of one the case cannot come up; TLC shows it with two.

Only model-checked: the liveness properties (`IndicatorStops`, `ComesToRest`,
`LoadingEnds`, `SplashGivesWay`, `ButtonComesBack`, `NeverStuck`, `Settles`,
`FailureNoticed`, `AskedIsAnswered`), which need fairness and ENABLED.

## What is not modelled, and why

* Chat: no route, tab or button opens its screens.  The Firestore client under
  it is modelled, for the parts through which every write and listen goes.
* Of the Firestore client: views, limbo documents, transactions, garbage
  collection, resume tokens and `Shutdown`.  The other native libraries under
  `src/ios/Pods` are third-party code as distributed; what the modelled parts
  need of gRPC is stated as assumptions.  They are the greater part of the
  repository's lines and none of the program's own logic.
* Home layouts (`VerticalViewLayout`), `BlogListView` and the search results
  list: the article list's paging without its guards, one list and one actor.
  `BlogListView` drops the articles its refresh fetched and asks for page 2 of
  all categories; the results list asks for the same page again.
* Advertisement: the configuration shows the rewarded video only, whose state
  is the plugin's.  Deep links, categories, comments: one request and one
  assignment each.
* `RecentModel.addRecentBlog` has no caller, `wishlist_blog.dart` is an unused
  copy, the OneSignal wrapper and the second notification screen under
  settings are reached by no code path: nothing to model.
* The two SMS login screens: their login is `UserModel.loginFirebaseSMS`,
  the twin of `loginApple`, but their fields and code timers are not in
  `Session`.
* Rendering, animation other than the login's and the form's buttons,
  localisation, the parsing of JSON into articles, the iOS and Android shells.

## Running it

    tlc -config MCSearch.cfg MCSearch
    tlapm PagingProofs.tla
    tlapm ScreenProofs.tla
    tlapm ListProofs.tla
    tlapm SessionProofs.tla
    tlapm GrpcStreamProofs.tla
    tlapm FirestoreWritesProofs.tla
    tlapm FirestoreWatchProofs.tla

`PROJECT.json` lists every run with its module, configuration and properties,
the definitions with the lines they model, the mistakes the properties were
tried against, the findings and the hazards.
