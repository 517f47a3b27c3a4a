---------------------------- MODULE PostSubmission ----------------------------
(* Writing an article in the app: the settings tab that offers it to the     *)
(* roles that may (screens/settings.dart), _NewPostScreenState               *)
(* (screens/post_management/new_post.dart), WordPress.createBlog             *)
(* (services/wordpress.dart), and the JSON web token that an email login     *)
(* stores and no logout removes (screens/login.dart, models/user.dart).      *)
(*                                                                           *)
(* The logins themselves are the module Session's; here one is the moment    *)
(* UserModel gets its user, and for an email login the later one at which    *)
(* the token comes.                                                          *)
EXTENDS Integers, Sequences, SequencesExt, FiniteSets

CONSTANTS
  Accounts,
  Authors,        \* accounts with a role of addPostAccessibleRoles
  Nothing,        \* no user, no token
  MaxLogins,      \* bound: logins
  MaxSubmissions, \* bound: articles submitted
  MaxTabs         \* bound: MainTabs on the navigator

ASSUME PostAssumption ==
  /\ Authors \subseteq Accounts
  /\ Nothing \notin Accounts
  /\ MaxLogins \in Nat
  /\ MaxSubmissions \in Nat
  /\ MaxTabs \in Nat

VARIABLES
  user, role,     \* UserModel.user; whether its role may post
  token,          \* the stored jwtToken, as the account it was made for
  awaiting,       \* accounts whose email login awaits getJwtAuth
  tabs,           \* for each MainTabs, isAbleToPostManagement, or "unchecked"
  open, author, postLoading,  \* the NewPostScreen; user as its last build read it
  submissions,    \* the calls of createBlog so far
  logins,         \* how many logins there were
  login,          \* history: each account's last login: "none", "tokenless", "token"
  loginsOverlapped  \* history: a login while the token of another was awaited

accountVars == <<user, role, token, awaiting, logins, login, loginsOverlapped>>
screenVars  == <<open, author, postLoading>>
postVars == <<accountVars, tabs, screenVars, submissions>>

Somebody == Accounts \cup {Nothing}
Pcs == {"token", "upload", "post", "popping", "restoring", "ended"}

(* The author it is signed with, the account whose token it is sent with and *)
(* whether that was the author's own login, how far createBlog has come, and *)
(* whether the screen it was made on is still there.                         *)
Submission == [author : Accounts, as : Somebody, own : BOOLEAN, pc : Pcs, here : BOOLEAN]

PostTypeOK ==
  /\ user \in Somebody /\ role \in BOOLEAN /\ token \in Somebody
  /\ awaiting \subseteq Accounts
  /\ tabs \in Seq({"unchecked", "yes", "no"})
  /\ open \in BOOLEAN /\ author \in Somebody /\ postLoading \in BOOLEAN
  /\ submissions \in Seq(Submission)
  /\ login \in [Accounts -> {"none", "tokenless", "token"}]
  /\ loginsOverlapped \in BOOLEAN

-----------------------------------------------------------------------------
PostInit ==
  /\ user = Nothing /\ role = FALSE /\ token = Nothing
  /\ awaiting = {} /\ logins = 0 /\ loginsOverlapped = FALSE
  /\ login = [a \in Accounts |-> "none"]
  /\ tabs = <<"unchecked">>
  /\ open = FALSE /\ author = Nothing /\ postLoading = FALSE
  /\ submissions = <<>>

(* _welcomeMessage and _welcomeDiaLog push another MainTabs, unless the      *)
(* screen was left meanwhile or, for the latter, goes back to one.           *)
Welcomed ==
  \/ UNCHANGED tabs
  \/ ~open /\ Len(tabs) < MaxTabs /\ tabs' = Append(tabs, "unchecked")

(* The answer to a login names the user, and for some logins the role.       *)
LoggedIn(a, named) ==
  /\ logins < MaxLogins
  /\ logins' = logins + 1
  /\ user' = a
  /\ role' = (named /\ a \in Authors)
  /\ login' = [login EXCEPT ![a] = "tokenless"]
  /\ loginsOverlapped' = (loginsOverlapped \/ awaiting # {})
  /\ UNCHANGED <<token, screenVars, submissions>>

(* UserModel.login, whose success callback asks for the token; nobody else   *)
(* does.                                                                     *)
LoginByEmail(a) ==
  /\ a \notin awaiting
  /\ awaiting' = awaiting \cup {a}
  /\ LoggedIn(a, TRUE)
  /\ UNCHANGED tabs

(* UserModel.createUser: getUserInfo brings the role as for an email login.  *)
Register(a) ==
  /\ LoggedIn(a, TRUE)
  /\ Welcomed
  /\ UNCHANGED awaiting

(* By Google, Facebook, Apple or telephone: the user has no role.            *)
LoginOtherwise(a) ==
  /\ LoggedIn(a, FALSE)
  /\ Welcomed
  /\ UNCHANGED awaiting

(* Mutant: a token that is there already is kept.                            *)
MutStored(a) == IF token = Nothing THEN a ELSE token
Stored(a) == a

(* getJwtAuth answers, or fails, which leaves the stored token as it is.     *)
JwtComes(a) ==
  /\ a \in awaiting
  /\ awaiting' = awaiting \ {a}
  /\ token' = Stored(a)
  /\ login' = [login EXCEPT ![a] = "token"]
  /\ Welcomed
  /\ UNCHANGED <<user, role, logins, loginsOverlapped, screenVars, submissions>>

JwtFails(a) ==
  /\ a \in awaiting
  /\ awaiting' = awaiting \ {a}
  /\ UNCHANGED <<user, role, token, logins, login, loginsOverlapped, tabs, screenVars, submissions>>

(* logout: the token stays, and so does what the tabs were told.             *)
Logout ==
  /\ user # Nothing
  /\ ~open
  /\ user' = Nothing
  /\ role' = FALSE
  /\ UNCHANGED <<token, awaiting, logins, login, loginsOverlapped, tabs, screenVars, submissions>>

(* The app is started again: the profile was stored without its role.        *)
Restart ==
  /\ role' = FALSE
  /\ awaiting' = {}
  /\ tabs' = <<"unchecked">>
  /\ open' = FALSE /\ author' = Nothing /\ postLoading' = FALSE
  /\ submissions' = [n \in DOMAIN submissions |->
                       [submissions[n] EXCEPT !.pc = "ended", !.here = FALSE]]
  /\ UNCHANGED <<user, token, logins, login, loginsOverlapped>>

(* The settings tab's first layout, once for each MainTabs: checkAddPostRole *)
(* if there is a user.                                                       *)
CheckAddPostRole ==
  /\ ~open
  /\ Last(tabs) = "unchecked"
  /\ tabs' = [tabs EXCEPT ![Len(tabs)] = IF user # Nothing /\ role THEN "yes" ELSE "no"]
  /\ UNCHANGED <<accountVars, screenVars, submissions>>

BackToTabs ==
  /\ ~open
  /\ Len(tabs) > 1
  /\ tabs' = Front(tabs)
  /\ UNCHANGED <<accountVars, screenVars, submissions>>

-----------------------------------------------------------------------------
OpenNewPost ==
  /\ ~open
  /\ Last(tabs) = "yes"
  /\ open' = TRUE
  /\ author' = user
  /\ UNCHANGED <<accountVars, tabs, postLoading, submissions>>

Rebuild ==
  /\ open
  /\ author' = user
  /\ UNCHANGED <<accountVars, tabs, open, postLoading, submissions>>

(* The screen is disposed of, and with it the button's animation, which what *)
(* was submitted on it awaits for ever.                                      *)
Abandoned(S) ==
  [n \in DOMAIN S |->
     [S[n] EXCEPT !.pc = IF @ \in {"popping", "restoring"} THEN "ended" ELSE @,
                  !.here = FALSE]]

Closed(S) ==
  /\ open' = FALSE /\ author' = Nothing /\ postLoading' = FALSE
  /\ submissions' = Abandoned(S)

LeaveNewPost ==
  /\ open
  /\ Closed(submissions)
  /\ UNCHANGED <<accountVars, tabs>>

(* Mutant: the button is not disabled while it turns.                        *)
MutMaySubmit == open

(* The guard of the submit button.                                           *)
MaySubmit == open /\ ~postLoading

(* _submitPost with the form filled.  Without a user it throws once the      *)
(* button turns.                                                             *)
SubmitPost ==
  /\ MaySubmit
  /\ postLoading' = TRUE
  /\ \/ author = Nothing /\ UNCHANGED submissions
     \/ /\ author # Nothing
        /\ Len(submissions) < MaxSubmissions
        /\ submissions' = Append(submissions,
             [author |-> author, as |-> Nothing, own |-> FALSE, pc |-> "token", here |-> TRUE])
  /\ UNCHANGED <<accountVars, tabs, open, author>>

At(n, pc) == [submissions EXCEPT ![n].pc = pc]

(* whenComplete after a success: the message, then the animation back, then  *)
(* the screen is popped.  If the screen was left the callback throws.        *)
Succeeds(n) ==
  /\ submissions' = At(n, IF submissions[n].here THEN "popping" ELSE "ended")
  /\ UNCHANGED screenVars

(* Mutant: catchError forgets the button.                                    *)
MutFails(n) ==
  /\ submissions' = At(n, "ended")
  /\ UNCHANGED screenVars

(* whenComplete and then catchError: the second reverse() cancels the first, *)
(* whose pop never comes, unless the failure came before the first frame of  *)
(* the animation; then both end at once.                                     *)
Fails(n) ==
  \/ /\ submissions' = At(n, IF submissions[n].here THEN "restoring" ELSE "ended")
     /\ UNCHANGED screenVars
  \/ /\ submissions[n].here /\ submissions[n].pc = "upload"
     /\ Closed(At(n, "ended"))

(* The author is still the one logged in, by an email login that brought its *)
(* token.                                                                    *)
OwnLogin(a) == user = a /\ login[a] = "token"

(* getJwtAuthToken: with no token stored createBlog prints and returns.      *)
TokenRead(n) ==
  /\ submissions[n].pc = "token"
  /\ \/ token = Nothing /\ Succeeds(n)
     \/ /\ token # Nothing
        /\ submissions' = [submissions EXCEPT
             ![n].pc = "upload", ![n].as = token, ![n].own = OwnLogin(submissions[n].author)]
        /\ UNCHANGED screenVars
  /\ UNCHANGED <<accountVars, tabs>>

(* uploadImage; a refusal is an answer without an id, which is not looked at. *)
Uploaded(n) ==
  /\ submissions[n].pc = "upload"
  /\ submissions' = At(n, "post")
  /\ UNCHANGED <<accountVars, tabs, screenVars>>

(* The article is created or refused: the answer is not looked at either,    *)
(* and both go on as a success.                                              *)
Posted(n) ==
  /\ submissions[n].pc = "post"
  /\ Succeeds(n)
  /\ UNCHANGED <<accountVars, tabs>>

(* The connection is lost before or after the server has done its part.      *)
RequestFails(n) ==
  /\ submissions[n].pc \in {"upload", "post"}
  /\ Fails(n)
  /\ UNCHANGED <<accountVars, tabs>>

AnimationEnds(n) ==
  /\ \/ /\ submissions[n].pc = "popping"
        /\ Closed(At(n, "ended"))
     \/ /\ submissions[n].pc = "restoring"
        /\ submissions' = At(n, "ended")
        /\ postLoading' = FALSE
        /\ UNCHANGED <<open, author>>
  /\ UNCHANGED <<accountVars, tabs>>

GoesOn(n) == TokenRead(n) \/ Uploaded(n) \/ Posted(n) \/ RequestFails(n) \/ AnimationEnds(n)
PostNext ==
  \/ \E a \in Accounts : LoginByEmail(a) \/ Register(a) \/ LoginOtherwise(a)
                         \/ JwtComes(a) \/ JwtFails(a)
  \/ Logout \/ Restart \/ CheckAddPostRole \/ BackToTabs
  \/ OpenNewPost \/ Rebuild \/ LeaveNewPost \/ SubmitPost
  \/ \E n \in DOMAIN submissions : GoesOn(n)

(* Requests end, if only by a connection error, and animations end.          *)
PostFairness == \A n \in 1 .. MaxSubmissions : WF_postVars(n \in DOMAIN submissions /\ GoesOn(n))
PostSpec == PostInit /\ [][PostNext]_postVars
PostFairSpec == PostSpec /\ PostFairness

-----------------------------------------------------------------------------
(* Of the screen that is open at most one submission is on its way, from the *)
(* tap until the animation has ended, and meanwhile the button turns: an     *)
(* article is not sent twice by a second tap, and a request that ends after  *)
(* its screen was left does not free the button of another.                  *)
OnItsWay(n) == submissions[n].here /\ submissions[n].pc # "ended"

OneAtATime ==
  /\ PostTypeOK
  /\ \A n \in DOMAIN submissions : OnItsWay(n) => open /\ postLoading
  /\ \A m, n \in DOMAIN submissions : OnItsWay(m) /\ OnItsWay(n) => m = n

(* A token is sent with an article of its own account, when that account is  *)
(* the one logged in, its login was by email and brought the token, and no   *)
(* two logins overlapped: not so after another login (models/user.dart:229   *)
(* leaves the token of the account that logs out).                           *)
TokenFitsAuthor ==
  \A n \in DOMAIN submissions :
    LET s == submissions[n] IN
      s.as # Nothing /\ s.own /\ ~loginsOverlapped => s.as = s.author

(* A submission of the open screen ends: the button can be used again or the *)
(* screen is left, whatever fails; but for a submission without a user,      *)
(* whose exception leaves the button turning.                                *)
ButtonComesBack ==
  LET turns == open /\ postLoading /\ \E n \in DOMAIN submissions : submissions[n].here
  IN  turns ~> ~turns
=============================================================================
