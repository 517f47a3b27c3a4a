------------------------------- MODULE Session -------------------------------
(* The account: UserModel (models/user.dart), the LoginScreen and the        *)
(* RegistrationScreen that call it, and the menu's logout.                   *)
(*                                                                           *)
(* A login or a logout is a task that stops at every await: the button's     *)
(* animation, the request, the write of the flag to the preferences, the     *)
(* write of the profile to the storage.  Tasks overlap freely, for nothing   *)
(* in the program makes one wait for another, and a screen that is left does *)
(* not stop the task it started: its callbacks then throw.                   *)
(*                                                                           *)
(* "google" stands for Facebook as well and "apple" for the SMS login: the   *)
(* pairs are the same code in UserModel but for the request they make.       *)
EXTENDS Integers, Sequences

CONSTANTS
  Attempts,   \* tasks, each used once; their number is the bound
  Accounts,
  Nothing,
  Buttons,    \* the buttons of the LoginScreen: "email", "google", "apple"
  FStoreKeys  \* keys of LocalStorage('fstore')

ASSUME SessionAssumption ==
  /\ Buttons \subseteq {"email", "google", "apple"}
  /\ Nothing \notin Accounts \cup BOOLEAN
  /\ {"userInfo", "wishlist", "jwtToken"} \subseteq FStoreKeys
  /\ "token" \notin Attempts  \* who awaits the write of the JWT: nobody

VARIABLES
  user, loggedIn, loading,         \* UserModel
  screen, registration,            \* LoginScreen open; RegistrationScreen above it
  isLoading, button,               \* _LoginPageState: isLoading, its AnimationController
  tasks,                           \* [Attempts -> Task]
  fmem, fdisk, fwrites, flost,     \* LocalStorage('fstore')
  pmem, pdisk, pwrites, plost,     \* SharedPreferences
  upsets                           \* history: what went wrong so far

modelVars  == <<user, loggedIn, loading>>
screenVars == <<screen, registration, isLoading, button>>
fVars == <<fmem, fdisk, fwrites, flost>>
pVars == <<pmem, pdisk, pwrites, plost>>
vars == <<modelVars, screenVars, tasks, fVars, pVars, upsets>>

FS == INSTANCE Store WITH
        Keys <- FStoreKeys, mem <- fmem, disk <- fdisk, writes <- fwrites, lost <- flost
PR == INSTANCE Store WITH
        Keys <- {"loggedIn"}, mem <- pmem, disk <- pdisk, writes <- pwrites, lost <- plost

Kinds    == Buttons \cup {"register", "logout", "none"}
Saving   == {"flag", "info"}
Leaving  == {"forgetInfo", "forgetWishlist", "clearFlag"}
OnButton == {"animating", "stopping"}
Pcs == {"unused", "request", "jwt", "firebase", "threw", "ended"}
         \cup OnButton \cup Saving \cup Leaving
Task == [kind : Kinds, pc : Pcs, account : Accounts \cup {Nothing}, here : BOOLEAN]

At(pcs) == \E a \in Attempts : tasks[a].pc \in pcs

(* Nothing of a task matters once it has ended. *)
Ended == [kind |-> "none", pc |-> "ended", account |-> Nothing, here |-> FALSE]

Moved(ts, a, pc) ==
  [ts EXCEPT ![a] = IF pc = "ended" THEN Ended ELSE [@ EXCEPT !.pc = pc]]

-----------------------------------------------------------------------------
(* The login button's AnimationController.  A forward() or reverse() cancels *)
(* the animation under way, and whoever awaits that one waits for ever, as   *)
(* does everyone when the screen and its controller are disposed.            *)

Cancelled(ts) ==
  [a \in Attempts |-> IF ts[a].pc \in OnButton THEN Ended ELSE ts[a]]

Gone(ts, kinds) ==
  [a \in Attempts |-> IF ts[a].kind \in kinds THEN [ts[a] EXCEPT !.here = FALSE] ELSE ts[a]]

(* The LoginScreen is disposed. *)
CloseLogin(ts) ==
  /\ screen' = FALSE
  /\ isLoading' = FALSE
  /\ button' = "idle"
  /\ tasks' = Gone(Cancelled(ts), Buttons)
  /\ UNCHANGED registration

(* _stopAnimation by the task a, which goes on at pc, and awaits the reverse *)
(* when pc is "stopping".                                                    *)
StopAnimation(a, pc) ==
  /\ button' = "reverse"
  /\ tasks' = Moved(Cancelled(tasks), a, pc)
  /\ UNCHANGED <<screen, registration, isLoading>>

(* _welcomeMessage replaces the topmost page by the home page: the login or, *)
(* above it, the registration; then the button is left at b and spinning.    *)
Welcome(ts, b, spinning) ==
  \/ ~registration /\ CloseLogin(ts)
  \/ /\ registration
     /\ registration' = FALSE
     /\ tasks' = Gone(Cancelled(ts), {"register"})
     /\ button' = b
     /\ isLoading' = spinning
     /\ UNCHANGED screen

Ends(a, pc) ==
  /\ tasks' = Moved(tasks, a, pc)
  /\ UNCHANGED screenVars

-----------------------------------------------------------------------------
(* The user.                                                                 *)

OpenLogin ==
  /\ ~loggedIn
  /\ ~screen
  /\ screen' = TRUE
  /\ UNCHANGED <<modelVars, registration, isLoading, button, tasks, fVars, pVars, upsets>>

LeaveLogin ==
  /\ screen /\ ~registration
  /\ CloseLogin(tasks)
  /\ UNCHANGED <<modelVars, fVars, pVars, upsets>>

OpenRegistration ==
  /\ screen /\ ~registration
  /\ registration' = TRUE
  /\ UNCHANGED <<modelVars, screen, isLoading, button, tasks, fVars, pVars, upsets>>

LeaveRegistration ==
  /\ registration
  /\ registration' = FALSE
  /\ tasks' = Gone(tasks, {"register"})
  /\ UNCHANGED <<modelVars, screen, isLoading, button, fVars, pVars, upsets>>

(* A login button: _playAnimation, which is over at once when the button is  *)
(* already at its end, and then the request; only the email button looks at  *)
(* isLoading first, and only UserModel.login raises loading.                 *)
Tap(a, kind, account) ==
  LET now == button = "shown"
      pc  == IF now THEN "request" ELSE "animating" IN
  /\ tasks[a].pc = "unused"
  /\ screen /\ ~registration
  /\ kind = "email" => ~isLoading
  /\ isLoading' = TRUE
  /\ button' = IF now THEN "shown" ELSE "forward"
  /\ tasks' = [Cancelled(tasks) EXCEPT
       ![a] = [kind |-> kind, pc |-> pc, account |-> account, here |-> TRUE]]
  /\ loading' = (loading \/ (now /\ kind = "email"))
  /\ UNCHANGED <<user, loggedIn, screen, registration, fVars, pVars, upsets>>

(* The button of the RegistrationScreen: createUser. *)
Register(a, account) ==
  /\ tasks[a].pc = "unused"
  /\ registration
  /\ loading' = TRUE
  /\ tasks' = [tasks EXCEPT
       ![a] = [kind |-> "register", pc |-> "request", account |-> account, here |-> TRUE]]
  /\ UNCHANGED <<user, loggedIn, screenVars, fVars, pVars, upsets>>

(* Mutant: loggedIn stays up.                                                *)
MutLogout(a) ==
  /\ tasks[a].pc = "unused"
  /\ loggedIn
  /\ user' = Nothing
  /\ FS!SetItem("userInfo", Nothing, a)
  /\ tasks' = [tasks EXCEPT
       ![a] = [kind |-> "logout", pc |-> "forgetInfo", account |-> Nothing, here |-> FALSE]]
  /\ upsets' = upsets \cup {u \in {"overlap"} : At(Saving)}
  /\ UNCHANGED <<loggedIn, loading, screenVars, pVars>>

(* The menu's logout, up to the first await. *)
Logout(a) ==
  /\ tasks[a].pc = "unused"
  /\ loggedIn
  /\ user' = Nothing
  /\ loggedIn' = FALSE
  /\ FS!SetItem("userInfo", Nothing, a)
  /\ tasks' = [tasks EXCEPT
       ![a] = [kind |-> "logout", pc |-> "forgetInfo", account |-> Nothing, here |-> FALSE]]
  /\ upsets' = upsets \cup {u \in {"overlap"} : At(Saving)}
  /\ UNCHANGED <<loading, screenVars, pVars>>

-----------------------------------------------------------------------------
(* The animation ends.                                                       *)

ForwardEnds ==
  /\ button = "forward"
  /\ button' = "shown"
  /\ tasks' = [a \in Attempts |->
       IF tasks[a].pc = "animating" THEN [tasks[a] EXCEPT !.pc = "request"] ELSE tasks[a]]
  /\ loading' = (loading \/ \E a \in Attempts :
                   tasks[a].pc = "animating" /\ tasks[a].kind = "email")
  /\ UNCHANGED <<user, loggedIn, screen, registration, isLoading, fVars, pVars, upsets>>

ReverseEnds ==
  /\ button = "reverse"
  /\ \/ At({"stopping"}) /\ Welcome(tasks, "idle", FALSE)
     \/ ~At({"stopping"}) /\ button' = "idle" /\ isLoading' = FALSE
          /\ UNCHANGED <<screen, registration, tasks>>
  /\ UNCHANGED <<modelVars, fVars, pVars, upsets>>

-----------------------------------------------------------------------------
(* The request is answered.                                                  *)

(* Mutant: the profile is saved before the flag.                             *)
MutAnswer(a) ==
  /\ tasks[a].pc = "request"
  /\ user' = tasks[a].account
  /\ loggedIn' = TRUE
  /\ FS!SetItem("userInfo", tasks[a].account, "token")
  /\ PR!SetItem("loggedIn", TRUE, a)
  /\ tasks' = Moved(tasks, a, "flag")
  /\ upsets' = upsets \cup {u \in {"overlap"} : At(Leaving)}
  /\ UNCHANGED <<loading, screenVars>>

(* With an account: saveUser up to prefs.setBool. *)
Answer(a) ==
  /\ tasks[a].pc = "request"
  /\ user' = tasks[a].account
  /\ loggedIn' = TRUE
  /\ PR!SetItem("loggedIn", TRUE, a)
  /\ tasks' = Moved(tasks, a, "flag")
  /\ upsets' = upsets \cup {u \in {"overlap"} : At(Leaving)}
  /\ UNCHANGED <<loading, screenVars, fVars>>

(* Mutant: the fail callback forgets the button.                             *)
MutFails(a) ==
  /\ Ends(a, IF tasks[a].here THEN "ended" ELSE "threw")
  /\ loading' = (loading /\ tasks[a].kind # "email")

(* The catch clause: the fail callback of a screen that is still there stops *)
(* the button or, on the registration page, lets loading be lowered.  login  *)
(* lowers loading before it calls fail; loginApple calls fail without the    *)
(* message it takes, which throws wherever the user is.                      *)
Fails(a) ==
  /\ \/ /\ tasks[a].kind \in {"email", "google"} /\ tasks[a].here
        /\ StopAnimation(a, "ended")
     \/ /\ tasks[a].kind = "register" /\ tasks[a].here
        /\ Ends(a, "ended")
     \/ /\ tasks[a].kind = "apple" \/ ~tasks[a].here
        /\ Ends(a, "threw")
  /\ loading' = (loading /\ ~(tasks[a].kind = "email"
                                \/ (tasks[a].kind = "register" /\ tasks[a].here)))

AnswerFails(a) ==
  /\ tasks[a].pc = "request"
  /\ Fails(a)
  /\ UNCHANGED <<user, loggedIn, fVars, pVars, upsets>>

(* After saveUser: the success callback.  That of the email login goes on    *)
(* for the JWT and is not awaited; the others welcome the user, which throws *)
(* and so ends in the catch clause when the page is gone.                    *)
Success(a) ==
  \/ /\ tasks[a].kind = "email"
     /\ Ends(a, "jwt")
     /\ loading' = FALSE
  \/ /\ tasks[a].kind \in {"google", "apple"} /\ tasks[a].here
     /\ Welcome(Moved(tasks, a, "ended"), "reverse", isLoading)
     /\ UNCHANGED loading
  \/ /\ tasks[a].kind = "register" /\ tasks[a].here
     /\ registration' = FALSE
     /\ tasks' = Gone(Moved(tasks, a, "ended"), {"register"})
     /\ loading' = FALSE
     /\ UNCHANGED <<screen, isLoading, button>>
  \/ /\ tasks[a].kind # "email" /\ ~tasks[a].here
     /\ Fails(a)

(* Mutant: the flag is not cleared.                                          *)
MutWishlistForgotten(a) ==
  /\ tasks[a].pc = "forgetWishlist"
  /\ FS!Written(a)
  /\ Ends(a, "ended")
  /\ UNCHANGED <<modelVars, pVars, upsets>>

(* saveUser after prefs.setBool: the profile goes to the storage. *)
FlagWritten(a) ==
  /\ tasks[a].pc = "flag"
  /\ PR!Written(a)
  /\ FS!SetItem("userInfo", tasks[a].account, a)
  /\ Ends(a, "info")
  /\ UNCHANGED <<modelVars, upsets>>

(* saveUser catches what a write throws, and the login goes on. *)
FlagFails(a) ==
  /\ tasks[a].pc = "flag"
  /\ PR!WriteFails(a)
  /\ Success(a)
  /\ upsets' = upsets \cup {"failure"}
  /\ UNCHANGED <<user, loggedIn, fVars>>

InfoEnds(a) ==
  /\ tasks[a].pc = "info"
  /\ \/ FS!Written(a) /\ UNCHANGED upsets
     \/ FS!WriteFails(a) /\ upsets' = upsets \cup {"failure"}
  /\ Success(a)
  /\ UNCHANGED <<user, loggedIn, pVars>>

(* _login's success callback: getJwtAuth, and a save nobody awaits. *)
Jwt(a) ==
  /\ tasks[a].pc = "jwt"
  /\ FS!SetItem("jwtToken", tasks[a].account, "token")
  /\ Ends(a, "firebase")
  /\ UNCHANGED <<modelVars, pVars, upsets>>

JwtFails(a) ==
  /\ tasks[a].pc = "jwt"
  /\ Ends(a, "threw")
  /\ UNCHANGED <<modelVars, fVars, pVars, upsets>>

TokenEnds ==
  /\ FS!Written("token") \/ FS!WriteFails("token")
  /\ UNCHANGED <<modelVars, screenVars, tasks, pVars, upsets>>

(* The Firebase sign-in ends, well or not; then _stopAnimation is awaited.   *)
Firebase(a) ==
  /\ tasks[a].pc = "firebase"
  /\ \/ tasks[a].here /\ StopAnimation(a, "stopping")
     \/ ~tasks[a].here /\ Ends(a, "threw")
  /\ UNCHANGED <<modelVars, fVars, pVars, upsets>>

-----------------------------------------------------------------------------
(* logout after its awaits; a write that fails ends it there.                *)

InfoForgotten(a) ==
  /\ tasks[a].pc = "forgetInfo"
  /\ FS!WrittenThenSet(a, "wishlist", Nothing)
  /\ Ends(a, "forgetWishlist")
  /\ UNCHANGED <<modelVars, pVars, upsets>>

WishlistForgotten(a) ==
  /\ tasks[a].pc = "forgetWishlist"
  /\ FS!Written(a)
  /\ PR!SetItem("loggedIn", FALSE, a)
  /\ Ends(a, "clearFlag")
  /\ UNCHANGED <<modelVars, upsets>>

FlagCleared(a) ==
  /\ tasks[a].pc = "clearFlag"
  /\ PR!Written(a)
  /\ Ends(a, "ended")
  /\ UNCHANGED <<modelVars, fVars, upsets>>

LogoutFails(a) ==
  /\ \/ tasks[a].pc \in {"forgetInfo", "forgetWishlist"} /\ FS!WriteFails(a) /\ UNCHANGED pVars
     \/ tasks[a].pc = "clearFlag" /\ PR!WriteFails(a) /\ UNCHANGED fVars
  /\ Ends(a, "ended")
  /\ upsets' = upsets \cup {"failure"}
  /\ UNCHANGED modelVars

-----------------------------------------------------------------------------
(* The app is killed and started again: getUser.                             *)
Restart ==
  /\ FS!Reload
  /\ PR!Reload
  /\ user' = fdisk["userInfo"]
  /\ loggedIn' = (fdisk["userInfo"] # Nothing)
  /\ loading' = FALSE
  /\ screen' = FALSE
  /\ registration' = FALSE
  /\ isLoading' = FALSE
  /\ button' = "idle"
  /\ tasks' = [a \in Attempts |->
       IF tasks[a].pc = "unused" THEN tasks[a] ELSE Ended]
  /\ upsets' = upsets \cup {u \in {"crash"} : At(Saving \cup Leaving)}

Init ==
  /\ user = Nothing
  /\ loggedIn = FALSE
  /\ loading = FALSE
  /\ screen = FALSE
  /\ registration = FALSE
  /\ isLoading = FALSE
  /\ button = "idle"
  /\ tasks = [a \in Attempts |->
       [kind |-> "none", pc |-> "unused", account |-> Nothing, here |-> FALSE]]
  /\ FS!StoreInit
  /\ PR!StoreInit
  /\ upsets = {}

Gestures ==
  \/ OpenLogin \/ LeaveLogin \/ OpenRegistration \/ LeaveRegistration
  \/ \E a \in Attempts :
       \/ \E account \in Accounts :
            \/ \E kind \in Buttons : Tap(a, kind, account)
            \/ Register(a, account)
       \/ Logout(a)

Continuations ==
  \/ ForwardEnds \/ ReverseEnds \/ TokenEnds
  \/ \E a \in Attempts :
       \/ Answer(a) \/ AnswerFails(a)
       \/ FlagWritten(a) \/ FlagFails(a) \/ InfoEnds(a)
       \/ Jwt(a) \/ JwtFails(a) \/ Firebase(a)
       \/ InfoForgotten(a) \/ WishlistForgotten(a) \/ FlagCleared(a) \/ LogoutFails(a)

Next == Gestures \/ Continuations \/ Restart

(* Animations, requests and writes end; the user owes nothing, and the phone *)
(* need not kill the app.                                                    *)
Spec == Init /\ [][Next]_vars
FairSpec == Spec /\ WF_vars(Continuations)

-----------------------------------------------------------------------------
TypeOK ==
  /\ user \in Accounts \cup {Nothing}
  /\ {loggedIn, loading, screen, registration, isLoading} \subseteq BOOLEAN
  /\ button \in {"idle", "forward", "shown", "reverse"}
  /\ tasks \in [Attempts -> Task]
  /\ FS!StoreOK(Accounts)
  /\ PR!StoreOK(BOOLEAN)
  /\ upsets \subseteq {"overlap", "failure", "crash"}

(* The menu offers a login exactly when nobody is logged in, through every   *)
(* overlap of logins, logouts, failures and restarts.                        *)
LoggedInHasUser == loggedIn <=> user # Nothing

(* When no save or logout is under way, the profile a restart would load and *)
(* the flag in the preferences are those of the user on display, however     *)
(* many logins overlapped: the last one answered is the last one saved.      *)
(* Excluded are a login that overlapped a logout, a write that failed and a  *)
(* save or logout cut short, for each of which the stores do disagree.       *)
StoresAgree ==
  upsets = {} /\ ~At(Saving \cup Leaving) /\ FS!Settled /\ PR!Settled =>
    /\ fdisk["userInfo"] = user
    /\ (pdisk["loggedIn"] = TRUE) <=> (user # Nothing)

(* At every moment, so also for a process killed between the two writes, a   *)
(* stored profile comes with a raised flag: saveUser raises the flag first,  *)
(* logout deletes the profile first.                                         *)
ProfileHasFlag ==
  "overlap" \notin upsets /\ fdisk["userInfo"] # Nothing => pdisk["loggedIn"] = TRUE

(* The button becomes usable again and UserModel.loading goes down, unless a *)
(* callback threw: a JWT request that fails and the fail callback of the     *)
(* Apple login leave the button blocked, a registration that ends after its  *)
(* page had been left leaves loading up.                                     *)
Threw == At({"threw"})
ComesToRest == (isLoading \/ loading) ~> (Threw \/ ~(isLoading \/ loading))
=============================================================================
