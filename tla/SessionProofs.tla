---------------------------- MODULE SessionProofs ----------------------------
(* Proofs about Session: its types, the agreement of the model's loggedIn    *)
(* with its user, the flag in the preferences that every stored profile      *)
(* comes with, and the agreement of the two files with the user.             *)
EXTENDS Session, TLAPS, SequenceTheorems

FP == INSTANCE StoreProofs WITH
        Keys <- FStoreKeys, mem <- fmem, disk <- fdisk, writes <- fwrites, lost <- flost
PP == INSTANCE StoreProofs WITH
        Keys <- {"loggedIn"}, mem <- pmem, disk <- pdisk, writes <- pwrites, lost <- plost

-----------------------------------------------------------------------------
(* The tasks.                                                                *)

Waits == Saving \cup Leaving

GoodTask == {t \in Task : t.account = Nothing => t.pc \in {"unused", "ended"} \cup Leaving}
TaskInv == tasks \in [Attempts -> GoodTask]

(* What a step may do to a task that it does not end or move on.             *)
Keeps(ts2, ts, b) ==
  \/ ts2[b].pc = ts[b].pc /\ ts2[b].account = ts[b].account
  \/ ts2[b].pc \notin Waits \cup {"unused"} /\ ts[b].pc \notin Waits

(* Moved touches the task it names only, and keeps the tasks typed. *)
LEMMA MovedTasks ==
  ASSUME NEW ts \in [Attempts -> GoodTask], NEW a \in Attempts, NEW pc \in Pcs,
         ts[a].account = Nothing => pc \in {"ended"} \cup Leaving
  PROVE  /\ Moved(ts, a, pc) \in [Attempts -> GoodTask]
         /\ Moved(ts, a, pc)[a].pc = pc
         /\ pc # "ended" => Moved(ts, a, pc)[a].account = ts[a].account
         /\ \A b \in Attempts \ {a} : Moved(ts, a, pc)[b] = ts[b]
<1>1. Ended \in GoodTask
  BY DEF Ended, GoodTask, Task, Kinds, Pcs
<1>2. ts[a] \in Task
  BY DEF GoodTask
<1>3. [ts[a] EXCEPT !.pc = pc] \in GoodTask
  BY <1>2 DEF GoodTask, Task
<1>4. [ts[a] EXCEPT !.pc = pc].pc = pc /\ [ts[a] EXCEPT !.pc = pc].account = ts[a].account
  BY <1>2 DEF Task
<1> QED  BY <1>1, <1>3, <1>4 DEF Moved, Ended

(* Only who waits for the animation is cancelled. *)
LEMMA CancelledTasks ==
  ASSUME NEW ts \in [Attempts -> GoodTask]
  PROVE  /\ Cancelled(ts) \in [Attempts -> GoodTask]
         /\ \A b \in Attempts : Keeps(Cancelled(ts), ts, b)
<1>1. Ended \in GoodTask
  BY DEF Ended, GoodTask, Task, Kinds, Pcs
<1>2. Cancelled(ts) \in [Attempts -> GoodTask]
  BY <1>1 DEF Cancelled
<1>3. ASSUME NEW b \in Attempts  PROVE Keeps(Cancelled(ts), ts, b)
  BY DEF Cancelled, Keeps, Ended, OnButton, Waits, Saving, Leaving
<1> QED  BY <1>2, <1>3

(* A page that goes away stops none of its tasks. *)
LEMMA GoneTasks ==
  ASSUME NEW ts \in [Attempts -> GoodTask], NEW kinds
  PROVE  /\ Gone(ts, kinds) \in [Attempts -> GoodTask]
         /\ \A b \in Attempts : /\ Gone(ts, kinds)[b].pc = ts[b].pc
                              /\ Gone(ts, kinds)[b].account = ts[b].account
<1>1. ASSUME NEW b \in Attempts
      PROVE  /\ [ts[b] EXCEPT !.here = FALSE] \in GoodTask
             /\ [ts[b] EXCEPT !.here = FALSE].pc = ts[b].pc
             /\ [ts[b] EXCEPT !.here = FALSE].account = ts[b].account
  BY DEF GoodTask, Task
<1> QED  BY <1>1 DEF Gone

-----------------------------------------------------------------------------
(* The tasks after each operation of the login screen.                       *)

AllKeep(ts2, ts) ==
  /\ ts2 \in [Attempts -> GoodTask]
  /\ \A b \in Attempts : Keeps(ts2, ts, b)

(* The task a goes on at an await that is not of a write, or ends.           *)
GoesOn(a, ts2, ts) ==
  /\ ts2 \in [Attempts -> GoodTask]
  /\ ts2[a].pc \notin Waits \cup {"unused"}
  /\ \A b \in Attempts \ {a} : Keeps(ts2, ts, b)

(* The login screen is disposed. *)
LEMMA CloseTasks ==
  ASSUME NEW ts \in [Attempts -> GoodTask], CloseLogin(ts)
  PROVE  AllKeep(tasks', ts)
<1> DEFINE cs == Cancelled(ts)
<1>1. cs \in [Attempts -> GoodTask] /\ \A b \in Attempts : Keeps(cs, ts, b)
  BY CancelledTasks
<1>2. tasks' = Gone(cs, Buttons)
  BY DEF CloseLogin
<1> HIDE DEF cs
<1>3. /\ Gone(cs, Buttons) \in [Attempts -> GoodTask]
      /\ \A b \in Attempts : /\ Gone(cs, Buttons)[b].pc = cs[b].pc
                           /\ Gone(cs, Buttons)[b].account = cs[b].account
  BY <1>1, GoneTasks
<1> QED  BY <1>1, <1>2, <1>3, Zenon DEF AllKeep, Keeps

(* The topmost page is replaced by the home page. *)
LEMMA WelcomeTasks ==
  ASSUME NEW ts \in [Attempts -> GoodTask], NEW x, NEW y, Welcome(ts, x, y)
  PROVE  AllKeep(tasks', ts)
<1>1. CASE CloseLogin(ts)
  BY <1>1, CloseTasks
<1>2. CASE tasks' = Gone(Cancelled(ts), {"register"})
  <2> DEFINE cs == Cancelled(ts)
  <2>1. cs \in [Attempts -> GoodTask] /\ \A b \in Attempts : Keeps(cs, ts, b)
    BY CancelledTasks
  <2> HIDE DEF cs
  <2>3. /\ Gone(cs, {"register"}) \in [Attempts -> GoodTask]
        /\ \A b \in Attempts : /\ Gone(cs, {"register"})[b].pc = cs[b].pc
                             /\ Gone(cs, {"register"})[b].account = cs[b].account
    BY <2>1, GoneTasks
  <2>4. tasks' = Gone(cs, {"register"})
    BY <1>2 DEF cs
  <2> QED  BY <2>1, <2>3, <2>4, Zenon DEF AllKeep, Keeps
<1> QED  BY <1>1, <1>2, Zenon DEF Welcome

(* _stopAnimation called by the task a. *)
LEMMA StopTasks ==
  ASSUME TaskInv, NEW a \in Attempts, NEW pc \in Pcs \ (Waits \cup {"unused"}),
         tasks[a].account = Nothing => pc = "ended",
         tasks[a].pc \notin OnButton, StopAnimation(a, pc)
  PROVE  GoesOn(a, tasks', tasks)
<1> DEFINE cs == Cancelled(tasks)
<1>1. cs \in [Attempts -> GoodTask] /\ \A b \in Attempts : Keeps(cs, tasks, b)
  BY CancelledTasks DEF TaskInv
<1>2. cs[a] = tasks[a]
  BY DEF Cancelled
<1>3. tasks' = Moved(cs, a, pc)
  BY DEF StopAnimation
<1> HIDE DEF cs
<1>4. /\ Moved(cs, a, pc) \in [Attempts -> GoodTask]
      /\ Moved(cs, a, pc)[a].pc = pc
      /\ \A b \in Attempts \ {a} : Moved(cs, a, pc)[b] = cs[b]
  BY <1>1, <1>2, MovedTasks
<1> QED  BY <1>1, <1>3, <1>4, Zenon DEF GoesOn, Keeps

(* The task a goes on at pc. *)
LEMMA EndsTasks ==
  ASSUME TaskInv, NEW a \in Attempts, NEW pc \in Pcs,
         tasks[a].account = Nothing => pc \in {"ended"} \cup Leaving,
         Ends(a, pc)
  PROVE  /\ tasks' \in [Attempts -> GoodTask]
         /\ tasks'[a].pc = pc
         /\ \A b \in Attempts \ {a} : tasks'[b] = tasks[b]
  BY MovedTasks DEF TaskInv, Ends

(* The catch clause takes a task away from every write. *)
LEMMA FailsTasks ==
  ASSUME TaskInv, NEW a \in Attempts, tasks[a].account # Nothing,
         tasks[a].pc \notin OnButton, Fails(a)
  PROVE  GoesOn(a, tasks', tasks)
<1>1. "ended" \in Pcs \ (Waits \cup {"unused"}) /\ "threw" \in Pcs \ (Waits \cup {"unused"})
  BY DEF Pcs, Waits, Saving, Leaving
<1>2. CASE StopAnimation(a, "ended")
  BY <1>1, <1>2, StopTasks
<1>3. CASE \E pc \in {"ended", "threw"} : Ends(a, pc)
  BY <1>1, <1>3, EndsTasks DEF GoesOn, Keeps
<1> QED  BY <1>2, <1>3, Zenon DEF Fails

(* So does the success callback. *)
LEMMA SuccessTasks ==
  ASSUME TaskInv, NEW a \in Attempts, tasks[a].account # Nothing,
         tasks[a].pc \notin OnButton, Success(a)
  PROVE  GoesOn(a, tasks', tasks)
<1>1. /\ "ended" \in Pcs \ (Waits \cup {"unused"})
      /\ "jwt" \in Pcs \ (Waits \cup {"unused"})
  BY DEF Pcs, Waits, Saving, Leaving
<1>2. CASE Ends(a, "jwt")
  BY <1>1, <1>2, EndsTasks DEF GoesOn, Keeps
<1> DEFINE ms == Moved(tasks, a, "ended")
<1>3. /\ ms \in [Attempts -> GoodTask] /\ ms[a].pc = "ended"
      /\ \A b \in Attempts \ {a} : ms[b] = tasks[b]
  BY <1>1, MovedTasks DEF TaskInv
<1>4. CASE Welcome(ms, "reverse", isLoading)
  <2> HIDE DEF ms
  <2>1. AllKeep(tasks', ms)
    BY <1>3, <1>4, WelcomeTasks
  <2>2. tasks'[a].pc \notin Waits \cup {"unused"}
    BY <1>1, <1>3, <2>1 DEF AllKeep, Keeps
  <2> QED  BY <1>3, <2>1, <2>2, Zenon DEF GoesOn, AllKeep, Keeps
<1>5. CASE tasks' = Gone(ms, {"register"})
  <2> HIDE DEF ms
  <2>1. /\ tasks' \in [Attempts -> GoodTask]
        /\ \A b \in Attempts : tasks'[b].pc = ms[b].pc /\ tasks'[b].account = ms[b].account
    BY <1>3, <1>5, GoneTasks
  <2> QED  BY <1>1, <1>3, <2>1, Zenon DEF GoesOn, Keeps
<1>6. CASE Fails(a)
  BY <1>6, FailsTasks
<1> QED  BY <1>2, <1>4, <1>5, <1>6, Zenon DEF Success

-----------------------------------------------------------------------------
(* The screens and the model.                                                *)

ScreenOK ==
  /\ screen \in BOOLEAN
  /\ registration \in BOOLEAN
  /\ isLoading \in BOOLEAN
  /\ button \in {"idle", "forward", "shown", "reverse"}

ModelOK ==
  /\ user \in Accounts \cup {Nothing}
  /\ loggedIn \in BOOLEAN
  /\ loading \in BOOLEAN
  /\ upsets \subseteq {"overlap", "failure", "crash"}

(* What Welcome leaves of the screens is typed. *)
LEMMA WelcomeScreen ==
  ASSUME ScreenOK, NEW ts, NEW b \in {"idle", "reverse"}, NEW spinning \in BOOLEAN,
         Welcome(ts, b, spinning)
  PROVE  ScreenOK'
BY Zenon DEF ScreenOK, Welcome, CloseLogin

(* So is what a fail callback leaves. *)
LEMMA FailsScreen ==
  ASSUME ScreenOK, NEW a \in Attempts, Fails(a)
  PROVE  ScreenOK'
BY Zenon DEF ScreenOK, Fails, StopAnimation, Ends, screenVars

(* So is what a success callback leaves. *)
LEMMA SuccessScreen ==
  ASSUME ScreenOK, NEW a \in Attempts, Success(a)
  PROVE  ScreenOK'
<1>1. CASE Welcome(Moved(tasks, a, "ended"), "reverse", isLoading)
  BY <1>1, WelcomeScreen, Zenon DEF ScreenOK
<1>2. CASE Fails(a)
  BY <1>2, FailsScreen
<1>3. CASE Ends(a, "jwt")
  BY <1>3, Zenon DEF ScreenOK, Ends, screenVars
<1>4. CASE registration' = FALSE /\ UNCHANGED <<screen, isLoading, button>>
  BY <1>4, Zenon DEF ScreenOK
<1> QED  BY <1>1, <1>2, <1>3, <1>4, Zenon DEF Success

(* Every step keeps the screens typed. *)
LEMMA ScreenStep ==
  ASSUME ScreenOK, Next
  PROVE  ScreenOK'
<1> USE DEF ScreenOK
<1>1. CASE OpenLogin \/ LeaveLogin \/ OpenRegistration \/ LeaveRegistration
  BY <1>1, Zenon DEF OpenLogin, LeaveLogin, OpenRegistration, LeaveRegistration, CloseLogin
<1>2. ASSUME NEW a \in Attempts, NEW kind \in Buttons, NEW account \in Accounts,
             Tap(a, kind, account)
      PROVE  ScreenOK'
  BY <1>2, Zenon DEF Tap
<1>3. ASSUME NEW a \in Attempts,
             \/ \E account \in Accounts : Register(a, account)
             \/ Logout(a) \/ Answer(a) \/ FlagWritten(a) \/ Jwt(a) \/ JwtFails(a)
             \/ InfoForgotten(a) \/ WishlistForgotten(a) \/ FlagCleared(a) \/ LogoutFails(a)
      PROVE  UNCHANGED screenVars
  BY <1>3, Zenon DEF Register, Logout, Answer, FlagWritten, Jwt, JwtFails,
       InfoForgotten, WishlistForgotten, FlagCleared, LogoutFails, Ends
<1>4. CASE UNCHANGED screenVars
  BY <1>4, Zenon DEF screenVars
<1>5. CASE ForwardEnds
  BY <1>5, Zenon DEF ForwardEnds
<1>6. CASE ReverseEnds
  <2>1. CASE Welcome(tasks, "idle", FALSE)
    BY <2>1, WelcomeScreen, Zenon
  <2>2. CASE button' = "idle" /\ isLoading' = FALSE /\ UNCHANGED <<screen, registration>>
    BY <2>2, Zenon
  <2> QED  BY <1>6, <2>1, <2>2, Zenon DEF ReverseEnds
<1>7. ASSUME NEW a \in Attempts, AnswerFails(a) \/ FlagFails(a) \/ InfoEnds(a)
      PROVE  ScreenOK'
  <2>1. Fails(a) \/ Success(a)
    BY <1>7, Zenon DEF AnswerFails, FlagFails, InfoEnds
  <2> QED  BY <2>1, FailsScreen, SuccessScreen
<1>8. ASSUME NEW a \in Attempts, Firebase(a)
      PROVE  ScreenOK'
  BY <1>8, Zenon DEF Firebase, StopAnimation, Ends, screenVars
<1>9. CASE TokenEnds
  BY <1>9, Zenon DEF TokenEnds, screenVars
<1>10. CASE Restart
  BY <1>10, Zenon DEF Restart
<1> QED
  BY <1>1, <1>2, <1>3, <1>4, <1>5, <1>6, <1>7, <1>8, <1>9, <1>10, Zenon
     DEF Next, Gestures, Continuations

FInv == FP!StoreInv(Accounts, Attempts \cup {"token"})
PInv == PP!StoreInv(BOOLEAN, Attempts)

(* The callbacks keep loading a Boolean. *)
LEMMA FailsLoading ==
  ASSUME loading \in BOOLEAN, NEW a \in Attempts, Fails(a) \/ Success(a)
  PROVE  loading' \in BOOLEAN
BY Zenon DEF Fails, Success

(* Every step keeps the model typed and loggedIn in line with user. *)
LEMMA ModelStep ==
  ASSUME ModelOK, LoggedInHasUser, TaskInv, FInv, Next
  PROVE  ModelOK' /\ LoggedInHasUser'
<1> DEFINE Same == UNCHANGED <<user, loggedIn>> /\ loading' \in BOOLEAN
                     /\ upsets' \in {upsets, upsets \cup {"failure"}}
<1>1. CASE Same
  BY <1>1 DEF ModelOK, LoggedInHasUser
<1>2. ASSUME NEW a \in Attempts, Logout(a)
      PROVE  ModelOK' /\ LoggedInHasUser'
  <2>1. user' = Nothing /\ loggedIn' = FALSE /\ loading' = loading
    BY <1>2 DEF Logout
  <2>2. upsets' \subseteq {"overlap", "failure", "crash"}
    BY <1>2 DEF Logout, ModelOK
  <2> QED  BY <2>1, <2>2, Zenon DEF ModelOK, LoggedInHasUser
<1>3. ASSUME NEW a \in Attempts, Answer(a)
      PROVE  ModelOK' /\ LoggedInHasUser'
  <2>1. user' = tasks[a].account /\ loggedIn' = TRUE /\ loading' = loading
    BY <1>3 DEF Answer
  <2>2. tasks[a].account \in Accounts
    BY <1>3 DEF Answer, TaskInv, GoodTask, Task, Leaving
  <2>3. tasks[a].account # Nothing
    BY <2>2, SessionAssumption
  <2>4. upsets' \subseteq {"overlap", "failure", "crash"}
    BY <1>3 DEF Answer, ModelOK
  <2> QED  BY <2>1, <2>2, <2>3, <2>4, Zenon DEF ModelOK, LoggedInHasUser
<1>4. CASE Restart
  <2>1. fdisk["userInfo"] \in Accounts \cup {Nothing}
    BY SessionAssumption DEF FInv, FP!StoreInv, FP!Maps
  <2>2. /\ user' = fdisk["userInfo"]
        /\ loggedIn' = (fdisk["userInfo"] # Nothing)
        /\ loading' = FALSE
    BY <1>4 DEF Restart
  <2>3. upsets' \subseteq {"overlap", "failure", "crash"}
    BY <1>4 DEF Restart, ModelOK
  <2> QED  BY <2>1, <2>2, <2>3, Zenon DEF ModelOK, LoggedInHasUser
<1>5. ASSUME \/ OpenLogin \/ LeaveLogin \/ OpenRegistration \/ LeaveRegistration
             \/ ReverseEnds \/ TokenEnds
      PROVE  Same
  BY <1>5, Zenon DEF OpenLogin, LeaveLogin, OpenRegistration, LeaveRegistration,
       ReverseEnds, TokenEnds, modelVars, ModelOK
<1>6. ASSUME NEW a \in Attempts,
             \/ FlagWritten(a) \/ Jwt(a) \/ JwtFails(a) \/ Firebase(a)
             \/ InfoForgotten(a) \/ WishlistForgotten(a) \/ FlagCleared(a) \/ LogoutFails(a)
      PROVE  Same
  BY <1>6, Zenon DEF FlagWritten, Jwt, JwtFails, Firebase, InfoForgotten,
       WishlistForgotten, FlagCleared, LogoutFails, modelVars, ModelOK
<1>7. ASSUME NEW a \in Attempts, AnswerFails(a) \/ FlagFails(a) \/ InfoEnds(a)
      PROVE  Same
  <2>1. loading' \in BOOLEAN
    BY <1>7, FailsLoading, Zenon DEF AnswerFails, FlagFails, InfoEnds, ModelOK
  <2> QED  BY <1>7, <2>1, Zenon DEF AnswerFails, FlagFails, InfoEnds
<1>8. ASSUME NEW a \in Attempts, NEW account \in Accounts, Register(a, account)
      PROVE  Same
  BY <1>8, Zenon DEF Register
<1>9. ASSUME NEW a \in Attempts, NEW kind \in Buttons, NEW account \in Accounts,
             Tap(a, kind, account)
      PROVE  Same
  BY <1>9, Zenon DEF Tap, ModelOK
<1>10. ASSUME ForwardEnds  PROVE Same
  BY <1>10, Zenon DEF ForwardEnds, ModelOK
<1> QED
  BY <1>1, <1>2, <1>3, <1>4, <1>5, <1>6, <1>7, <1>8, <1>9, <1>10, Zenon
     DEF Next, Gestures, Continuations

-----------------------------------------------------------------------------
(* The stores: an operation puts a write behind the others or takes one out. *)

Info(m) == m["userInfo"]
Flag(m) == m["loggedIn"]

FGrows(t) ==
  /\ FInv' /\ fdisk' = fdisk
  /\ FP!Longer(fwrites', fwrites, [map |-> fmem', task |-> t])

FShrinks(t) ==
  /\ FInv' /\ fmem' = fmem
  /\ \E d \in DOMAIN fwrites :
       /\ fwrites[d].task = t
       /\ FP!Without(fwrites', fwrites, d)
       /\ fdisk' \in {fdisk, fwrites[d].map}

PGrows(t) ==
  /\ PInv' /\ pdisk' = pdisk
  /\ PP!Longer(pwrites', pwrites, [map |-> pmem', task |-> t])

PShrinks(t) ==
  /\ PInv' /\ pmem' = pmem
  /\ \E d \in DOMAIN pwrites :
       /\ pwrites[d].task = t
       /\ PP!Without(pwrites', pwrites, d)
       /\ pdisk' \in {pdisk, pwrites[d].map}

(* setItem and deleteItem of the storage put a write at the end. *)
LEMMA FSet ==
  ASSUME FInv, NEW k \in {"userInfo", "wishlist", "jwtToken"},
         NEW v \in Accounts \cup {Nothing}, NEW t \in Attempts \cup {"token"},
         FS!SetItem(k, v, t)
  PROVE  FGrows(t) /\ Info(fmem') = IF k = "userInfo" THEN v ELSE Info(fmem)
<1>1. FP!SetItem(k, v, t)
  BY DEF FS!SetItem, FP!SetItem
<1>2. k \in FStoreKeys /\ "userInfo" \in FStoreKeys
  BY SessionAssumption
<1>3. /\ FInv'
      /\ fmem'[k] = v /\ \A l \in FStoreKeys \ {k} : fmem'[l] = fmem[l]
      /\ fdisk' = fdisk
      /\ FP!Longer(fwrites', fwrites, [map |-> fmem', task |-> t])
  BY <1>1, <1>2, FP!SetItemStep DEF FInv
<1> QED  BY <1>2, <1>3 DEF FGrows, Info

(* A write of the storage that ends, well or not, leaves the queue. *)
LEMMA FWrite ==
  ASSUME FInv, NEW t, FS!Written(t) \/ FS!WriteFails(t)
  PROVE  FShrinks(t)
<1>1. CASE FS!Written(t)
  <2>1. FP!Written(t)
    BY <1>1 DEF FS!Written, FP!Written
  <2> QED  BY <2>1, FP!WrittenStep DEF FInv, FShrinks
<1>2. CASE FS!WriteFails(t)
  <2>1. FP!WriteFails(t)
    BY <1>2 DEF FS!WriteFails, FP!WriteFails, FS!RemoveAt, FP!RemoveAt
  <2> QED  BY <2>1, FP!WriteFailsStep DEF FInv, FShrinks
<1> QED  BY <1>1, <1>2

(* setBool of the preferences puts a write at the end. *)
LEMMA PSet ==
  ASSUME PInv, NEW v \in BOOLEAN, NEW a \in Attempts, PR!SetItem("loggedIn", v, a)
  PROVE  PGrows(a) /\ Flag(pmem') = v
<1>1. PP!SetItem("loggedIn", v, a)
  BY DEF PR!SetItem, PP!SetItem
<1>2. /\ PInv'
      /\ pmem'["loggedIn"] = v
      /\ pdisk' = pdisk
      /\ PP!Longer(pwrites', pwrites, [map |-> pmem', task |-> a])
  BY <1>1, PP!SetItemStep DEF PInv
<1> QED  BY <1>2 DEF PGrows, Flag

(* A write of the preferences that ends leaves the queue. *)
LEMMA PWrite ==
  ASSUME PInv, NEW t, PR!Written(t) \/ PR!WriteFails(t)
  PROVE  PShrinks(t)
<1>1. CASE PR!Written(t)
  <2>1. PP!Written(t)
    BY <1>1 DEF PR!Written, PP!Written
  <2> QED  BY <2>1, PP!WrittenStep DEF PInv, PShrinks
<1>2. CASE PR!WriteFails(t)
  <2>1. PP!WriteFails(t)
    BY <1>2 DEF PR!WriteFails, PP!WriteFails, PR!RemoveAt, PP!RemoveAt
  <2> QED  BY <2>1, PP!WriteFailsStep DEF PInv, PShrinks
<1> QED  BY <1>1, <1>2

-----------------------------------------------------------------------------
(* The invariant.                                                            *)

HasProfile ==
  \/ Info(fmem) # Nothing
  \/ Info(fdisk) # Nothing
  \/ \E i \in DOMAIN fwrites : Info(fwrites[i].map) # Nothing

Raised ==
  /\ Flag(pdisk) = TRUE
  /\ \A i \in DOMAIN pwrites : Flag(pwrites[i].map) = TRUE

(* Whoever awaits a write has begun. *)
FWaits == \A i \in DOMAIN fwrites :
  fwrites[i].task \in Attempts => tasks[fwrites[i].task].pc # "unused"

(* A pending write of the flag is awaited by one task, which is there. *)
OnFlag == {"flag", "clearFlag"}
PWaits ==
  /\ \A i \in DOMAIN pwrites :
       /\ pwrites[i].task \in Attempts
       /\ tasks[pwrites[i].task].pc \in OnFlag
       /\ tasks[pwrites[i].task].pc = "flag" => Flag(pwrites[i].map) = TRUE
  /\ \A i, j \in DOMAIN pwrites : i < j => pwrites[i].task # pwrites[j].task

ProfileRaised == HasProfile => Raised

(* From the write a logout awaits on, the queue holds no profile.            *)
Forgetting == \A a \in Attempts : tasks[a].pc = "forgetInfo" =>
  /\ Info(fmem) = Nothing
  /\ \A i, j \in DOMAIN fwrites :
       fwrites[i].task = a /\ i <= j => Info(fwrites[j].map) = Nothing

Forgotten == At({"forgetWishlist", "clearFlag"}) => ~HasProfile
Apart == ~(At(Saving) /\ At(Leaving))

Safe == ProfileRaised /\ Forgetting /\ Forgotten /\ Apart

SafeInv == "overlap" \notin upsets => Safe
CoreInv == TaskInv /\ FInv /\ PInv /\ FWaits /\ PWaits /\ SafeInv
SessionInv == ModelOK /\ ScreenOK /\ LoggedInHasUser /\ CoreInv

-----------------------------------------------------------------------------
(* How a step of the tasks C and of a store keeps the parts of the invariant. *)

Still(C) ==
  /\ \A b \in Attempts \ C : Keeps(tasks', tasks, b)
  /\ \A c \in C : tasks'[c].pc # "unused"

(* Who is at a write stays at it, nobody comes to one, nobody is reset. *)
LEMMA KeepsFacts ==
  ASSUME NEW ts2, NEW ts, NEW b, Keeps(ts2, ts, b)
  PROVE  /\ ts[b].pc \in Waits => ts2[b].pc = ts[b].pc
         /\ ts2[b].pc \in Waits => ts2[b].pc = ts[b].pc
         /\ ts[b].pc # "unused" => ts2[b].pc # "unused"
BY Zenon DEF Keeps

(* A task that has begun has begun for good. *)
LEMMA StillBegun ==
  ASSUME NEW C, Still(C), NEW b \in Attempts, tasks[b].pc # "unused"
  PROVE  tasks'[b].pc # "unused"
<1>1. CASE b \in C
  BY <1>1 DEF Still
<1>2. CASE Keeps(tasks', tasks, b)
  BY <1>2 DEF Keeps
<1> QED  BY <1>1, <1>2 DEF Still

(* Writes of the storage are awaited by tasks that have begun. *)
LEMMA FWaitsStep ==
  ASSUME FWaits, FInv', NEW C, Still(C),
         \/ fwrites' = fwrites
         \/ \E t : FShrinks(t)
         \/ \E t \in C \cup {"token"} : FGrows(t)
  PROVE  FWaits'
<1>1. ASSUME NEW i \in DOMAIN fwrites', fwrites'[i].task \in Attempts
      PROVE  tasks'[fwrites'[i].task].pc # "unused"
  <2>1. ASSUME NEW k \in DOMAIN fwrites, fwrites'[i] = fwrites[k]
        PROVE  tasks'[fwrites'[i].task].pc # "unused"
    BY <1>1, <2>1, StillBegun DEF FWaits
  <2>2. i <= i
    BY LenProperties DEF FInv, FP!StoreInv
  <2>3. CASE fwrites' = fwrites
    BY <2>1, <2>3
  <2>4. ASSUME NEW t, FShrinks(t)
        PROVE  \E k \in DOMAIN fwrites : fwrites'[i] = fwrites[k]
    BY <2>2, <2>4 DEF FShrinks, FP!Without
  <2>5. ASSUME NEW t \in C \cup {"token"}, FGrows(t)
        PROVE  \/ \E k \in DOMAIN fwrites : fwrites'[i] = fwrites[k]
               \/ fwrites'[i].task = t
    BY <2>2, <2>5 DEF FGrows, FP!Longer
  <2>6. ASSUME fwrites'[i].task \in C \cup {"token"}
        PROVE  tasks'[fwrites'[i].task].pc # "unused"
    BY <1>1, <2>6, SessionAssumption DEF Still
  <2> QED  BY <2>1, <2>3, <2>4, <2>5, <2>6
<1> QED  BY <1>1 DEF FWaits

(* Nothing happens to the preferences. *)
LEMMA PWaitsSame ==
  ASSUME PWaits, NEW C, Still(C), pwrites' = pwrites,
         \A c \in C : tasks[c].pc \notin OnFlag
  PROVE  PWaits'
<1>1. ASSUME NEW i \in DOMAIN pwrites
      PROVE  tasks'[pwrites[i].task].pc = tasks[pwrites[i].task].pc
  <2>1. pwrites[i].task \in Attempts \ C /\ tasks[pwrites[i].task].pc \in Waits
    BY DEF PWaits, OnFlag, Waits, Saving, Leaving
  <2> QED  BY <2>1, KeepsFacts DEF Still
<1> QED  BY <1>1 DEF PWaits

(* The task a comes to a write of the flag. *)
LEMMA PWaitsGrows ==
  ASSUME PWaits, NEW a \in Attempts, Still({a}), PGrows(a),
         tasks[a].pc \notin OnFlag, tasks'[a].pc \in OnFlag,
         tasks'[a].pc = "flag" => Flag(pmem') = TRUE
  PROVE  PWaits'
<1>1. ASSUME NEW i \in DOMAIN pwrites
      PROVE  /\ pwrites[i].task # a
             /\ tasks'[pwrites[i].task].pc = tasks[pwrites[i].task].pc
  <2>1. pwrites[i].task \in Attempts \ {a} /\ tasks[pwrites[i].task].pc \in Waits
    BY DEF PWaits, OnFlag, Waits, Saving, Leaving
  <2> QED  BY <2>1, KeepsFacts DEF Still
<1>2. PInv'
  BY DEF PGrows
<1> DEFINE e == [map |-> pmem', task |-> a]
<1>3. \A i, j \in DOMAIN pwrites' : i <= j =>
        \/ i \in DOMAIN pwrites /\ j \in DOMAIN pwrites
             /\ pwrites'[i] = pwrites[i] /\ pwrites'[j] = pwrites[j]
        \/ i \in DOMAIN pwrites /\ i < j /\ pwrites'[i] = pwrites[i] /\ pwrites'[j] = e
        \/ i = j /\ pwrites'[i] = e
  BY DEF PGrows, PP!Longer
<1>4. e.task = a /\ e.map = pmem'
  OBVIOUS
<1>5. \A i, j \in DOMAIN pwrites' : i \in Int /\ j \in Int
  BY <1>2, LenProperties DEF PInv, PP!StoreInv
<1>6. ASSUME NEW i \in DOMAIN pwrites'
      PROVE  (i \in DOMAIN pwrites /\ pwrites'[i] = pwrites[i]) \/ pwrites'[i] = e
  BY <1>3, <1>5
<1> HIDE DEF e
<1>7. ASSUME NEW i \in DOMAIN pwrites'
      PROVE  /\ pwrites'[i].task \in Attempts
             /\ tasks'[pwrites'[i].task].pc \in OnFlag
             /\ tasks'[pwrites'[i].task].pc = "flag" => Flag(pwrites'[i].map) = TRUE
  BY <1>1, <1>4, <1>6 DEF PWaits
<1>8. ASSUME NEW i \in DOMAIN pwrites', NEW j \in DOMAIN pwrites', i < j
      PROVE  pwrites'[i].task # pwrites'[j].task
  BY <1>1, <1>3, <1>4, <1>5, <1>8 DEF PWaits
<1> QED  BY <1>7, <1>8 DEF PWaits

(* The task a leaves its write of the flag. *)
LEMMA PWaitsShrinks ==
  ASSUME PWaits, NEW a \in Attempts, Still({a}), PShrinks(a), PInv
  PROVE  PWaits'
<1>1. PICK d \in DOMAIN pwrites : pwrites[d].task = a /\ PP!Without(pwrites', pwrites, d)
  BY DEF PShrinks
<1>2. \A i \in DOMAIN pwrites : i \in Int
  BY LenProperties DEF PInv, PP!StoreInv
<1>3. ASSUME NEW k \in DOMAIN pwrites \ {d}
      PROVE  tasks'[pwrites[k].task].pc = tasks[pwrites[k].task].pc
  <2>1. pwrites[k].task # a
    BY <1>1, <1>2 DEF PWaits
  <2>2. pwrites[k].task \in Attempts \ {a} /\ tasks[pwrites[k].task].pc \in Waits
    BY <2>1 DEF PWaits, OnFlag, Waits, Saving, Leaving
  <2> QED  BY <2>2, KeepsFacts DEF Still
<1>4. \A i \in DOMAIN pwrites' : i \in Int
  BY LenProperties DEF PShrinks, PInv, PP!StoreInv
<1>5. ASSUME NEW i \in DOMAIN pwrites'
      PROVE  \E k \in DOMAIN pwrites \ {d} : pwrites'[i] = pwrites[k]
  BY <1>1, <1>4 DEF PP!Without
<1>6. ASSUME NEW i \in DOMAIN pwrites'
      PROVE  /\ pwrites'[i].task \in Attempts
             /\ tasks'[pwrites'[i].task].pc \in OnFlag
             /\ tasks'[pwrites'[i].task].pc = "flag" => Flag(pwrites'[i].map) = TRUE
  BY <1>3, <1>5 DEF PWaits
<1>7. ASSUME NEW i \in DOMAIN pwrites', NEW j \in DOMAIN pwrites', i < j
      PROVE  pwrites'[i].task # pwrites'[j].task
  <2>1. \E k, l \in DOMAIN pwrites \ {d} :
          k < l /\ pwrites'[i] = pwrites[k] /\ pwrites'[j] = pwrites[l]
    BY <1>1, <1>4, <1>7 DEF PP!Without
  <2> QED  BY <2>1 DEF PWaits
<1> QED  BY <1>6, <1>7 DEF PWaits

(* No profile comes to the storage from elsewhere. *)
NoProfileSet(t) ==
  \/ UNCHANGED <<fmem, fdisk, fwrites>>
  \/ FShrinks(t)
  \/ FGrows(t) /\ Info(fmem') \in {Nothing, Info(fmem)}

LEMMA NoNewProfile ==
  ASSUME FInv', NEW t, NoProfileSet(t), HasProfile'
  PROVE  HasProfile
<1>1. \A i \in DOMAIN fwrites' : i <= i
  BY LenProperties DEF FInv, FP!StoreInv
<1>2. CASE UNCHANGED <<fmem, fdisk, fwrites>>
  BY <1>2 DEF HasProfile
<1>3. CASE FShrinks(t)
  <2>1. \A i \in DOMAIN fwrites' : \E k \in DOMAIN fwrites : fwrites'[i] = fwrites[k]
    BY <1>1, <1>3 DEF FShrinks, FP!Without
  <2>2. fmem' = fmem /\ (fdisk' = fdisk \/ \E d \in DOMAIN fwrites : fdisk' = fwrites[d].map)
    BY <1>3 DEF FShrinks
  <2> QED  BY <2>1, <2>2 DEF HasProfile
<1>4. CASE FGrows(t) /\ Info(fmem') \in {Nothing, Info(fmem)}
  <2>1. \A i \in DOMAIN fwrites' :
          \/ \E k \in DOMAIN fwrites : fwrites'[i] = fwrites[k]
          \/ fwrites'[i].map = fmem'
    BY <1>1, <1>4 DEF FGrows, FP!Longer
  <2>2. fdisk' = fdisk
    BY <1>4 DEF FGrows
  <2> QED  BY <1>4, <2>1, <2>2 DEF HasProfile
<1> QED  BY <1>2, <1>3, <1>4 DEF NoProfileSet

(* The flag stays raised. *)
LEMMA StaysRaised ==
  ASSUME PInv', Raised, NEW t,
         \/ UNCHANGED <<pdisk, pwrites>>
         \/ PShrinks(t)
         \/ PGrows(t) /\ Flag(pmem') = TRUE
  PROVE  Raised'
<1>1. \A i \in DOMAIN pwrites' : i <= i
  BY LenProperties DEF PInv, PP!StoreInv
<1>2. CASE UNCHANGED <<pdisk, pwrites>>
  BY <1>2 DEF Raised
<1>3. CASE PShrinks(t)
  <2>1. \A i \in DOMAIN pwrites' : \E k \in DOMAIN pwrites : pwrites'[i] = pwrites[k]
    BY <1>1, <1>3 DEF PShrinks, PP!Without
  <2>2. pdisk' = pdisk \/ \E d \in DOMAIN pwrites : pdisk' = pwrites[d].map
    BY <1>3 DEF PShrinks
  <2> QED  BY <2>1, <2>2 DEF Raised
<1>4. CASE PGrows(t) /\ Flag(pmem') = TRUE
  <2>1. \A i \in DOMAIN pwrites' :
          \/ \E k \in DOMAIN pwrites : pwrites'[i] = pwrites[k]
          \/ pwrites'[i].map = pmem'
    BY <1>1, <1>4 DEF PGrows, PP!Longer
  <2>2. pdisk' = pdisk
    BY <1>4 DEF PGrows
  <2> QED  BY <1>4, <2>1, <2>2 DEF Raised
<1> QED  BY <1>2, <1>3, <1>4

(* A logout that waits for its first write still finds no profile behind it. *)
LEMMA ForgettingStep ==
  ASSUME FWaits, Forgetting, NEW t, NoProfileSet(t),
         \A a \in Attempts : tasks'[a].pc = "forgetInfo" =>
           \/ tasks[a].pc = "forgetInfo"
           \/ tasks[a].pc = "unused" /\ a = t /\ FGrows(t) /\ Info(fmem') = Nothing
  PROVE  Forgetting'
<1>1. ASSUME NEW a \in Attempts, tasks[a].pc = "forgetInfo"
      PROVE  /\ Info(fmem') = Nothing
             /\ \A i, j \in DOMAIN fwrites' :
                  fwrites'[i].task = a /\ i <= j => Info(fwrites'[j].map) = Nothing
  <2>1. /\ Info(fmem) = Nothing
        /\ \A i, j \in DOMAIN fwrites :
             fwrites[i].task = a /\ i <= j => Info(fwrites[j].map) = Nothing
    BY <1>1 DEF Forgetting
  <2>2. CASE UNCHANGED <<fmem, fdisk, fwrites>>
    BY <2>1, <2>2
  <2>3. CASE FShrinks(t)
    BY <2>1, <2>3 DEF FShrinks, FP!Without
  <2>4. CASE FGrows(t) /\ Info(fmem') = Nothing
    BY <2>1, <2>4 DEF FGrows, FP!Longer
  <2> QED  BY <2>1, <2>2, <2>3, <2>4 DEF NoProfileSet
<1>2. ASSUME NEW a \in Attempts, tasks[a].pc = "unused", a = t,
             FGrows(t), Info(fmem') = Nothing
      PROVE  \A i, j \in DOMAIN fwrites' :
               fwrites'[i].task = a /\ i <= j => Info(fwrites'[j].map) = Nothing
  <2>1. \A i \in DOMAIN fwrites : fwrites[i].task # a
    BY <1>2 DEF FWaits
  <2> QED  BY <1>2, <2>1 DEF FGrows, FP!Longer
<1> QED  BY <1>1, <1>2 DEF Forgetting

(* A step that moves no task into a wait of a logout, sets no profile and    *)
(* lowers no flag.                                                           *)
LEMMA SafeStep ==
  ASSUME FInv', PInv', FWaits, Safe, NEW t, NoProfileSet(t),
         \A a \in Attempts : tasks'[a].pc \in Waits => tasks'[a].pc = tasks[a].pc,
         \E u : \/ UNCHANGED <<pdisk, pwrites>>
                \/ PShrinks(u)
                \/ PGrows(u) /\ Flag(pmem') = TRUE
  PROVE  Safe'
<1>1. HasProfile' => HasProfile
  BY NoNewProfile
<1>2. ProfileRaised'
  <2>1. Raised => Raised'
    BY StaysRaised
  <2> QED  BY <1>1, <2>1 DEF Safe, ProfileRaised
<1>3. Forgetting'
  <2>1. \A a \in Attempts : tasks'[a].pc = "forgetInfo" => tasks[a].pc = "forgetInfo"
    BY DEF Waits, Leaving
  <2> QED  BY <2>1, ForgettingStep DEF Safe
<1>4. \A pcs \in SUBSET Waits : At(pcs)' => At(pcs)
  BY DEF At
<1>5. Forgotten'
  <2>1. {"forgetWishlist", "clearFlag"} \in SUBSET Waits
    BY DEF Waits, Leaving
  <2>2. At({"forgetWishlist", "clearFlag"})' => At({"forgetWishlist", "clearFlag"})
    BY <1>4, <2>1
  <2> QED  BY <1>1, <2>2 DEF Safe, Forgotten
<1>6. Apart'
  <2>1. Saving \in SUBSET Waits /\ Leaving \in SUBSET Waits
    BY DEF Waits
  <2>2. (At(Saving)' => At(Saving)) /\ (At(Leaving)' => At(Leaving))
    BY <1>4, <2>1
  <2> QED  BY <2>2 DEF Safe, Apart
<1> QED  BY <1>2, <1>3, <1>5, <1>6 DEF Safe

-----------------------------------------------------------------------------
(* Every step keeps the tasks, the stores and the invariant.                 *)

(* Most steps: the tasks C leave what they awaited for no wait of a write.   *)
LEMMA PlainStep ==
  ASSUME CoreInv, NEW C \in SUBSET Attempts, Still(C),
         \A c \in C : tasks'[c].pc \notin Waits,
         TaskInv', FInv', PInv', upsets \subseteq upsets',
         NEW t \in C \cup {"token"}, NoProfileSet(t),
         \/ UNCHANGED <<pdisk, pwrites>> /\ \A c \in C : tasks[c].pc \notin OnFlag
         \/ \E a \in C : C = {a} /\ PShrinks(a)
  PROVE  CoreInv'
<1>1. FWaits'
  <2>1. \/ fwrites' = fwrites
        \/ FShrinks(t)
        \/ FGrows(t)
    BY DEF NoProfileSet
  <2> QED  BY <2>1, FWaitsStep DEF CoreInv
<1>2. PWaits'
  <2>1. CASE UNCHANGED <<pdisk, pwrites>> /\ \A c \in C : tasks[c].pc \notin OnFlag
    BY <2>1, PWaitsSame DEF CoreInv
  <2>2. CASE \E a \in C : C = {a} /\ PShrinks(a)
    BY <2>2, PWaitsShrinks DEF CoreInv
  <2> QED  BY <2>1, <2>2
<1>3. \A a \in Attempts : tasks'[a].pc \in Waits => tasks'[a].pc = tasks[a].pc
  <2>1. ASSUME NEW a \in Attempts, tasks'[a].pc \in Waits
        PROVE  tasks'[a].pc = tasks[a].pc
    <3>1. Keeps(tasks', tasks, a)
      BY <2>1 DEF Still
    <3> QED  BY <2>1, <3>1, KeepsFacts
  <2> QED  BY <2>1
<1>4. SafeInv'
  <2>1. SUFFICES ASSUME "overlap" \notin upsets'  PROVE Safe'
    BY DEF SafeInv
  <2>2. Safe
    BY <2>1 DEF CoreInv, SafeInv
  <2>3. \E u : \/ UNCHANGED <<pdisk, pwrites>>
               \/ PShrinks(u)
               \/ PGrows(u) /\ Flag(pmem') = TRUE
    OBVIOUS
  <2> QED  BY <1>3, <2>2, <2>3, SafeStep DEF CoreInv
<1> QED  BY <1>1, <1>2, <1>4 DEF CoreInv

(* Stores that a step leaves alone. *)
LEMMA SameStores ==
  ASSUME FInv, PInv
  PROVE  /\ UNCHANGED fVars => FInv' /\ \A t : NoProfileSet(t)
         /\ UNCHANGED pVars => PInv' /\ UNCHANGED <<pdisk, pwrites>>
BY DEF fVars, pVars, FInv, PInv, FP!StoreInv, PP!StoreInv, NoProfileSet

(* AllKeep and GoesOn in the terms of PlainStep. *)
LEMMA KeepStill ==
  ASSUME AllKeep(tasks', tasks)
  PROVE  TaskInv' /\ Still({})
BY DEF AllKeep, Still, TaskInv

LEMMA GoesOnStill ==
  ASSUME NEW a \in Attempts, GoesOn(a, tasks', tasks)
  PROVE  /\ TaskInv' /\ Still({a})
         /\ \A c \in {a} : tasks'[c].pc \notin Waits
BY DEF GoesOn, Still, TaskInv

(* Steps that leave the stores alone and no task's wait for them. *)
LEMMA QuietStep ==
  ASSUME CoreInv, AllKeep(tasks', tasks), UNCHANGED <<fVars, pVars, upsets>>
  PROVE  CoreInv'
<1>1. TaskInv' /\ Still({})
  BY KeepStill
<1>2. UNCHANGED fVars /\ UNCHANGED pVars /\ upsets \subseteq upsets'
  OBVIOUS
<1>3. FInv' /\ PInv' /\ UNCHANGED <<pdisk, pwrites>> /\ NoProfileSet("token")
  BY <1>2, SameStores DEF CoreInv
<1> QED  BY <1>1, <1>2, <1>3, PlainStep

(* Steps that touch no task. *)
LEMMA SameTasks ==
  ASSUME TaskInv, UNCHANGED tasks
  PROVE  AllKeep(tasks', tasks)
BY DEF TaskInv, AllKeep, Keeps

(* A task that is at no write and goes on to none. *)
LEMMA GoesOnKeeps ==
  ASSUME NEW a \in Attempts, tasks[a].pc \notin Waits, GoesOn(a, tasks', tasks)
  PROVE  AllKeep(tasks', tasks)
BY DEF GoesOn, AllKeep, Keeps

(* A tap begins a task that is at no write, and cancels others. *)
LEMMA TapTasks ==
  ASSUME TaskInv, NEW a \in Attempts, NEW kind \in Buttons, NEW account \in Accounts,
         Tap(a, kind, account)
  PROVE  AllKeep(tasks', tasks)
<1> DEFINE cs == Cancelled(tasks)
<1>1. cs \in [Attempts -> GoodTask] /\ \A b \in Attempts : Keeps(cs, tasks, b)
  BY CancelledTasks DEF TaskInv
<1>2. PICK pc \in {"request", "animating"} :
        tasks' = [cs EXCEPT ![a] = [kind |-> kind, pc |-> pc, account |-> account, here |-> TRUE]]
  BY Zenon DEF Tap
<1> DEFINE new == [kind |-> kind, pc |-> pc, account |-> account, here |-> TRUE]
<1>3. new \in GoodTask /\ new.pc = pc
  <2>1. account # Nothing
    BY SessionAssumption
  <2>2. pc \in Pcs
    BY DEF Pcs, OnButton
  <2>3. kind \in Kinds
    BY DEF Kinds
  <2> QED  BY <2>1, <2>2, <2>3 DEF GoodTask, Task
<1>4. tasks[a].pc = "unused"
  BY DEF Tap
<1> HIDE DEF cs, new
<1>5. tasks' \in [Attempts -> GoodTask] /\ tasks'[a] = new
      /\ \A b \in Attempts \ {a} : tasks'[b] = cs[b]
  BY <1>1, <1>2, <1>3 DEF new
<1>6. Keeps(tasks', tasks, a)
  BY <1>3, <1>4, <1>5 DEF Keeps, Waits, Saving, Leaving
<1>7. \A b \in Attempts \ {a} : Keeps(tasks', tasks, b)
  BY <1>1, <1>5 DEF Keeps
<1> QED  BY <1>5, <1>6, <1>7 DEF AllKeep

(* So does a registration. *)
LEMMA RegisterTasks ==
  ASSUME TaskInv, NEW a \in Attempts, NEW account \in Accounts, Register(a, account)
  PROVE  AllKeep(tasks', tasks)
<1> DEFINE new == [kind |-> "register", pc |-> "request", account |-> account, here |-> TRUE]
<1>1. new \in GoodTask /\ new.pc = "request"
  <2>1. account # Nothing
    BY SessionAssumption
  <2> QED  BY <2>1 DEF GoodTask, Task, Pcs, Kinds
<1>2. tasks' = [tasks EXCEPT ![a] = new] /\ tasks[a].pc = "unused"
  BY DEF Register
<1> HIDE DEF new
<1>3. tasks' \in [Attempts -> GoodTask] /\ tasks'[a] = new
      /\ \A b \in Attempts \ {a} : tasks'[b] = tasks[b]
  BY <1>1, <1>2 DEF TaskInv
<1> QED  BY <1>1, <1>2, <1>3 DEF AllKeep, Keeps, Waits, Saving, Leaving

(* The request follows the animation. *)
LEMMA ForwardTasks ==
  ASSUME TaskInv, ForwardEnds
  PROVE  AllKeep(tasks', tasks)
<1>1. ASSUME NEW a \in Attempts, tasks[a].pc = "animating"
      PROVE  /\ [tasks[a] EXCEPT !.pc = "request"] \in GoodTask
             /\ [tasks[a] EXCEPT !.pc = "request"].pc = "request"
  <2>1. tasks[a] \in Task /\ tasks[a].account # Nothing
    BY <1>1 DEF TaskInv, GoodTask, Leaving
  <2> QED  BY <2>1 DEF GoodTask, Task, Pcs
<1>2. tasks' = [a \in Attempts |->
        IF tasks[a].pc = "animating" THEN [tasks[a] EXCEPT !.pc = "request"] ELSE tasks[a]]
  BY DEF ForwardEnds
<1>3. tasks' \in [Attempts -> GoodTask]
  BY <1>1, <1>2 DEF TaskInv
<1>4. ASSUME NEW b \in Attempts  PROVE Keeps(tasks', tasks, b)
  BY <1>1, <1>2 DEF Keeps, Waits, Saving, Leaving
<1> QED  BY <1>3, <1>4 DEF AllKeep

(* The button is back. *)
LEMMA ReverseTasks ==
  ASSUME TaskInv, ReverseEnds
  PROVE  AllKeep(tasks', tasks)
<1>1. CASE Welcome(tasks, "idle", FALSE)
  BY <1>1, WelcomeTasks DEF TaskInv
<1>2. CASE UNCHANGED tasks
  BY <1>2, SameTasks
<1> QED  BY <1>1, <1>2, Zenon DEF ReverseEnds

(* The request failed. *)
LEMMA AnswerFailsTasks ==
  ASSUME TaskInv, NEW a \in Attempts, AnswerFails(a)
  PROVE  AllKeep(tasks', tasks)
<1>1. tasks[a].pc = "request" /\ Fails(a)
  BY DEF AnswerFails
<1>2. tasks[a].account # Nothing /\ tasks[a].pc \notin OnButton \cup Waits
  BY <1>1 DEF TaskInv, GoodTask, Leaving, Saving, Waits, OnButton
<1> QED  BY <1>1, <1>2, FailsTasks, GoesOnKeeps

(* The request for the JWT failed. *)
LEMMA JwtFailsTasks ==
  ASSUME TaskInv, NEW a \in Attempts, JwtFails(a)
  PROVE  AllKeep(tasks', tasks)
<1>1. tasks[a].pc = "jwt" /\ Ends(a, "threw")
  BY DEF JwtFails
<1>2. tasks[a].account # Nothing /\ "threw" \in Pcs
  BY <1>1 DEF TaskInv, GoodTask, Leaving, Pcs
<1>3. /\ tasks' \in [Attempts -> GoodTask]
      /\ tasks'[a].pc = "threw"
      /\ \A b \in Attempts \ {a} : tasks'[b] = tasks[b]
  BY <1>1, <1>2, EndsTasks
<1> QED  BY <1>1, <1>3 DEF AllKeep, Keeps, Waits, Saving, Leaving

(* The Firebase sign-in ended. *)
LEMMA FirebaseTasks ==
  ASSUME TaskInv, NEW a \in Attempts, Firebase(a)
  PROVE  AllKeep(tasks', tasks)
<1>1. /\ tasks[a].pc = "firebase"
      /\ StopAnimation(a, "stopping") \/ Ends(a, "threw")
  BY Zenon DEF Firebase
<1>2. /\ tasks[a].account # Nothing /\ tasks[a].pc \notin OnButton \cup Waits
      /\ "threw" \in Pcs /\ "stopping" \in Pcs \ (Waits \cup {"unused"})
  BY <1>1 DEF TaskInv, GoodTask, Leaving, Saving, Waits, OnButton, Pcs
<1>3. CASE StopAnimation(a, "stopping")
  BY <1>2, <1>3, StopTasks, GoesOnKeeps
<1>4. CASE Ends(a, "threw")
  <2>1. /\ tasks' \in [Attempts -> GoodTask]
        /\ tasks'[a].pc = "threw"
        /\ \A b \in Attempts \ {a} : tasks'[b] = tasks[b]
    BY <1>2, <1>4, EndsTasks
  <2> QED  BY <1>1, <2>1 DEF AllKeep, Keeps, Waits, Saving, Leaving
<1> QED  BY <1>1, <1>3, <1>4

(* None of these has to do with a write. *)
QuietAction ==
  \/ OpenLogin \/ LeaveLogin \/ OpenRegistration \/ LeaveRegistration
  \/ ForwardEnds \/ ReverseEnds
  \/ \E a \in Attempts :
       \/ \E account \in Accounts :
            \/ \E kind \in Buttons : Tap(a, kind, account)
            \/ Register(a, account)
       \/ AnswerFails(a) \/ JwtFails(a) \/ Firebase(a)

LEMMA QuietTasks ==
  ASSUME TaskInv, QuietAction
  PROVE  AllKeep(tasks', tasks) /\ UNCHANGED <<fVars, pVars, upsets>> /\ user' = user
<1>1. UNCHANGED <<fVars, pVars, upsets>> /\ user' = user
  BY Zenon DEF QuietAction, OpenLogin, LeaveLogin, OpenRegistration, LeaveRegistration,
       ForwardEnds, ReverseEnds, Tap, Register, AnswerFails, JwtFails, Firebase, modelVars
<1>2. CASE OpenLogin \/ OpenRegistration
  <2>1. UNCHANGED tasks
    BY <1>2, Zenon DEF OpenLogin, OpenRegistration
  <2> QED  BY <1>1, <2>1, SameTasks
<1>3. CASE LeaveLogin
  BY <1>1, <1>3, CloseTasks DEF LeaveLogin, TaskInv
<1>4. CASE LeaveRegistration
  <2>1. AllKeep(tasks', tasks)
    BY <1>4, GoneTasks DEF LeaveRegistration, TaskInv, AllKeep, Keeps
  <2> QED  BY <1>1, <2>1
<1>5. CASE ForwardEnds \/ ReverseEnds
  BY <1>1, <1>5, ForwardTasks, ReverseTasks
<1>6. ASSUME NEW a \in Attempts, NEW account \in Accounts,
             Register(a, account) \/ \E kind \in Buttons : Tap(a, kind, account)
      PROVE  AllKeep(tasks', tasks)
  BY <1>6, RegisterTasks, TapTasks
<1>7. ASSUME NEW a \in Attempts, AnswerFails(a) \/ JwtFails(a) \/ Firebase(a)
      PROVE  AllKeep(tasks', tasks)
  BY <1>7, AnswerFailsTasks, JwtFailsTasks, FirebaseTasks
<1> QED  BY <1>1, <1>2, <1>3, <1>4, <1>5, <1>6, <1>7, Zenon DEF QuietAction

LEMMA QuietActions ==
  ASSUME CoreInv, QuietAction
  PROVE  CoreInv'
<1>1. AllKeep(tasks', tasks) /\ UNCHANGED <<fVars, pVars, upsets>>
  BY QuietTasks DEF CoreInv
<1> QED  BY <1>1, QuietStep

(* The task a moves to pc and the others stay. *)
LEMMA EndsStill ==
  ASSUME TaskInv, NEW a \in Attempts, NEW pc \in Pcs \ {"unused"},
         tasks[a].account = Nothing => pc \in {"ended"} \cup Leaving,
         Ends(a, pc)
  PROVE  /\ TaskInv' /\ Still({a}) /\ tasks'[a].pc = pc
         /\ \A b \in Attempts \ {a} : tasks'[b] = tasks[b]
<1>1. /\ tasks' \in [Attempts -> GoodTask]
      /\ tasks'[a].pc = pc
      /\ \A b \in Attempts \ {a} : tasks'[b] = tasks[b]
  BY EndsTasks
<1> QED  BY <1>1 DEF TaskInv, Still, Keeps

(* The write of the JWT ends. *)
LEMMA TokenActions ==
  ASSUME CoreInv, TokenEnds
  PROVE  CoreInv'
<1>1. FS!Written("token") \/ FS!WriteFails("token")
  BY DEF TokenEnds
<1>2. UNCHANGED tasks /\ UNCHANGED pVars /\ upsets \subseteq upsets'
  BY DEF TokenEnds
<1>3. TaskInv' /\ Still({})
  BY <1>2, SameTasks, KeepStill DEF CoreInv
<1>4. FShrinks("token")
  BY <1>1, FWrite DEF CoreInv
<1>5. FInv' /\ NoProfileSet("token")
  BY <1>4 DEF FShrinks, NoProfileSet
<1>6. PInv' /\ UNCHANGED <<pdisk, pwrites>>
  BY <1>2, SameStores DEF CoreInv
<1> QED  BY <1>2, <1>3, <1>5, <1>6, PlainStep

(* The JWT is set; the profile in the map stays what it was. *)
LEMMA JwtActions ==
  ASSUME CoreInv, NEW a \in Attempts, Jwt(a)
  PROVE  CoreInv'
<1>1. /\ tasks[a].pc = "jwt" /\ Ends(a, "firebase")
      /\ FS!SetItem("jwtToken", tasks[a].account, "token")
      /\ UNCHANGED pVars /\ upsets \subseteq upsets'
  BY DEF Jwt
<1>2. /\ tasks[a].account \in Accounts \cup {Nothing} /\ tasks[a].account # Nothing
      /\ tasks[a].pc \notin OnFlag
      /\ "firebase" \in Pcs \ (Waits \cup {"unused"})
  BY <1>1 DEF CoreInv, TaskInv, GoodTask, Task, Leaving, Saving, Waits, OnFlag, Pcs
<1>3. TaskInv' /\ Still({a}) /\ tasks'[a].pc = "firebase"
  BY <1>1, <1>2, EndsStill DEF CoreInv
<1>4. FGrows("token") /\ Info(fmem') = Info(fmem)
  BY <1>1, <1>2, FSet DEF CoreInv
<1>5. FInv' /\ NoProfileSet("token")
  BY <1>4 DEF FGrows, NoProfileSet
<1>6. PInv' /\ UNCHANGED <<pdisk, pwrites>>
  BY <1>1, SameStores DEF CoreInv
<1> QED  BY <1>1, <1>2, <1>3, <1>5, <1>6, PlainStep

(* saveUser is over, by the last write or by a failed one. *)
LEMMA SaveEnds ==
  ASSUME CoreInv, NEW a \in Attempts, FlagFails(a) \/ InfoEnds(a)
  PROVE  CoreInv'
<1>1. tasks[a].pc \in Saving /\ Success(a) /\ upsets \subseteq upsets'
  BY DEF FlagFails, InfoEnds, Saving
<1>2. tasks[a].account # Nothing /\ tasks[a].pc \notin OnButton
  BY <1>1 DEF CoreInv, TaskInv, GoodTask, Leaving, Saving, OnButton
<1>3. TaskInv' /\ Still({a}) /\ \A c \in {a} : tasks'[c].pc \notin Waits
  BY <1>1, <1>2, SuccessTasks, GoesOnStill DEF CoreInv
<1>4. CASE FlagFails(a)
  <2>1. PShrinks(a)
    BY <1>4, PWrite DEF FlagFails, CoreInv
  <2>2. PInv'
    BY <2>1 DEF PShrinks
  <2>3. FInv' /\ NoProfileSet(a)
    BY <1>4, SameStores DEF FlagFails, CoreInv
  <2> QED  BY <1>1, <1>3, <2>1, <2>2, <2>3, PlainStep
<1>5. CASE InfoEnds(a)
  <2>1. FShrinks(a)
    BY <1>5, FWrite DEF InfoEnds, CoreInv
  <2>2. FInv' /\ NoProfileSet(a)
    BY <2>1 DEF FShrinks, NoProfileSet
  <2>3. PInv' /\ UNCHANGED <<pdisk, pwrites>> /\ tasks[a].pc \notin OnFlag
    BY <1>5, SameStores DEF InfoEnds, CoreInv, OnFlag
  <2> QED  BY <1>1, <1>3, <2>2, <2>3, PlainStep
<1> QED  BY <1>4, <1>5

(* logout is over, by the last write or by a failed one. *)
LEMMA LogoutEnds ==
  ASSUME CoreInv, NEW a \in Attempts, FlagCleared(a) \/ LogoutFails(a)
  PROVE  CoreInv'
<1>1. tasks[a].pc \in Leaving /\ Ends(a, "ended") /\ upsets \subseteq upsets'
  BY DEF FlagCleared, LogoutFails, Leaving
<1>2. "ended" \in Pcs \ (Waits \cup {"unused"})
  BY DEF Pcs, Waits, Saving, Leaving
<1>3. TaskInv' /\ Still({a}) /\ \A c \in {a} : tasks'[c].pc \notin Waits
  BY <1>1, <1>2, EndsStill DEF CoreInv
<1>4. \/ /\ PR!Written(a) \/ PR!WriteFails(a)
         /\ UNCHANGED fVars
      \/ /\ FS!WriteFails(a) /\ UNCHANGED pVars
         /\ tasks[a].pc \in {"forgetInfo", "forgetWishlist"}
  BY Zenon DEF FlagCleared, LogoutFails
<1>5. CASE (PR!Written(a) \/ PR!WriteFails(a)) /\ UNCHANGED fVars
  <2>1. PShrinks(a)
    BY <1>5, PWrite DEF CoreInv
  <2>2. PInv'
    BY <2>1 DEF PShrinks
  <2>3. FInv' /\ NoProfileSet(a)
    BY <1>5, SameStores DEF CoreInv
  <2> QED  BY <1>1, <1>3, <2>1, <2>2, <2>3, PlainStep
<1>6. CASE /\ FS!WriteFails(a) /\ UNCHANGED pVars
           /\ tasks[a].pc \in {"forgetInfo", "forgetWishlist"}
  <2>1. FShrinks(a)
    BY <1>6, FWrite DEF CoreInv
  <2>2. FInv' /\ NoProfileSet(a)
    BY <2>1 DEF FShrinks, NoProfileSet
  <2>3. PInv' /\ UNCHANGED <<pdisk, pwrites>> /\ tasks[a].pc \notin OnFlag
    BY <1>6, SameStores DEF CoreInv, OnFlag
  <2> QED  BY <1>1, <1>3, <2>2, <2>3, PlainStep
<1> QED  BY <1>4, <1>5, <1>6, Zenon

-----------------------------------------------------------------------------
(* The steps that take a task into a wait of a write.                        *)

(* Only the task a moved, and not to pcs. *)
LEMMA AtOthers ==
  ASSUME NEW a \in Attempts, \A b \in Attempts \ {a} : tasks'[b] = tasks[b],
         NEW pcs, tasks'[a].pc \notin pcs, At(pcs)'
  PROVE  At(pcs)
BY DEF At

(* Without a profile there is no demand on the flag. *)
LEMMA NoProfileSafe ==
  ASSUME FInv', ~HasProfile', ~At(Saving)'
  PROVE  Safe'
<1>1. Forgetting'
  BY DEF HasProfile, Forgetting
<1> QED  BY <1>1 DEF Safe, ProfileRaised, Forgotten, Apart

(* logout deletes the profile; from its write on the queue has none. *)
LEMMA LogoutStep ==
  ASSUME CoreInv, NEW a \in Attempts, Logout(a)
  PROVE  CoreInv'
<1>1. /\ tasks[a].pc = "unused"
      /\ FS!SetItem("userInfo", Nothing, a)
      /\ tasks' = [tasks EXCEPT
           ![a] = [kind |-> "logout", pc |-> "forgetInfo", account |-> Nothing, here |-> FALSE]]
      /\ upsets' = upsets \cup {u \in {"overlap"} : At(Saving)}
      /\ UNCHANGED pVars
  BY DEF Logout
<1> DEFINE new == [kind |-> "logout", pc |-> "forgetInfo", account |-> Nothing, here |-> FALSE]
<1>2. new \in GoodTask /\ new.pc = "forgetInfo"
  BY DEF GoodTask, Task, Kinds, Pcs, Leaving
<1> HIDE DEF new
<1>3. /\ tasks' \in [Attempts -> GoodTask] /\ tasks'[a].pc = "forgetInfo"
      /\ \A b \in Attempts \ {a} : tasks'[b] = tasks[b]
  BY <1>1, <1>2 DEF new, CoreInv, TaskInv
<1>4. TaskInv' /\ Still({a})
  BY <1>3 DEF TaskInv, Still, Keeps
<1>5. FGrows(a) /\ Info(fmem') = Nothing
  BY <1>1, FSet DEF CoreInv
<1>6. FInv' /\ NoProfileSet(a)
  BY <1>5 DEF FGrows, NoProfileSet
<1>7. PInv' /\ UNCHANGED <<pdisk, pwrites>>
  BY <1>1, SameStores DEF CoreInv
<1>8. FWaits'
  BY <1>4, <1>5, <1>6, FWaitsStep DEF CoreInv
<1>9. PWaits'
  BY <1>1, <1>4, <1>7, PWaitsSame DEF CoreInv, OnFlag
<1>10. SafeInv'
  <2>1. SUFFICES ASSUME "overlap" \notin upsets'  PROVE Safe'
    BY DEF SafeInv
  <2>2. Safe /\ ~At(Saving)
    BY <1>1, <2>1 DEF CoreInv, SafeInv
  <2>3. ProfileRaised'
    <3>1. HasProfile' => HasProfile
      BY <1>6, NoNewProfile
    <3>2. Raised => Raised'
      BY <1>7, StaysRaised
    <3> QED  BY <2>2, <3>1, <3>2 DEF Safe, ProfileRaised
  <2>4. Forgetting'
    BY <1>1, <1>3, <1>5, <1>6, <2>2, ForgettingStep DEF Safe, CoreInv
  <2>5. Forgotten'
    <3>1. HasProfile' => HasProfile
      BY <1>6, NoNewProfile
    <3>2. At({"forgetWishlist", "clearFlag"})' => At({"forgetWishlist", "clearFlag"})
      BY <1>3, AtOthers
    <3> QED  BY <2>2, <3>1, <3>2 DEF Safe, Forgotten
  <2>6. ~At(Saving)'
    BY <1>3, <2>2, AtOthers DEF Saving
  <2> QED  BY <2>3, <2>4, <2>5, <2>6 DEF Safe, Apart
<1> QED  BY <1>4, <1>6, <1>7, <1>8, <1>9, <1>10 DEF CoreInv

(* saveUser raises the flag first; a profile that is there had it raised. *)
LEMMA AnswerStep ==
  ASSUME CoreInv, NEW a \in Attempts, Answer(a)
  PROVE  CoreInv'
<1>1. /\ tasks[a].pc = "request"
      /\ PR!SetItem("loggedIn", TRUE, a)
      /\ tasks' = Moved(tasks, a, "flag")
      /\ upsets' = upsets \cup {u \in {"overlap"} : At(Leaving)}
      /\ UNCHANGED fVars
  BY DEF Answer
<1>2. "flag" \in Pcs /\ tasks[a].account # Nothing
  BY <1>1 DEF CoreInv, TaskInv, GoodTask, Pcs, Saving, Leaving
<1>3. /\ tasks' \in [Attempts -> GoodTask] /\ tasks'[a].pc = "flag"
      /\ \A b \in Attempts \ {a} : tasks'[b] = tasks[b]
  BY <1>1, <1>2, MovedTasks DEF CoreInv, TaskInv
<1>4. TaskInv' /\ Still({a})
  BY <1>3 DEF TaskInv, Still, Keeps
<1>5. PGrows(a) /\ Flag(pmem') = TRUE
  BY <1>1, PSet DEF CoreInv
<1>6. PInv'
  BY <1>5 DEF PGrows
<1>7. FInv' /\ NoProfileSet(a) /\ fwrites' = fwrites
  BY <1>1, SameStores DEF CoreInv, fVars
<1>8. FWaits'
  BY <1>4, <1>7, FWaitsStep DEF CoreInv
<1>9. PWaits'
  BY <1>1, <1>3, <1>4, <1>5, PWaitsGrows DEF CoreInv, OnFlag
<1>10. SafeInv'
  <2>1. SUFFICES ASSUME "overlap" \notin upsets'  PROVE Safe'
    BY DEF SafeInv
  <2>2. Safe /\ ~At(Leaving)
    BY <1>1, <2>1 DEF CoreInv, SafeInv
  <2>3. ProfileRaised'
    <3>1. HasProfile' => HasProfile
      BY <1>7, NoNewProfile
    <3>2. Raised => Raised'
      BY <1>5, <1>6, StaysRaised
    <3> QED  BY <2>2, <3>1, <3>2 DEF Safe, ProfileRaised
  <2>4. ~At(Leaving)'
    BY <1>3, <2>2, AtOthers DEF Leaving
  <2>5. Forgetting' /\ Forgotten'
    BY <2>4 DEF Forgetting, Forgotten, At, Leaving
  <2> QED  BY <2>3, <2>4, <2>5 DEF Safe, Apart
<1> QED  BY <1>4, <1>6, <1>7, <1>8, <1>9, <1>10 DEF CoreInv

(* saveUser sets the profile; every pending flag is up, for nobody leaves. *)
LEMMA FlagWrittenStep ==
  ASSUME CoreInv, NEW a \in Attempts, FlagWritten(a)
  PROVE  CoreInv'
<1>1. /\ tasks[a].pc = "flag"
      /\ PR!Written(a)
      /\ FS!SetItem("userInfo", tasks[a].account, a)
      /\ Ends(a, "info")
      /\ upsets' = upsets
  BY DEF FlagWritten
<1>2. /\ tasks[a].account \in Accounts \cup {Nothing} /\ tasks[a].account # Nothing
      /\ "info" \in Pcs \ {"unused"}
  BY <1>1 DEF CoreInv, TaskInv, GoodTask, Task, Pcs, Saving, Leaving
<1>3. /\ TaskInv' /\ Still({a}) /\ tasks'[a].pc = "info"
      /\ \A b \in Attempts \ {a} : tasks'[b] = tasks[b]
  BY <1>1, <1>2, EndsStill DEF CoreInv
<1>4. FGrows(a)
  BY <1>1, <1>2, FSet DEF CoreInv
<1>5. FInv'
  BY <1>4 DEF FGrows
<1>6. PShrinks(a)
  BY <1>1, PWrite DEF CoreInv
<1>7. PInv'
  BY <1>6 DEF PShrinks
<1>8. FWaits'
  BY <1>3, <1>4, <1>5, FWaitsStep DEF CoreInv
<1>9. PWaits'
  BY <1>3, <1>6, PWaitsShrinks DEF CoreInv
<1>10. SafeInv'
  <2>1. SUFFICES ASSUME "overlap" \notin upsets'  PROVE Safe'
    BY DEF SafeInv
  <2>2. ~At(Leaving)
    BY <1>1, <2>1 DEF CoreInv, SafeInv, Safe, Apart, At, Saving
  <2>3. \A i \in DOMAIN pwrites : Flag(pwrites[i].map) = TRUE
    BY <2>2 DEF CoreInv, PWaits, OnFlag, At, Leaving
  <2>4. Raised'
    <3>1. PP!Written(a)
      BY <1>1 DEF PR!Written, PP!Written
    <3>2. 1 \in DOMAIN pwrites /\ pdisk' = pwrites[1].map /\ PP!Without(pwrites', pwrites, 1)
      BY <3>1, PP!WrittenStep DEF CoreInv, PInv
    <3>3. \A i \in DOMAIN pwrites' : i <= i
      BY <1>7, LenProperties DEF PInv, PP!StoreInv
    <3>4. \A i \in DOMAIN pwrites' : \E k \in DOMAIN pwrites : pwrites'[i] = pwrites[k]
      BY <3>2, <3>3 DEF PP!Without
    <3> QED  BY <2>3, <3>2, <3>4 DEF Raised
  <2>5. ~At(Leaving)'
    BY <1>3, <2>2, AtOthers DEF Leaving
  <2>6. Forgetting' /\ Forgotten'
    BY <2>5 DEF Forgetting, Forgotten, At, Leaving
  <2> QED  BY <2>4, <2>5, <2>6 DEF Safe, ProfileRaised, Apart
<1> QED  BY <1>3, <1>5, <1>7, <1>8, <1>9, <1>10 DEF CoreInv

(* The deletion is in the file and behind it no profile is pending. *)
LEMMA InfoForgottenStep ==
  ASSUME CoreInv, NEW a \in Attempts, InfoForgotten(a)
  PROVE  CoreInv'
<1>1. /\ tasks[a].pc = "forgetInfo"
      /\ FS!WrittenThenSet(a, "wishlist", Nothing)
      /\ Ends(a, "forgetWishlist")
      /\ UNCHANGED pVars /\ upsets' = upsets
  BY DEF InfoForgotten
<1>2. "forgetWishlist" \in (Pcs \ {"unused"}) \cap Leaving
  BY DEF Pcs, Leaving
<1>3. /\ TaskInv' /\ Still({a}) /\ tasks'[a].pc = "forgetWishlist"
      /\ \A b \in Attempts \ {a} : tasks'[b] = tasks[b]
  BY <1>1, <1>2, EndsStill DEF CoreInv
<1>4. FP!WrittenThenSet(a, "wishlist", Nothing)
  BY <1>1 DEF FS!WrittenThenSet, FP!WrittenThenSet
<1>5. {"userInfo", "wishlist"} \subseteq FStoreKeys
  BY SessionAssumption
<1> DEFINE e == [map |-> fmem', task |-> a]
<1>6. /\ FInv'
      /\ 1 \in DOMAIN fwrites /\ fwrites[1].task = a
      /\ fdisk' = fwrites[1].map
      /\ Info(fmem') = Info(fmem)
      /\ FP!Without(Tail(fwrites), fwrites, 1)
      /\ FP!Longer(fwrites', Tail(fwrites), e)
  BY <1>4, <1>5, FP!WrittenThenSetStep DEF CoreInv, FInv, Info
<1>7. e.task = a /\ e.map = fmem'
  OBVIOUS
<1> HIDE DEF e
<1>8. ASSUME NEW i \in DOMAIN fwrites'
      PROVE  \/ \E k \in DOMAIN fwrites : 1 <= k /\ fwrites'[i] = fwrites[k]
             \/ fwrites'[i] = e
  <2>1. i <= i
    BY <1>6, LenProperties DEF FInv, FP!StoreInv
  <2>2. fwrites'[i] = e \/ (i \in DOMAIN Tail(fwrites) /\ fwrites'[i] = Tail(fwrites)[i])
    BY <1>6, <2>1 DEF FP!Longer
  <2>3. \A k \in DOMAIN fwrites : 1 <= k
    BY LenProperties DEF CoreInv, FInv, FP!StoreInv
  <2> QED  BY <1>6, <2>1, <2>2, <2>3 DEF FP!Without
<1>9. FWaits'
  <2>1. ASSUME NEW i \in DOMAIN fwrites', fwrites'[i].task \in Attempts
        PROVE  tasks'[fwrites'[i].task].pc # "unused"
    <3>1. CASE fwrites'[i] = e
      BY <1>3, <1>7, <3>1
    <3>2. ASSUME NEW k \in DOMAIN fwrites, fwrites'[i] = fwrites[k]
          PROVE  tasks'[fwrites'[i].task].pc # "unused"
      BY <1>3, <2>1, <3>2, StillBegun DEF CoreInv, FWaits
    <3> QED  BY <1>8, <3>1, <3>2
  <2> QED  BY <2>1 DEF FWaits
<1>10. PInv' /\ UNCHANGED <<pdisk, pwrites>>
  BY <1>1, SameStores DEF CoreInv
<1>11. PWaits'
  BY <1>1, <1>3, <1>10, PWaitsSame DEF CoreInv, OnFlag
<1>12. SafeInv'
  <2>1. SUFFICES ASSUME "overlap" \notin upsets'  PROVE Safe'
    BY DEF SafeInv
  <2>2. Safe
    BY <1>1, <2>1 DEF CoreInv, SafeInv
  <2>3. /\ Info(fmem) = Nothing
        /\ \A k \in DOMAIN fwrites : 1 <= k => Info(fwrites[k].map) = Nothing
    BY <1>1, <1>6, <2>2 DEF Safe, Forgetting
  <2>4. ~HasProfile'
    <3>1. Info(fmem') = Nothing
      BY <1>6, <2>3
    <3>2. Info(fdisk') = Nothing
      BY <1>6, <2>3
    <3>3. ASSUME NEW i \in DOMAIN fwrites'
          PROVE  Info(fwrites'[i].map) = Nothing
      BY <1>7, <1>8, <2>3, <3>1
    <3> QED  BY <3>1, <3>2, <3>3 DEF HasProfile
  <2>5. ~At(Saving)
    BY <1>1, <2>2 DEF Safe, Apart, At, Leaving
  <2>6. ~At(Saving)'
    BY <1>3, <2>5, AtOthers DEF Saving
  <2> QED  BY <1>6, <2>4, <2>6, NoProfileSafe
<1> QED  BY <1>3, <1>6, <1>9, <1>10, <1>11, <1>12 DEF CoreInv

(* logout lowers the flag; no profile is left to miss it. *)
LEMMA WishlistForgottenStep ==
  ASSUME CoreInv, NEW a \in Attempts, WishlistForgotten(a)
  PROVE  CoreInv'
<1>1. /\ tasks[a].pc = "forgetWishlist"
      /\ FS!Written(a)
      /\ PR!SetItem("loggedIn", FALSE, a)
      /\ Ends(a, "clearFlag")
      /\ upsets' = upsets
  BY DEF WishlistForgotten
<1>2. "clearFlag" \in (Pcs \ {"unused"}) \cap Leaving
  BY DEF Pcs, Leaving
<1>3. /\ TaskInv' /\ Still({a}) /\ tasks'[a].pc = "clearFlag"
      /\ \A b \in Attempts \ {a} : tasks'[b] = tasks[b]
  BY <1>1, <1>2, EndsStill DEF CoreInv
<1>4. FShrinks(a)
  BY <1>1, FWrite DEF CoreInv
<1>5. FInv' /\ NoProfileSet(a)
  BY <1>4 DEF FShrinks, NoProfileSet
<1>6. PGrows(a)
  BY <1>1, PSet DEF CoreInv
<1>7. PInv'
  BY <1>6 DEF PGrows
<1>8. FWaits'
  BY <1>3, <1>4, <1>5, FWaitsStep DEF CoreInv
<1>9. PWaits'
  BY <1>1, <1>3, <1>6, PWaitsGrows DEF CoreInv, OnFlag
<1>10. SafeInv'
  <2>1. SUFFICES ASSUME "overlap" \notin upsets'  PROVE Safe'
    BY DEF SafeInv
  <2>2. Safe
    BY <1>1, <2>1 DEF CoreInv, SafeInv
  <2>3. ~HasProfile
    BY <1>1, <2>2 DEF Safe, Forgotten, At
  <2>4. ~HasProfile'
    BY <1>5, <2>3, NoNewProfile
  <2>5. ~At(Saving)
    BY <1>1, <2>2 DEF Safe, Apart, At, Leaving
  <2>6. ~At(Saving)'
    BY <1>3, <2>5, AtOthers DEF Saving
  <2> QED  BY <1>5, <2>4, <2>6, NoProfileSafe
<1> QED  BY <1>3, <1>5, <1>7, <1>8, <1>9, <1>10 DEF CoreInv

(* A restart drops what is pending and reads the files. *)
LEMMA RestartStep ==
  ASSUME CoreInv, Restart
  PROVE  CoreInv'
<1>1. Ended \in GoodTask /\ Ended.pc = "ended"
  BY DEF Ended, GoodTask, Task, Kinds, Pcs
<1>2. tasks' = [a \in Attempts |-> IF tasks[a].pc = "unused" THEN tasks[a] ELSE Ended]
  BY DEF Restart
<1>3. TaskInv' /\ \A a \in Attempts : tasks'[a].pc \in {"unused", "ended"}
  BY <1>1, <1>2 DEF CoreInv, TaskInv
<1>4. FInv' /\ fmem' = fdisk /\ fdisk' = fdisk /\ DOMAIN fwrites' = {}
  <2>1. FP!Reload
    BY DEF Restart, FS!Reload, FP!Reload
  <2> QED  BY <2>1, FP!ReloadStep DEF CoreInv, FInv
<1>5. PInv' /\ pdisk' = pdisk /\ DOMAIN pwrites' = {}
  <2>1. PP!Reload
    BY DEF Restart, PR!Reload, PP!Reload
  <2> QED  BY <2>1, PP!ReloadStep DEF CoreInv, PInv
<1>6. FWaits' /\ PWaits'
  BY <1>4, <1>5 DEF FWaits, PWaits
<1>7. SafeInv'
  <2>1. SUFFICES ASSUME "overlap" \notin upsets'  PROVE Safe'
    BY DEF SafeInv
  <2>2. upsets \subseteq upsets'
    BY DEF Restart
  <2>3. ProfileRaised
    BY <2>1, <2>2 DEF CoreInv, SafeInv, Safe
  <2>4. ProfileRaised'
    BY <1>4, <1>5, <2>3 DEF ProfileRaised, HasProfile, Raised
  <2>5. ~At(Saving)' /\ ~At(Leaving)'
    BY <1>3 DEF At, Saving, Leaving
  <2>6. Forgetting' /\ Forgotten'
    BY <1>3 DEF Forgetting, Forgotten, At
  <2> QED  BY <2>4, <2>5, <2>6 DEF Safe, Apart
<1> QED  BY <1>3, <1>4, <1>5, <1>6, <1>7 DEF CoreInv

(* Every step keeps the core of the invariant. *)
LEMMA CoreStep ==
  ASSUME CoreInv, Next
  PROVE  CoreInv'
<1>1. CASE Gestures
  BY <1>1, QuietActions, LogoutStep, Zenon DEF Gestures, QuietAction
<1>2. CASE Continuations
  BY <1>2, QuietActions, TokenActions, JwtActions, SaveEnds, LogoutEnds, AnswerStep,
     FlagWrittenStep, InfoForgottenStep, WishlistForgottenStep, Zenon DEF Continuations, QuietAction
<1>3. CASE Restart
  BY <1>3, RestartStep
<1> QED  BY <1>1, <1>2, <1>3, Zenon DEF Next

-----------------------------------------------------------------------------
(* The stores and the user, while nothing has gone wrong.                    *)

OnFile == {"info", "forgetInfo", "forgetWishlist"}

(* Tasks await the writes in q from pcs, each of them one.                   *)
Awaited(q, ts, pcs) ==
  /\ \A i \in DOMAIN q : q[i].task \in Attempts => ts[q[i].task].pc \in pcs
  /\ \A i, j \in DOMAIN q : i < j /\ q[i].task \in Attempts => q[i].task # q[j].task

(* Who is at a write of the flag has one pending. *)
Served(q, ts) ==
  \A a \in Attempts : ts[a].pc \in OnFlag => \E i \in DOMAIN q : q[i].task = a

FSynced == FP!Synced(fwrites, fdisk, fmem, "userInfo", "token")
PSynced == PP!Synced(pwrites, pdisk, pmem, "loggedIn", "token")

(* The profile set last is the user's; while a login still waits for the     *)
(* flag, the one that set it last is the user's.                             *)
ShownIsSaved ==
  IF At({"flag"})
  THEN tasks[pwrites[Len(pwrites)].task].account = user
  ELSE Info(fmem) = user

FlagFollows ==
  /\ ~At(Leaving) => (Flag(pmem) = TRUE <=> user # Nothing)
  /\ At({"clearFlag"}) => Flag(pmem) = FALSE
  /\ At(Leaving) => user = Nothing

Agreeing ==
  /\ Awaited(fwrites, tasks, OnFile) /\ Served(pwrites, tasks)
  /\ FSynced /\ PSynced
  /\ ShownIsSaved /\ FlagFollows

AgreeInv == upsets = {} => Agreeing

(* Tasks that stay where they were stay awaited. *)
LEMMA AwaitedSame ==
  ASSUME NEW q, NEW ts, NEW ts2, NEW pcs, Awaited(q, ts, pcs),
         \A b \in Attempts : ts[b].pc \in pcs => ts2[b].pc \in pcs
  PROVE  Awaited(q, ts2, pcs)
BY DEF Awaited

(* The task a has its write done and may go. *)
LEMMA AwaitedShrinks ==
  ASSUME NEW q, NEW q2, NEW d \in DOMAIN q, FP!Without(q2, q, d),
         NEW t, q[d].task = t,
         DOMAIN q \subseteq Int, DOMAIN q2 \subseteq Int,
         NEW ts, NEW ts2, NEW pcs, Awaited(q, ts, pcs),
         \A b \in Attempts : b # t /\ ts[b].pc \in pcs => ts2[b].pc \in pcs
  PROVE  /\ Awaited(q2, ts2, pcs)
         /\ t \in Attempts => \A i \in DOMAIN q2 : q2[i].task # t
<1>1. ASSUME NEW k \in DOMAIN q \ {d}, q[k].task \in Attempts
      PROVE  ts2[q[k].task].pc \in pcs
  <2>1. q[k].task # q[d].task
    BY <1>1 DEF Awaited
  <2> QED  BY <1>1, <2>1 DEF Awaited
<1>2. ASSUME NEW i \in DOMAIN q2  PROVE \E k \in DOMAIN q \ {d} : q2[i] = q[k]
  <2>1. i <= i
    OBVIOUS
  <2> QED  BY <2>1 DEF FP!Without
<1>3. ASSUME NEW i \in DOMAIN q2, NEW j \in DOMAIN q2, i < j, q2[i].task \in Attempts
      PROVE  q2[i].task # q2[j].task
  <2>1. \E k, l \in DOMAIN q \ {d} : k < l /\ q2[i] = q[k] /\ q2[j] = q[l]
    BY <1>3 DEF FP!Without
  <2> QED  BY <1>3, <2>1 DEF Awaited
<1>4. ASSUME q[d].task \in Attempts, NEW i \in DOMAIN q2
      PROVE  q2[i].task # q[d].task
  <2>1. PICK k \in DOMAIN q \ {d} : q2[i] = q[k]
    BY <1>2
  <2>2. k < d \/ d < k
    OBVIOUS
  <2>3. q[k].task # q[d].task
    BY <1>4, <2>2 DEF Awaited
  <2> QED  BY <2>1, <2>3
<1>5. Awaited(q2, ts2, pcs)
  BY <1>1, <1>2, <1>3 DEF Awaited
<1> QED  BY <1>4, <1>5

(* A write that somebody awaits, or nobody, is put behind the others. *)
LEMMA AwaitedGrows ==
  ASSUME NEW q, NEW q2, NEW e, FP!Longer(q2, q, e), DOMAIN q2 \subseteq Int,
         NEW ts, NEW pcs, Awaited(q, ts, pcs),
         e.task \in Attempts => /\ ts[e.task].pc \in pcs
                                /\ \A i \in DOMAIN q : q[i].task # e.task
  PROVE  Awaited(q2, ts, pcs)
<1>1. \A i, j \in DOMAIN q2 : i <= j =>
        \/ i \in DOMAIN q /\ j \in DOMAIN q /\ q2[i] = q[i] /\ q2[j] = q[j]
        \/ i \in DOMAIN q /\ i < j /\ q2[i] = q[i] /\ q2[j] = e
        \/ i = j /\ q2[i] = e
  BY DEF FP!Longer
<1>2. ASSUME NEW i \in DOMAIN q2, q2[i].task \in Attempts
      PROVE  ts[q2[i].task].pc \in pcs
  <2>1. (i \in DOMAIN q /\ q2[i] = q[i]) \/ q2[i] = e
    BY <1>1
  <2> QED  BY <1>2, <2>1 DEF Awaited
<1>3. ASSUME NEW i \in DOMAIN q2, NEW j \in DOMAIN q2, i < j, q2[i].task \in Attempts
      PROVE  q2[i].task # q2[j].task
  <2>1. \/ i \in DOMAIN q /\ j \in DOMAIN q /\ q2[i] = q[i] /\ q2[j] = q[j]
        \/ i \in DOMAIN q /\ q2[i] = q[i] /\ q2[j] = e
    BY <1>1, <1>3
  <2> QED  BY <1>3, <2>1 DEF Awaited
<1> QED  BY <1>2, <1>3 DEF Awaited

(* The oldest write of the flag is done, and its task a goes. *)
LEMMA ServedTail ==
  ASSUME NEW S, NEW q \in Seq(S), q # <<>>, NEW ts, NEW ts2, Served(q, ts),
         \A b \in Attempts : ts2[b].pc \in OnFlag => ts[b].pc \in OnFlag /\ b # Head(q).task
  PROVE  Served(Tail(q), ts2)
<1> DEFINE r == Tail(q)
           n == Len(q)
<1>1. /\ n \in Nat /\ DOMAIN q = 1 .. n /\ DOMAIN r = 1 .. n - 1
      /\ \A i \in 1 .. n - 1 : r[i] = q[i + 1]
      /\ Head(q) = q[1]
  BY HeadTailProperties, LenProperties, EmptySeq
<1> HIDE DEF r, n
<1>2. ASSUME NEW b \in Attempts, ts2[b].pc \in OnFlag
      PROVE  \E i \in DOMAIN r : r[i].task = b
  <2>1. PICK k \in DOMAIN q : q[k].task = b
    BY <1>2 DEF Served
  <2>2. k # 1
    BY <1>1, <1>2, <2>1
  <2>3. k - 1 \in 1 .. n - 1 /\ (k - 1) + 1 = k
    BY <1>1, <2>1, <2>2
  <2>4. r[k - 1] = q[k]
    BY <1>1, <2>3
  <2> QED  BY <1>1, <2>1, <2>3, <2>4
<1> QED  BY <1>2 DEF Served, r

(* A task comes to a write of the flag and puts one behind the others. *)
LEMMA ServedAppend ==
  ASSUME NEW S, NEW q \in Seq(S), NEW e \in S, NEW ts, NEW ts2, Served(q, ts),
         \A b \in Attempts : ts2[b].pc \in OnFlag => ts[b].pc \in OnFlag \/ b = e.task
  PROVE  Served(Append(q, e), ts2)
<1> DEFINE r == Append(q, e)
           n == Len(q)
<1>1. /\ n \in Nat /\ DOMAIN q = 1 .. n /\ DOMAIN r = 1 .. n + 1
      /\ \A i \in 1 .. n : r[i] = q[i]
      /\ r[n + 1] = e
  BY AppendProperties, LenProperties
<1> HIDE DEF r, n
<1>2. n + 1 \in DOMAIN r /\ \A i \in DOMAIN q : i \in DOMAIN r /\ r[i] = q[i]
  BY <1>1
<1>3. ASSUME NEW b \in Attempts, ts2[b].pc \in OnFlag
      PROVE  \E i \in DOMAIN r : r[i].task = b
  <2>1. CASE b = e.task
    BY <1>1, <1>2, <2>1
  <2>2. CASE ts[b].pc \in OnFlag
    BY <1>2, <2>2 DEF Served
  <2> QED  BY <1>3, <2>1, <2>2
<1> QED  BY <1>3 DEF Served, r

(* What a set, a write done and a JWT lost leave of the storage. *)
LEMMA FSetSynced ==
  ASSUME FInv, NEW k \in {"userInfo", "wishlist", "jwtToken"},
         NEW v \in Accounts \cup {Nothing}, NEW t \in Attempts \cup {"token"},
         FS!SetItem(k, v, t),
         t \in Attempts \/ (FSynced /\ k # "userInfo")
  PROVE  FSynced'
<1> DEFINE e == [map |-> fmem', task |-> t]
           W == FP!Write(Accounts, Attempts \cup {"token"})
<1>1. FGrows(t) /\ Info(fmem') = IF k = "userInfo" THEN v ELSE Info(fmem)
  BY FSet
<1>2. fwrites' = Append(fwrites, e) /\ fdisk' = fdisk
  BY DEF FS!SetItem
<1>3. e.map = fmem' /\ e.task = t
  OBVIOUS
<1>4. e \in W
  BY <1>1 DEF FGrows, FInv, FP!StoreInv, FP!Write
<1>5. fwrites \in Seq(W)
  BY DEF FInv, FP!StoreInv
<1> HIDE DEF e, W
<1>6. e.task # "token" \/ (FSynced /\ fmem'["userInfo"] = fmem["userInfo"])
  BY <1>1, <1>3, SessionAssumption DEF Info
<1>7. FP!Synced(Append(fwrites, e), fdisk, fmem', "userInfo", "token")
  BY <1>3, <1>4, <1>5, <1>6, FP!SyncedAppend DEF FSynced
<1> QED  BY <1>2, <1>7 DEF FSynced

LEMMA FWrittenSynced ==
  ASSUME FInv, FSynced, NEW t, FS!Written(t)
  PROVE  FSynced' /\ fmem' = fmem
<1> DEFINE W == FP!Write(Accounts, Attempts \cup {"token"})
<1>1. /\ fwrites \in Seq(W) /\ fwrites # <<>>
      /\ fwrites' = Tail(fwrites) /\ fdisk' = Head(fwrites).map /\ fmem' = fmem
  BY DEF FInv, FP!StoreInv, FS!Written
<1> HIDE DEF W
<1>2. FP!Synced(Tail(fwrites), Head(fwrites).map, fmem, "userInfo", "token")
  BY <1>1, FP!SyncedTail DEF FSynced
<1> QED  BY <1>1, <1>2 DEF FSynced

LEMMA TokenLostSynced ==
  ASSUME FInv, FSynced, FS!WriteFails("token")
  PROVE  FSynced' /\ fmem' = fmem
<1> DEFINE W == FP!Write(Accounts, Attempts \cup {"token"})
<1>1. PICK x \in DOMAIN fwrites :
        /\ fwrites[x].task = "token"
        /\ fwrites' = FP!RemoveAt(fwrites, x)
        /\ UNCHANGED <<fmem, fdisk>>
  BY DEF FS!WriteFails, FS!RemoveAt, FP!RemoveAt
<1>2. fwrites \in Seq(W)
  BY DEF FInv, FP!StoreInv
<1> HIDE DEF W
<1>3. FP!Synced(FP!RemoveAt(fwrites, x), fdisk, fmem, "userInfo", "token")
  BY <1>1, <1>2, FP!SyncedRemove DEF FSynced
<1> QED  BY <1>1, <1>3 DEF FSynced

LEMMA FNextSynced ==
  ASSUME FInv, FSynced, NEW a \in Attempts, FS!WrittenThenSet(a, "wishlist", Nothing), FInv'
  PROVE  FSynced'
<1> DEFINE e == [map |-> fmem', task |-> a]
           W == FP!Write(Accounts, Attempts \cup {"token"})
           r == Tail(fwrites)
<1>1. /\ fwrites \in Seq(W) /\ fwrites # <<>>
      /\ fwrites' = Append(r, e)
  BY DEF FInv, FP!StoreInv, FS!WrittenThenSet
<1>2. e \in W /\ e.map = fmem' /\ e.task = a
  BY DEF FInv, FP!StoreInv, FP!Write
<1>3. r \in Seq(W)
  BY <1>1, HeadTailProperties
<1>4. a # "token"
  BY SessionAssumption
<1> HIDE DEF e, W, r
<1>5. FP!Synced(Append(r, e), fdisk', fmem', "userInfo", "token")
  BY <1>2, <1>3, <1>4, FP!SyncedAppend
<1> QED  BY <1>1, <1>5 DEF FSynced

(* The same of the preferences, where every write is awaited. *)
LEMMA PSetSynced ==
  ASSUME PInv, NEW v \in BOOLEAN, NEW a \in Attempts, PR!SetItem("loggedIn", v, a)
  PROVE  PSynced'
<1> DEFINE e == [map |-> pmem', task |-> a]
           W == PP!Write(BOOLEAN, Attempts)
<1>1. PGrows(a)
  BY PSet
<1>2. pwrites' = Append(pwrites, e) /\ pdisk' = pdisk
  BY DEF PR!SetItem
<1>3. e \in W /\ e.map = pmem' /\ e.task = a
  BY <1>1 DEF PGrows, PInv, PP!StoreInv, PP!Write
<1>4. pwrites \in Seq(W)
  BY DEF PInv, PP!StoreInv
<1>5. a # "token"
  BY SessionAssumption
<1> HIDE DEF e, W
<1>6. PP!Synced(Append(pwrites, e), pdisk, pmem', "loggedIn", "token")
  BY <1>3, <1>4, <1>5, PP!SyncedAppend
<1> QED  BY <1>2, <1>6 DEF PSynced

LEMMA PWrittenSynced ==
  ASSUME PInv, PSynced, NEW t, PR!Written(t)
  PROVE  PSynced' /\ pmem' = pmem
<1> DEFINE W == PP!Write(BOOLEAN, Attempts)
<1>1. /\ pwrites \in Seq(W) /\ pwrites # <<>>
      /\ pwrites' = Tail(pwrites) /\ pdisk' = Head(pwrites).map /\ pmem' = pmem
  BY DEF PInv, PP!StoreInv, PR!Written
<1> HIDE DEF W
<1>2. PP!Synced(Tail(pwrites), Head(pwrites).map, pmem, "loggedIn", "token")
  BY <1>1, PP!SyncedTail DEF PSynced
<1> QED  BY <1>1, <1>2 DEF PSynced

(* The newest write of the flag, while there is one at all. *)
LEMMA NewestFlag ==
  ASSUME PInv, PWaits, Served(pwrites, tasks), At(OnFlag)
  PROVE  /\ pwrites # <<>> /\ Len(pwrites) \in DOMAIN pwrites
         /\ pwrites[Len(pwrites)].task \in Attempts
         /\ tasks[pwrites[Len(pwrites)].task].pc \in OnFlag
<1>1. PICK k \in DOMAIN pwrites : TRUE
  BY DEF At, Served
<1>2. Len(pwrites) \in Nat /\ DOMAIN pwrites = 1 .. Len(pwrites)
  BY LenProperties DEF PInv, PP!StoreInv
<1>3. Len(pwrites) \in DOMAIN pwrites
  BY <1>1, <1>2
<1>4. pwrites # <<>>
  BY <1>1
<1> QED  BY <1>3, <1>4 DEF PWaits

(* A step that neither comes to nor leaves a write of the flag nor a logout. *)
Stays ==
  \A b \in Attempts :
    /\ \A pcs \in {{"flag"}, {"clearFlag"}, Leaving} : tasks'[b].pc \in pcs <=> tasks[b].pc \in pcs
    /\ tasks[b].pc \in OnFlag => tasks'[b].account = tasks[b].account

LEMMA StaysAgreeing ==
  ASSUME PInv, PWaits, Agreeing, Stays, Awaited(fwrites', tasks', OnFile), FSynced',
         Info(fmem') = Info(fmem), user' = user, UNCHANGED <<pmem, pdisk, pwrites>>
  PROVE  Agreeing'
<1>1. \A pcs \in {{"flag"}, {"clearFlag"}, Leaving} : At(pcs)' <=> At(pcs)
  BY DEF Stays, At
<1>2. (At({"flag"})' <=> At({"flag"})) /\ (At({"clearFlag"})' <=> At({"clearFlag"}))
      /\ (At(Leaving)' <=> At(Leaving))
  BY <1>1
<1>3. Served(pwrites', tasks')
  <2>1. \A b \in Attempts : tasks'[b].pc \in OnFlag => tasks[b].pc \in OnFlag
    BY DEF Stays, OnFlag
  <2> QED  BY <2>1 DEF Agreeing, Served
<1>4. ShownIsSaved'
  <2>1. CASE At({"flag"})
    <3> DEFINE c == pwrites[Len(pwrites)].task
    <3>1. At(OnFlag)
      BY <2>1 DEF At, OnFlag
    <3>2. c \in Attempts /\ tasks[c].pc \in OnFlag
      BY <3>1, NewestFlag DEF Agreeing
    <3>3. tasks[c].account = user
      BY <2>1 DEF Agreeing, ShownIsSaved
    <3>4. tasks'[c].account = user'
      BY <3>2, <3>3 DEF Stays
    <3>5. pwrites'[Len(pwrites')].task = c
      OBVIOUS
    <3> HIDE DEF c
    <3> QED  BY <1>2, <2>1, <3>4, <3>5 DEF ShownIsSaved
  <2>2. CASE ~At({"flag"})
    BY <1>2, <2>2 DEF Agreeing, ShownIsSaved
  <2> QED  BY <2>1, <2>2
<1>5. FlagFollows'
  BY <1>2 DEF Agreeing, FlagFollows
<1>6. PSynced'
  BY DEF Agreeing, PSynced
<1> QED  BY <1>3, <1>4, <1>5, <1>6 DEF Agreeing

(* Who is at no write comes to none, and who is at one stays. *)
LEMMA KeepStays ==
  ASSUME AllKeep(tasks', tasks)
  PROVE  /\ Stays
         /\ \A b \in Attempts : tasks[b].pc \in OnFile => tasks'[b].pc \in OnFile
BY DEF AllKeep, Keeps, Stays, OnFlag, OnFile, Waits, Saving, Leaving

LEMMA QuietAgreeing ==
  ASSUME CoreInv, Agreeing, AllKeep(tasks', tasks), UNCHANGED <<fVars, pVars>>, user' = user
  PROVE  Agreeing'
<1>1. /\ Stays
      /\ \A b \in Attempts : tasks[b].pc \in OnFile => tasks'[b].pc \in OnFile
  BY KeepStays
<1>2. UNCHANGED <<fmem, fdisk, fwrites, pmem, pdisk, pwrites>>
  BY DEF fVars, pVars
<1>3. Awaited(fwrites', tasks', OnFile)
  BY <1>1, <1>2, AwaitedSame DEF Agreeing
<1>4. FSynced'
  BY <1>2 DEF Agreeing, FSynced
<1>5. PInv /\ PWaits /\ Info(fmem') = Info(fmem)
  BY <1>2 DEF CoreInv
<1> QED  BY <1>1, <1>2, <1>3, <1>4, <1>5, StaysAgreeing

(* A write of the storage is done, or the JWT's lost. *)
LEMMA FAwaitedShrinks ==
  ASSUME FInv, NEW t, FShrinks(t), Awaited(fwrites, tasks, OnFile),
         \A b \in Attempts : b # t /\ tasks[b].pc \in OnFile => tasks'[b].pc \in OnFile
  PROVE  Awaited(fwrites', tasks', OnFile)
<1>1. PICK d \in DOMAIN fwrites : fwrites[d].task = t /\ FP!Without(fwrites', fwrites, d)
  BY DEF FShrinks
<1>2. DOMAIN fwrites \subseteq Int /\ DOMAIN fwrites' \subseteq Int
  BY LenProperties DEF FShrinks, FInv, FP!StoreInv
<1> QED  BY <1>1, <1>2, AwaitedShrinks

(* A write of the storage is asked for by the task t, or by nobody. *)
LEMMA FAwaitedGrows ==
  ASSUME NEW t, FGrows(t), Awaited(fwrites, tasks, OnFile),
         \A b \in Attempts : tasks[b].pc \in OnFile => tasks'[b].pc \in OnFile,
         t \in Attempts => tasks[t].pc \notin OnFile /\ tasks'[t].pc \in OnFile
  PROVE  Awaited(fwrites', tasks', OnFile)
<1> DEFINE e == [map |-> fmem', task |-> t]
<1>1. FP!Longer(fwrites', fwrites, e) /\ e.task = t
  BY DEF FGrows
<1> HIDE DEF e
<1>2. DOMAIN fwrites' \subseteq Int
  BY LenProperties DEF FGrows, FInv, FP!StoreInv
<1>3. Awaited(fwrites, tasks', OnFile)
  BY AwaitedSame
<1>4. t \in Attempts => \A i \in DOMAIN fwrites : fwrites[i].task # t
  BY DEF Awaited
<1> QED  BY <1>1, <1>2, <1>3, <1>4, AwaitedGrows

LEMMA TokenAgreeing ==
  ASSUME CoreInv, Agreeing, TokenEnds
  PROVE  Agreeing'
<1>1. /\ FS!Written("token") \/ FS!WriteFails("token")
      /\ UNCHANGED tasks /\ UNCHANGED pVars /\ user' = user
  BY DEF TokenEnds, modelVars
<1>2. FInv /\ PInv /\ PWaits /\ TaskInv
  BY DEF CoreInv
<1>3. FShrinks("token")
  BY <1>1, <1>2, FWrite
<1>4. FSynced' /\ fmem' = fmem
  BY <1>1, <1>2, FWrittenSynced, TokenLostSynced DEF Agreeing
<1>5. Awaited(fwrites', tasks', OnFile)
  BY <1>1, <1>2, <1>3, FAwaitedShrinks DEF Agreeing
<1>6. Stays
  BY <1>1, <1>2, SameTasks, KeepStays
<1>7. UNCHANGED <<pmem, pdisk, pwrites>>
  BY <1>1 DEF pVars
<1> QED  BY <1>1, <1>2, <1>4, <1>5, <1>6, <1>7, StaysAgreeing

LEMMA JwtAgreeing ==
  ASSUME CoreInv, Agreeing, NEW a \in Attempts, Jwt(a)
  PROVE  Agreeing'
<1>1. /\ tasks[a].pc = "jwt" /\ Ends(a, "firebase")
      /\ FS!SetItem("jwtToken", tasks[a].account, "token")
      /\ UNCHANGED pVars /\ user' = user
  BY DEF Jwt, modelVars
<1>2. /\ tasks[a].account \in Accounts \cup {Nothing} /\ tasks[a].account # Nothing
      /\ "firebase" \in Pcs \ {"unused"}
  BY <1>1 DEF CoreInv, TaskInv, GoodTask, Task, Leaving, Pcs
<1>3. /\ tasks'[a].pc = "firebase" /\ \A b \in Attempts \ {a} : tasks'[b] = tasks[b]
  BY <1>1, <1>2, EndsStill DEF CoreInv
<1>4. FGrows("token") /\ Info(fmem') = Info(fmem)
  BY <1>1, <1>2, FSet DEF CoreInv
<1>5. FSynced'
  BY <1>1, <1>2, FSetSynced DEF CoreInv, Agreeing
<1>6. /\ Stays
      /\ \A b \in Attempts : tasks[b].pc \in OnFile => tasks'[b].pc \in OnFile
  BY <1>1, <1>3 DEF Stays, OnFlag, OnFile, Leaving
<1>7. Awaited(fwrites', tasks', OnFile)
  BY <1>4, <1>6, SessionAssumption, FAwaitedGrows DEF Agreeing
<1>8. UNCHANGED <<pmem, pdisk, pwrites>>
  BY <1>1 DEF pVars
<1>9. PInv /\ PWaits
  BY DEF CoreInv
<1> QED  BY <1>1, <1>4, <1>5, <1>6, <1>7, <1>8, <1>9, StaysAgreeing

(* A profile is in the file. *)
LEMMA InfoAgreeing ==
  ASSUME CoreInv, Agreeing, NEW a \in Attempts, InfoEnds(a), FS!Written(a)
  PROVE  Agreeing'
<1>1. /\ tasks[a].pc = "info" /\ Success(a)
      /\ UNCHANGED pVars /\ user' = user
  BY DEF InfoEnds
<1>2. tasks[a].account # Nothing /\ tasks[a].pc \notin OnButton
  BY <1>1 DEF CoreInv, TaskInv, GoodTask, Leaving, OnButton
<1>3. GoesOn(a, tasks', tasks)
  BY <1>1, <1>2, SuccessTasks DEF CoreInv
<1>4. FShrinks(a)
  BY FWrite DEF CoreInv
<1>5. FSynced' /\ fmem' = fmem
  BY FWrittenSynced DEF CoreInv, Agreeing
<1>6. /\ tasks'[a].pc \notin Waits
      /\ \A b \in Attempts \ {a} :
           /\ tasks[b].pc \in Waits => tasks'[b].pc = tasks[b].pc
           /\ tasks'[b].pc \in Waits => tasks'[b].pc = tasks[b].pc
           /\ tasks[b].pc \in Waits => tasks'[b].account = tasks[b].account
  BY <1>3 DEF GoesOn, Keeps
<1>7. /\ Stays
      /\ \A b \in Attempts : b # a /\ tasks[b].pc \in OnFile => tasks'[b].pc \in OnFile
  BY <1>1, <1>6 DEF Stays, OnFlag, OnFile, Waits, Saving, Leaving
<1>8. Awaited(fwrites', tasks', OnFile)
  BY <1>4, <1>7, FAwaitedShrinks DEF CoreInv, Agreeing
<1>9. UNCHANGED <<pmem, pdisk, pwrites>>
  BY <1>1 DEF pVars
<1>10. PInv /\ PWaits
  BY DEF CoreInv
<1> QED  BY <1>1, <1>5, <1>7, <1>8, <1>9, <1>10, StaysAgreeing

(* logout's deletion of the profile is in the file, the wish list's is next. *)
LEMMA ForgottenAgreeing ==
  ASSUME CoreInv, CoreInv', Agreeing, NEW a \in Attempts, InfoForgotten(a)
  PROVE  Agreeing'
<1>1. /\ tasks[a].pc = "forgetInfo"
      /\ FS!WrittenThenSet(a, "wishlist", Nothing)
      /\ Ends(a, "forgetWishlist")
      /\ UNCHANGED pVars /\ user' = user
  BY DEF InfoForgotten, modelVars
<1>2. "forgetWishlist" \in (Pcs \ {"unused"}) \cap Leaving
  BY DEF Pcs, Leaving
<1>3. /\ tasks'[a].pc = "forgetWishlist" /\ \A b \in Attempts \ {a} : tasks'[b] = tasks[b]
  BY <1>1, <1>2, EndsStill DEF CoreInv
<1>4. FP!WrittenThenSet(a, "wishlist", Nothing)
  BY <1>1 DEF FS!WrittenThenSet, FP!WrittenThenSet
<1>5. {"userInfo", "wishlist"} \subseteq FStoreKeys
  BY SessionAssumption
<1> DEFINE e == [map |-> fmem', task |-> a]
           r == Tail(fwrites)
<1>6. /\ FInv'
      /\ 1 \in DOMAIN fwrites /\ fwrites[1].task = a
      /\ Info(fmem') = Info(fmem)
      /\ FP!Without(r, fwrites, 1)
      /\ FP!Longer(fwrites', r, e)
  BY <1>4, <1>5, FP!WrittenThenSetStep DEF CoreInv, FInv, Info
<1>7. e.task = a
  OBVIOUS
<1>8. DOMAIN fwrites \subseteq Int /\ DOMAIN r \subseteq Int /\ DOMAIN fwrites' \subseteq Int
  BY <1>1, HeadTailProperties, LenProperties DEF CoreInv, FInv, FP!StoreInv, FS!WrittenThenSet
<1> HIDE DEF e, r
<1>9. Awaited(r, tasks', OnFile) /\ \A i \in DOMAIN r : r[i].task # a
  <2>1. Awaited(fwrites, tasks, OnFile)
    BY DEF Agreeing
  <2>2. PICK d \in DOMAIN fwrites : d = 1
    BY <1>6
  <2>3. fwrites[d].task = a /\ FP!Without(r, fwrites, d)
    BY <1>6, <2>2
  <2>4. \A b \in Attempts : b # a /\ tasks[b].pc \in OnFile => tasks'[b].pc \in OnFile
    BY <1>3
  <2> QED  BY <1>8, <2>1, <2>3, <2>4, AwaitedShrinks
<1>10. tasks'[a].pc \in OnFile
  BY <1>3 DEF OnFile
<1>11. Awaited(fwrites', tasks', OnFile)
  BY <1>6, <1>7, <1>8, <1>9, <1>10, AwaitedGrows
<1>12. FSynced'
  BY <1>1, <1>6, FNextSynced DEF CoreInv, Agreeing
<1>13. Stays
  BY <1>1, <1>3 DEF Stays, OnFlag, Leaving
<1>14. UNCHANGED <<pmem, pdisk, pwrites>>
  BY <1>1 DEF pVars
<1>15. PInv /\ PWaits
  BY DEF CoreInv
<1> QED  BY <1>1, <1>6, <1>11, <1>12, <1>13, <1>14, <1>15, StaysAgreeing

(* A logout begins: no login waits, and nobody leaves yet. *)
LEMMA LogoutAgreeing ==
  ASSUME CoreInv, LoggedInHasUser, Agreeing, NEW a \in Attempts, Logout(a), "overlap" \notin upsets'
  PROVE  Agreeing'
<1>1. /\ tasks[a].pc = "unused" /\ loggedIn /\ user' = Nothing
      /\ FS!SetItem("userInfo", Nothing, a)
      /\ tasks' = [tasks EXCEPT
           ![a] = [kind |-> "logout", pc |-> "forgetInfo", account |-> Nothing, here |-> FALSE]]
      /\ upsets' = upsets \cup {u \in {"overlap"} : At(Saving)}
      /\ UNCHANGED pVars
  BY DEF Logout
<1>2. /\ tasks'[a].pc = "forgetInfo" /\ \A b \in Attempts \ {a} : tasks'[b] = tasks[b]
  BY <1>1 DEF CoreInv, TaskInv
<1>3. ~At(Saving) /\ ~At(Leaving)
  BY <1>1 DEF Agreeing, FlagFollows, LoggedInHasUser
<1>4. FGrows(a) /\ Info(fmem') = Nothing
  BY <1>1, FSet DEF CoreInv
<1>5. FSynced'
  BY <1>1, FSetSynced DEF CoreInv
<1>6. UNCHANGED <<pmem, pdisk, pwrites>>
  BY <1>1 DEF pVars
<1>7. PSynced'
  BY <1>6 DEF Agreeing, PSynced
<1>8. Awaited(fwrites', tasks', OnFile)
  BY <1>1, <1>2, <1>4, FAwaitedGrows DEF Agreeing, OnFile
<1>9. \A b \in Attempts : tasks'[b].pc \notin OnFlag
  BY <1>2, <1>3 DEF At, Saving, Leaving, OnFlag
<1>10. Served(pwrites', tasks')
  BY <1>9 DEF Served
<1>11. ~At({"flag"})' /\ ~At({"clearFlag"})'
  BY <1>9 DEF At, OnFlag
<1>12. At(Leaving)'
  BY <1>2 DEF At, Leaving
<1>13. ShownIsSaved'
  BY <1>1, <1>4, <1>11 DEF ShownIsSaved
<1>14. FlagFollows'
  BY <1>1, <1>11, <1>12 DEF FlagFollows
<1> QED  BY <1>5, <1>7, <1>8, <1>10, <1>13, <1>14 DEF Agreeing

(* An account is there: its flag is the newest write. *)
LEMMA AnswerAgreeing ==
  ASSUME CoreInv, Agreeing, NEW a \in Attempts, Answer(a), "overlap" \notin upsets'
  PROVE  Agreeing'
<1>1. /\ tasks[a].pc = "request" /\ user' = tasks[a].account
      /\ PR!SetItem("loggedIn", TRUE, a)
      /\ tasks' = Moved(tasks, a, "flag")
      /\ upsets' = upsets \cup {u \in {"overlap"} : At(Leaving)}
      /\ UNCHANGED fVars
  BY DEF Answer
<1>2. "flag" \in Pcs /\ tasks[a].account # Nothing
  BY <1>1 DEF CoreInv, TaskInv, GoodTask, Pcs, Saving, Leaving
<1>3. /\ tasks'[a].pc = "flag" /\ tasks'[a].account = tasks[a].account
      /\ \A b \in Attempts \ {a} : tasks'[b] = tasks[b]
  BY <1>1, <1>2, MovedTasks DEF CoreInv, TaskInv
<1>4. ~At(Leaving)
  BY <1>1
<1>5. UNCHANGED <<fmem, fdisk, fwrites>>
  BY <1>1 DEF fVars
<1>6. FSynced'
  BY <1>5 DEF Agreeing, FSynced
<1>7. Awaited(fwrites', tasks', OnFile)
  <2>1. \A b \in Attempts : tasks[b].pc \in OnFile => tasks'[b].pc \in OnFile
    BY <1>1, <1>3 DEF OnFile
  <2> QED  BY <1>5, <2>1, AwaitedSame DEF Agreeing
<1>8. PSynced'
  BY <1>1, PSetSynced DEF CoreInv
<1>9. PGrows(a) /\ Flag(pmem') = TRUE
  BY <1>1, PSet DEF CoreInv
<1> DEFINE e == [map |-> pmem', task |-> a]
           W == PP!Write(BOOLEAN, Attempts)
<1>10. /\ pwrites \in Seq(W) /\ pwrites' = Append(pwrites, e)
       /\ e \in W /\ e.task = a
  BY <1>1, <1>9 DEF CoreInv, PGrows, PInv, PP!StoreInv, PP!Write, PR!SetItem
<1> HIDE DEF e, W
<1>11. Served(pwrites', tasks')
  <2>1. \A b \in Attempts : tasks'[b].pc \in OnFlag => tasks[b].pc \in OnFlag \/ b = e.task
    BY <1>3, <1>10
  <2> QED  BY <1>10, <2>1, ServedAppend DEF Agreeing
<1>12. pwrites'[Len(pwrites')].task = a
  <2>1. Append(pwrites, e)[Len(pwrites) + 1] = e /\ Len(Append(pwrites, e)) = Len(pwrites) + 1
    BY <1>10, AppendProperties
  <2> QED  BY <1>10, <2>1
<1>13. ShownIsSaved'
  <2>1. At({"flag"})'
    BY <1>3 DEF At
  <2> QED  BY <1>1, <1>3, <1>12, <2>1 DEF ShownIsSaved
<1>14. FlagFollows'
  <2>1. ~At(Leaving)'
    BY <1>3, <1>4, AtOthers DEF Leaving
  <2>2. ~At({"clearFlag"})'
    BY <2>1 DEF At, Leaving
  <2> QED  BY <1>1, <1>2, <1>9, <2>1, <2>2 DEF FlagFollows
<1> QED  BY <1>6, <1>7, <1>8, <1>11, <1>13, <1>14 DEF Agreeing

(* The oldest flag is in the file and its login sets the profile: the user's, *)
(* if it was the last.                                                        *)
LEMMA FlagAgreeing ==
  ASSUME CoreInv, Agreeing, NEW a \in Attempts, FlagWritten(a), "overlap" \notin upsets
  PROVE  Agreeing'
<1>1. /\ tasks[a].pc = "flag" /\ user' = user
      /\ PR!Written(a)
      /\ FS!SetItem("userInfo", tasks[a].account, a)
      /\ Ends(a, "info")
  BY DEF FlagWritten, modelVars
<1>2. /\ tasks[a].account \in Accounts \cup {Nothing} /\ tasks[a].account # Nothing
      /\ "info" \in Pcs \ {"unused"}
  BY <1>1 DEF CoreInv, TaskInv, GoodTask, Task, Pcs, Saving, Leaving
<1>3. /\ tasks'[a].pc = "info" /\ \A b \in Attempts \ {a} : tasks'[b] = tasks[b]
  BY <1>1, <1>2, EndsStill DEF CoreInv
<1>4. ~At(Leaving)
  BY <1>1 DEF CoreInv, SafeInv, Safe, Apart, At, Saving
<1>5. FGrows(a) /\ Info(fmem') = tasks[a].account
  BY <1>1, <1>2, FSet DEF CoreInv
<1>6. FSynced'
  BY <1>1, <1>2, FSetSynced DEF CoreInv
<1>7. Awaited(fwrites', tasks', OnFile)
  <2>1. \A b \in Attempts : tasks[b].pc \in OnFile => tasks'[b].pc \in OnFile
    BY <1>1, <1>3 DEF OnFile
  <2>2. tasks[a].pc \notin OnFile /\ tasks'[a].pc \in OnFile
    BY <1>1, <1>3 DEF OnFile
  <2> QED  BY <1>5, <2>1, <2>2, FAwaitedGrows DEF Agreeing
<1>8. PSynced' /\ pmem' = pmem
  BY <1>1, PWrittenSynced DEF CoreInv, Agreeing
<1> DEFINE W == PP!Write(BOOLEAN, Attempts)
           n == Len(pwrites)
<1>9. /\ pwrites \in Seq(W) /\ pwrites # <<>> /\ Head(pwrites).task = a
      /\ pwrites' = Tail(pwrites)
  BY <1>1 DEF CoreInv, PInv, PP!StoreInv, PR!Written
<1> HIDE DEF W
<1>10. /\ n \in Nat \ {0} /\ DOMAIN pwrites = 1 .. n
       /\ Len(pwrites') = n - 1
       /\ \A i \in 1 .. n - 1 : pwrites'[i] = pwrites[i + 1]
       /\ pwrites[1].task = a
  BY <1>9, HeadTailProperties, LenProperties, EmptySeq
<1>11. Served(pwrites', tasks')
  <2>1. \A b \in Attempts : tasks'[b].pc \in OnFlag =>
          tasks[b].pc \in OnFlag /\ b # Head(pwrites).task
    BY <1>3, <1>9 DEF OnFlag
  <2> QED  BY <1>9, <2>1, ServedTail DEF Agreeing
<1>12. At({"flag"}) /\ tasks[pwrites[n].task].account = user
  <2>1. At({"flag"})
    BY <1>1 DEF At
  <2> QED  BY <2>1 DEF Agreeing, ShownIsSaved
<1>13. ShownIsSaved'
  <2>1. CASE n = 1
    <3>1. DOMAIN pwrites' = {}
      BY <1>9, <1>10, <2>1, HeadTailProperties
    <3>2. ~At({"flag"})'
      BY <1>11, <3>1 DEF At, Served, OnFlag
    <3>3. Info(fmem') = user'
      BY <1>1, <1>5, <1>10, <1>12, <2>1
    <3> QED  BY <3>2, <3>3 DEF ShownIsSaved
  <2>2. CASE n # 1
    <3> DEFINE c == pwrites[n].task
    <3>1. n \in DOMAIN pwrites /\ 1 \in DOMAIN pwrites /\ 1 < n
          /\ n - 1 \in 1 .. n - 1 /\ (n - 1) + 1 = n
      BY <1>10, <2>2
    <3>2. c \in Attempts /\ c # a /\ tasks[c].pc \in OnFlag
      BY <1>10, <3>1 DEF CoreInv, PWaits
    <3>3. tasks[c].pc = "flag"
      BY <1>4, <3>2 DEF OnFlag, At, Leaving
    <3>4. tasks'[c] = tasks[c]
      BY <1>3, <3>2
    <3>5. At({"flag"})'
      BY <3>2, <3>3, <3>4 DEF At
    <3>6. pwrites'[Len(pwrites')].task = c
      BY <1>10, <3>1
    <3>7. tasks'[c].account = user'
      BY <1>1, <1>12, <3>4
    <3> HIDE DEF c
    <3> QED  BY <3>5, <3>6, <3>7 DEF ShownIsSaved
  <2> QED  BY <2>1, <2>2
<1>14. FlagFollows'
  <2>1. ~At(Leaving)'
    BY <1>3, <1>4, AtOthers DEF Leaving
  <2>2. ~At({"clearFlag"})'
    BY <2>1 DEF At, Leaving
  <2>3. Flag(pmem) = TRUE <=> user # Nothing
    BY <1>4 DEF Agreeing, FlagFollows
  <2> QED  BY <1>1, <1>8, <2>1, <2>2, <2>3 DEF FlagFollows
<1> QED  BY <1>6, <1>7, <1>8, <1>11, <1>13, <1>14 DEF Agreeing

(* The wish list is deleted; the flag goes down. *)
LEMMA LoweringAgreeing ==
  ASSUME CoreInv, Agreeing, NEW a \in Attempts, WishlistForgotten(a), "overlap" \notin upsets
  PROVE  Agreeing'
<1>1. /\ tasks[a].pc = "forgetWishlist" /\ user' = user
      /\ FS!Written(a)
      /\ PR!SetItem("loggedIn", FALSE, a)
      /\ Ends(a, "clearFlag")
  BY DEF WishlistForgotten, modelVars
<1>2. "clearFlag" \in (Pcs \ {"unused"}) \cap Leaving
  BY DEF Pcs, Leaving
<1>3. /\ tasks'[a].pc = "clearFlag" /\ \A b \in Attempts \ {a} : tasks'[b] = tasks[b]
  BY <1>1, <1>2, EndsStill DEF CoreInv
<1>4. At(Leaving) /\ ~At(Saving)
  BY <1>1 DEF CoreInv, SafeInv, Safe, Apart, At, Leaving
<1>5. FShrinks(a)
  BY <1>1, FWrite DEF CoreInv
<1>6. FSynced' /\ fmem' = fmem
  BY <1>1, FWrittenSynced DEF CoreInv, Agreeing
<1>7. Awaited(fwrites', tasks', OnFile)
  <2>1. \A b \in Attempts : b # a /\ tasks[b].pc \in OnFile => tasks'[b].pc \in OnFile
    BY <1>3
  <2> QED  BY <1>5, <2>1, FAwaitedShrinks DEF CoreInv, Agreeing
<1>8. PSynced'
  BY <1>1, PSetSynced DEF CoreInv
<1>9. PGrows(a) /\ Flag(pmem') = FALSE
  BY <1>1, PSet DEF CoreInv
<1> DEFINE e == [map |-> pmem', task |-> a]
           W == PP!Write(BOOLEAN, Attempts)
<1>10. /\ pwrites \in Seq(W) /\ pwrites' = Append(pwrites, e)
       /\ e \in W /\ e.task = a
  BY <1>1, <1>9 DEF CoreInv, PGrows, PInv, PP!StoreInv, PP!Write, PR!SetItem
<1> HIDE DEF e, W
<1>11. Served(pwrites', tasks')
  <2>1. \A b \in Attempts : tasks'[b].pc \in OnFlag => tasks[b].pc \in OnFlag \/ b = e.task
    BY <1>3, <1>10
  <2> QED  BY <1>10, <2>1, ServedAppend DEF Agreeing
<1>12. ~At({"flag"}) /\ ~At({"flag"})'
  BY <1>3, <1>4 DEF At, Saving
<1>13. ShownIsSaved'
  BY <1>1, <1>6, <1>12 DEF Agreeing, ShownIsSaved
<1>14. FlagFollows'
  <2>1. At(Leaving)' /\ user' = Nothing
    BY <1>1, <1>2, <1>3, <1>4 DEF At, Agreeing, FlagFollows
  <2> QED  BY <1>9, <2>1 DEF FlagFollows
<1> QED  BY <1>6, <1>7, <1>8, <1>11, <1>13, <1>14 DEF Agreeing

(* The lowered flag is in the file and logout ends. *)
LEMMA LoweredAgreeing ==
  ASSUME CoreInv, Agreeing, NEW a \in Attempts, FlagCleared(a), "overlap" \notin upsets
  PROVE  Agreeing'
<1>1. /\ tasks[a].pc = "clearFlag" /\ user' = user
      /\ PR!Written(a)
      /\ Ends(a, "ended")
      /\ UNCHANGED fVars
  BY DEF FlagCleared, modelVars
<1>2. "ended" \in Pcs \ (Waits \cup {"unused"})
  BY DEF Pcs, Waits, Saving, Leaving
<1>3. /\ tasks'[a].pc = "ended" /\ \A b \in Attempts \ {a} : tasks'[b] = tasks[b]
  BY <1>1, <1>2, EndsStill DEF CoreInv
<1>4. At(Leaving) /\ At({"clearFlag"}) /\ ~At(Saving)
  BY <1>1 DEF CoreInv, SafeInv, Safe, Apart, At, Leaving
<1>5. UNCHANGED <<fmem, fdisk, fwrites>>
  BY <1>1 DEF fVars
<1>6. FSynced'
  BY <1>5 DEF Agreeing, FSynced
<1>7. Awaited(fwrites', tasks', OnFile)
  <2>1. \A b \in Attempts : tasks[b].pc \in OnFile => tasks'[b].pc \in OnFile
    BY <1>1, <1>3 DEF OnFile
  <2> QED  BY <1>5, <2>1, AwaitedSame DEF Agreeing
<1>8. PSynced' /\ pmem' = pmem
  BY <1>1, PWrittenSynced DEF CoreInv, Agreeing
<1> DEFINE W == PP!Write(BOOLEAN, Attempts)
<1>9. /\ pwrites \in Seq(W) /\ pwrites # <<>> /\ Head(pwrites).task = a
      /\ pwrites' = Tail(pwrites)
  BY <1>1 DEF CoreInv, PInv, PP!StoreInv, PR!Written
<1> HIDE DEF W
<1>10. Served(pwrites', tasks')
  <2>1. \A b \in Attempts : tasks'[b].pc \in OnFlag =>
          tasks[b].pc \in OnFlag /\ b # Head(pwrites).task
    BY <1>3, <1>9 DEF OnFlag
  <2> QED  BY <1>9, <2>1, ServedTail DEF Agreeing
<1>11. ~At({"flag"}) /\ ~At({"flag"})'
  BY <1>3, <1>4 DEF At, Saving
<1>12. ShownIsSaved'
  BY <1>1, <1>5, <1>11 DEF Agreeing, ShownIsSaved
<1>13. FlagFollows'
  <2>1. Flag(pmem') = FALSE /\ user' = Nothing
    BY <1>1, <1>4, <1>8 DEF Agreeing, FlagFollows
  <2> QED  BY <2>1 DEF FlagFollows
<1> QED  BY <1>6, <1>7, <1>8, <1>10, <1>12, <1>13 DEF Agreeing

(* With no save and no logout under way the files hold what is shown. *)
LEMMA RestingFiles ==
  ASSUME CoreInv, Agreeing, ~At(Saving \cup Leaving)
  PROVE  Info(fdisk) = user /\ (Flag(pdisk) = TRUE <=> user # Nothing)
<1>1. ~At({"flag"}) /\ ~At(Leaving)
  BY DEF At, Saving
<1>2. Info(fmem) = user /\ (Flag(pmem) = TRUE <=> user # Nothing)
  BY <1>1 DEF Agreeing, ShownIsSaved, FlagFollows
<1>3. Info(fdisk) = Info(fmem)
  <2>1. Len(fwrites) \in Nat /\ DOMAIN fwrites = 1 .. Len(fwrites)
    BY LenProperties DEF CoreInv, FInv, FP!StoreInv
  <2>2. ASSUME NEW i \in DOMAIN fwrites  PROVE fwrites[i].task = "token"
    <3>1. fwrites[i].task \in Attempts \cup {"token"}
      BY FP!WriteOK DEF CoreInv, FInv
    <3>2. fwrites[i].task \notin Attempts
      BY DEF Agreeing, Awaited, At, OnFile, Saving, Leaving
    <3> QED  BY <3>1, <3>2
  <2>3. 0 \in 0 .. Len(fwrites) /\ \A j \in 0 + 1 .. Len(fwrites) : fwrites[j].task = "token"
    BY <2>1, <2>2
  <2>4. FP!Held(fwrites, fdisk, 0)["userInfo"] = fmem["userInfo"]
    BY <2>3 DEF Agreeing, FSynced, FP!Synced
  <2> QED  BY <2>4 DEF FP!Held, Info
<1>4. Flag(pdisk) = Flag(pmem)
  <2>1. Len(pwrites) \in Nat /\ DOMAIN pwrites = 1 .. Len(pwrites)
    BY LenProperties DEF CoreInv, PInv, PP!StoreInv
  <2>2. \A i \in DOMAIN pwrites : FALSE
    BY DEF CoreInv, PWaits, OnFlag, At, Saving, Leaving
  <2>3. 0 \in 0 .. Len(pwrites) /\ \A j \in 0 + 1 .. Len(pwrites) : pwrites[j].task = "token"
    BY <2>1, <2>2
  <2>4. PP!Held(pwrites, pdisk, 0)["loggedIn"] = pmem["loggedIn"]
    BY <2>3 DEF Agreeing, PSynced, PP!Synced
  <2> QED  BY <2>4 DEF PP!Held, Flag
<1> QED  BY <1>2, <1>3, <1>4

(* A store just read holds its file. *)
LEMMA ReadSynced ==
  ASSUME NEW d, NEW k, NEW t
  PROVE  FP!Synced(<<>>, d, d, k, t) /\ PP!Synced(<<>>, d, d, k, t)
<1>1. Len(<<>>) = 0
  OBVIOUS
<1>2. ASSUME NEW i \in 0 .. 0  PROVE i = 0
  OBVIOUS
<1> QED  BY <1>1, <1>2 DEF FP!Synced, PP!Synced, FP!Held, PP!Held

LEMMA RestartAgreeing ==
  ASSUME CoreInv, Agreeing, Restart, upsets' = {}
  PROVE  Agreeing'
<1>1. ~At(Saving \cup Leaving)
  BY DEF Restart
<1>2. Info(fdisk) = user /\ (Flag(pdisk) = TRUE <=> user # Nothing)
  BY <1>1, RestingFiles
<1>3. /\ fmem' = fdisk /\ fdisk' = fdisk /\ fwrites' = <<>>
      /\ pmem' = pdisk /\ pdisk' = pdisk /\ pwrites' = <<>>
      /\ user' = Info(fdisk)
  BY DEF Restart, FS!Reload, PR!Reload, Info
<1>4. \A a \in Attempts : tasks'[a].pc \in {"unused", "ended"}
  BY DEF Restart, Ended
<1>5. ~At({"flag"})' /\ ~At({"clearFlag"})' /\ ~At(Leaving)'
  BY <1>4 DEF At, Leaving
<1>6. Awaited(fwrites', tasks', OnFile) /\ Served(pwrites', tasks')
  BY <1>3, <1>4 DEF Awaited, Served, OnFlag
<1>7. FSynced' /\ PSynced'
  BY <1>3, ReadSynced DEF FSynced, PSynced
<1>8. ShownIsSaved' /\ FlagFollows'
  BY <1>2, <1>3, <1>5 DEF ShownIsSaved, FlagFollows
<1> QED  BY <1>6, <1>7, <1>8 DEF Agreeing

(* What went wrong is not forgotten. *)
LEMMA UpsetsLast ==
  ASSUME Next
  PROVE  upsets \subseteq upsets'
BY DEF Next, Gestures, Continuations, Restart, OpenLogin, LeaveLogin, OpenRegistration,
   LeaveRegistration, Tap, Register, Logout, ForwardEnds, ReverseEnds, TokenEnds, Answer,
   AnswerFails, FlagWritten, FlagFails, InfoEnds, Jwt, JwtFails, Firebase, InfoForgotten,
   WishlistForgotten, FlagCleared, LogoutFails

(* Until something goes wrong, every step keeps the stores agreeing. *)
LEMMA AgreeStep ==
  ASSUME SessionInv, CoreInv', AgreeInv, [Next]_vars
  PROVE  AgreeInv'
<1> SUFFICES ASSUME upsets' = {}  PROVE Agreeing'
  BY DEF AgreeInv
<1>1. CoreInv /\ TaskInv /\ LoggedInHasUser
  BY DEF SessionInv, CoreInv
<1>2. CASE UNCHANGED vars
  <2>1. UNCHANGED <<fVars, pVars, upsets, tasks>> /\ user' = user
    BY <1>2 DEF vars, modelVars
  <2> QED  BY <1>1, <2>1, SameTasks, QuietAgreeing DEF AgreeInv
<1>3. CASE Next
  <2>1. upsets = {}
    BY <1>3, UpsetsLast
  <2>2. Agreeing /\ "overlap" \notin upsets /\ "overlap" \notin upsets' /\ "failure" \notin upsets'
    BY <2>1 DEF AgreeInv
  <2>3. CASE QuietAction
    BY <1>1, <2>2, <2>3, QuietTasks, QuietAgreeing
  <2>4. CASE TokenEnds
    BY <1>1, <2>2, <2>4, TokenAgreeing
  <2>5. ASSUME NEW a \in Attempts, Logout(a) \/ Answer(a)
        PROVE  Agreeing'
    BY <1>1, <2>2, <2>5, LogoutAgreeing, AnswerAgreeing
  <2>6. ASSUME NEW a \in Attempts, FlagWritten(a) \/ Jwt(a) \/ InfoForgotten(a)
                                     \/ WishlistForgotten(a) \/ FlagCleared(a)
        PROVE  Agreeing'
    BY <1>1, <2>2, <2>6, FlagAgreeing, JwtAgreeing, ForgottenAgreeing, LoweringAgreeing,
       LoweredAgreeing
  <2>7. ASSUME NEW a \in Attempts, InfoEnds(a)
        PROVE  Agreeing'
    <3>1. FS!Written(a)
      BY <2>2, <2>7 DEF InfoEnds
    <3> QED  BY <1>1, <2>2, <2>7, <3>1, InfoAgreeing
  <2>8. ASSUME NEW a \in Attempts, FlagFails(a) \/ LogoutFails(a)
        PROVE  FALSE
    BY <2>2, <2>8 DEF FlagFails, LogoutFails
  <2>9. CASE Restart
    BY <1>1, <2>2, <2>9, RestartAgreeing
  <2> QED
    BY <1>3, <2>3, <2>4, <2>5, <2>6, <2>7, <2>8, <2>9, Zenon
       DEF Next, Gestures, Continuations, QuietAction
<1> QED  BY <1>2, <1>3

-----------------------------------------------------------------------------
(* The theorems.                                                             *)

(* The invariant holds at first. *)
LEMMA SessionInit ==
  ASSUME Init
  PROVE  SessionInv
<1>1. ModelOK /\ ScreenOK /\ LoggedInHasUser
  BY Zenon DEF Init, ModelOK, ScreenOK, LoggedInHasUser
<1>2. TaskInv
  BY DEF Init, TaskInv, GoodTask, Task, Kinds, Pcs
<1>3. FInv /\ fmem = FP!Blank /\ fdisk = FP!Blank /\ DOMAIN fwrites = {}
  <2>1. FP!StoreInit
    BY DEF Init, FS!StoreInit, FP!StoreInit, FS!Blank, FP!Blank
  <2>2. FInv
    BY <2>1, FP!StoreInitOK DEF FInv
  <2> QED  BY <2>1, <2>2 DEF FP!StoreInit
<1>4. PInv /\ DOMAIN pwrites = {}
  <2>1. PP!StoreInit
    BY DEF Init, PR!StoreInit, PP!StoreInit, PR!Blank, PP!Blank
  <2>2. PInv
    BY <2>1, PP!StoreInitOK DEF PInv
  <2> QED  BY <2>1, <2>2 DEF PP!StoreInit
<1>5. FWaits /\ PWaits
  BY <1>3, <1>4 DEF FWaits, PWaits
<1>6. ~HasProfile
  BY <1>3, SessionAssumption DEF HasProfile, Info, FP!Blank
<1>7. \A a \in Attempts : tasks[a].pc = "unused"
  BY DEF Init
<1>8. Safe
  BY <1>6, <1>7 DEF Safe, ProfileRaised, Forgetting, Forgotten, Apart, At, Saving, Leaving
<1> QED  BY <1>1, <1>2, <1>3, <1>4, <1>5, <1>8 DEF SessionInv, CoreInv, SafeInv

(* Every step keeps it. *)
LEMMA SessionStep ==
  ASSUME SessionInv, [Next]_vars
  PROVE  SessionInv'
<1>1. CASE Next
  BY <1>1, ScreenStep, ModelStep, CoreStep DEF SessionInv, CoreInv
<1>2. CASE UNCHANGED vars
  <2>1. UNCHANGED <<fVars, pVars, upsets, tasks>>
    BY <1>2 DEF vars
  <2>2. CoreInv'
    BY <2>1, SameTasks, QuietStep DEF SessionInv, CoreInv
  <2>3. ModelOK' /\ ScreenOK' /\ LoggedInHasUser'
    BY <1>2, Zenon DEF vars, modelVars, screenVars, ModelOK, ScreenOK, LoggedInHasUser, SessionInv
  <2> QED  BY <2>2, <2>3 DEF SessionInv
<1> QED  BY <1>1, <1>2

(* SessionInv, the inductive invariant of UserModel and its two stores. *)
THEOREM SessionInvariant == Spec => []SessionInv
<1>1. Init => SessionInv
  BY SessionInit
<1>2. SessionInv /\ [Next]_vars => SessionInv'
  BY SessionStep
<1> QED  BY <1>1, <1>2, PTL DEF Spec

(* The types, TypeOK: saved maps hold accounts, saved flags Booleans. *)
THEOREM TypeCorrect == Spec => []TypeOK
<1>1. ASSUME SessionInv  PROVE TypeOK
  <2>1. FS!StoreOK(Accounts)
    <3>1. FP!StoreOK(Accounts)
      BY <1>1, FP!StoreInvOK DEF SessionInv, CoreInv, FInv
    <3> QED  BY <3>1 DEF FS!StoreOK, FP!StoreOK
  <2>2. PR!StoreOK(BOOLEAN)
    <3>1. PP!StoreOK(BOOLEAN)
      BY <1>1, PP!StoreInvOK DEF SessionInv, CoreInv, PInv
    <3> QED  BY <3>1 DEF PR!StoreOK, PP!StoreOK
  <2>3. tasks \in [Attempts -> Task]
    BY <1>1 DEF SessionInv, CoreInv, TaskInv, GoodTask
  <2>4. {loggedIn, loading, screen, registration, isLoading} \subseteq BOOLEAN
    BY <1>1, Zenon DEF SessionInv, ModelOK, ScreenOK
  <2> QED  BY <1>1, <2>1, <2>2, <2>3, <2>4, Zenon DEF SessionInv, ModelOK, ScreenOK, TypeOK
<1> QED  BY <1>1, SessionInvariant, PTL

(* LoggedInHasUser: UserModel's loggedIn says what its user says, for any    *)
(* number of overlapping logins, registrations, logouts and restarts.        *)
THEOREM MenuMatchesUser == Spec => []LoggedInHasUser
<1>1. ASSUME SessionInv  PROVE LoggedInHasUser
  BY <1>1 DEF SessionInv
<1> QED  BY <1>1, SessionInvariant, PTL

(* ProfileHasFlag: saveUser and logout order their two writes so that no     *)
(* crash between them leaves a stored profile without its flag, whatever the *)
(* number of attempts and whichever writes fail, unless a login and a logout *)
(* ran at the same time.                                                     *)
THEOREM StoredProfileHasFlag == Spec => []ProfileHasFlag
<1>1. ASSUME SessionInv  PROVE ProfileHasFlag
  BY <1>1 DEF SessionInv, CoreInv, SafeInv, Safe, ProfileRaised, HasProfile, Raised,
       Info, Flag, ProfileHasFlag
<1> QED  BY <1>1, SessionInvariant, PTL

(* StoresAgree: the last login answered is the last one saved, and a logout  *)
(* that ends leaves no trace, however many logins overlap, unless a login    *)
(* meets a logout, a write fails or the process dies in the middle.          *)
THEOREM LastLoginIsSaved == Spec => []StoresAgree
<1>1. Init /\ SessionInv => AgreeInv
  <2> SUFFICES ASSUME Init, SessionInv  PROVE Agreeing
    BY DEF AgreeInv
  <2>1. /\ fmem = fdisk /\ fwrites = <<>> /\ pmem = pdisk /\ pwrites = <<>>
        /\ user = Nothing /\ Info(fmem) = Nothing /\ Flag(pmem) = Nothing
    BY SessionAssumption
       DEF Init, FS!StoreInit, PR!StoreInit, FS!Blank, PR!Blank, Info, Flag
  <2>2. \A a \in Attempts : tasks[a].pc = "unused"
    BY DEF Init
  <2>3. ~At({"flag"}) /\ ~At({"clearFlag"}) /\ ~At(Leaving)
    BY <2>2 DEF At, Leaving
  <2>4. Awaited(fwrites, tasks, OnFile) /\ Served(pwrites, tasks)
    BY <2>1, <2>2 DEF Awaited, Served, OnFlag
  <2>5. FSynced /\ PSynced
    BY <2>1, ReadSynced DEF FSynced, PSynced
  <2>6. Nothing # TRUE
    BY SessionAssumption
  <2> QED  BY <2>1, <2>3, <2>4, <2>5, <2>6 DEF Agreeing, ShownIsSaved, FlagFollows
<1>2. SessionInv /\ SessionInv' /\ AgreeInv /\ [Next]_vars => AgreeInv'
  BY AgreeStep DEF SessionInv
<1>3. SessionInv /\ AgreeInv => StoresAgree
  BY RestingFiles DEF SessionInv, AgreeInv, StoresAgree, Info, Flag
<1> QED  BY <1>1, <1>2, <1>3, SessionInvariant, PTL DEF Spec
=============================================================================
