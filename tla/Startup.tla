------------------------------- MODULE Startup -------------------------------
(* Starting the app and changing its language: MyApp (app.dart), AppModel    *)
(* (models/app.dart), AppInit (app_init.dart), the splash                    *)
(* (widgets/common/animated_splash.dart) and the welcome screen that follows *)
(* it (screens/home/onboard_screen.dart).                                    *)
(*                                                                           *)
(* A call of loadAppConfig awaits the storage, then the asset of the locale  *)
(* it finds; assets come in any order (one loaded before is cached, another  *)
(* is read from the bundle).  The splash starts a timer every time it is     *)
(* built, and each timer replaces the route on top.                          *)
(*                                                                           *)
(* Settings of common/config.dart the model takes as they are: no login is   *)
(* required, there is welcome data; nothing calls setFirstSeen, so the       *)
(* stored isFirstSeen is absent at every start.                              *)
EXTENDS Integers, Sequences, SequencesExt, FiniteSets

CONSTANTS
  Languages,   \* the codes of the language screen, each with its config asset
  Default,     \* kAdvanceConfig.DefaultLanguage
  MaxCalls,    \* bound: calls of changeLanguage and loadAppConfig
  MaxRoutes    \* bound: routes on the navigator

ASSUME StartupAssumption ==
  /\ Default \in Languages
  /\ MaxCalls \in Nat
  /\ MaxRoutes \in Nat

VARIABLES
  locale, appConfig, isLoading,  \* AppModel; appConfig is the language of its file
  calls,       \* the calls so far, each with the step it awaits
  routes,      \* the navigator's routes above the splash, top last
  splash,      \* "none", "shown", "leaving" (under a transition), "gone"
  timers,      \* the splash's timers not yet elapsed
  tapped,      \* history: the language tapped last
  overlapped   \* history: a load began or took its path while another was under way

vars == <<locale, appConfig, isLoading, calls, routes, splash, timers, tapped, overlapped>>

None == "none"
Steps == {"seen", "login", "prefs", "saving", "storage", "asset", "done"}
Call == [kind : {"app", "init", "change"}, step : Steps, lang : Languages \cup {None}]

UnderWay == {n \in DOMAIN calls : calls[n].step # "done"}
Loading  == {n \in DOMAIN calls : calls[n].step \in {"storage", "asset"}}
Top == IF routes = <<>> THEN "splash" ELSE Last(routes)

TypeOK ==
  /\ locale \in Languages
  /\ appConfig \in Languages \cup {None}
  /\ isLoading \in BOOLEAN
  /\ calls \in Seq(Call)
  /\ routes \in Seq({"onboard", "tabs"})
  /\ splash \in {"none", "shown", "leaving", "gone"}
  /\ timers \in Nat
  /\ tapped \in Languages

-----------------------------------------------------------------------------
Starts(kind, step) == [kind |-> kind, step |-> step, lang |-> None]

(* MyApp.afterFirstLayout; nothing but the background is on display.         *)
Init ==
  /\ locale = Default
  /\ appConfig = None
  /\ isLoading = TRUE
  /\ calls = <<Starts("app", "storage")>>
  /\ routes = <<>>
  /\ splash = "none"
  /\ timers = 0
  /\ tapped = Default
  /\ overlapped = FALSE

Awaits(n, step) == calls' = [calls EXCEPT ![n].step = step]

(* AnimatedSplash.build, while AppInit is in the tree: a timer every time.   *)
SplashBuilt == timers' = IF splash = "gone" THEN timers ELSE timers + 1

(* checkFirstSeen after storage.ready: the value is absent, so setState      *)
(* rebuilds the splash.  Once the splash is gone setState fails, which ends  *)
(* loadInitData; under its transition the rebuild starts a timer too.        *)
FirstSeen(n) ==
  /\ calls[n].step = "seen"
  /\ SplashBuilt
  /\ Awaits(n, IF splash = "gone" THEN "done" ELSE "login")
  /\ UNCHANGED <<locale, appConfig, isLoading, routes, splash, tapped, overlapped>>

(* checkLogin, then loadAppConfig, for which the context must be mounted.    *)
CheckLogin(n) ==
  /\ calls[n].step = "login"
  /\ Awaits(n, IF splash = "gone" THEN "done" ELSE "storage")
  /\ overlapped' = (overlapped \/ (splash # "gone" /\ UnderWay # {n}))
  /\ UNCHANGED <<locale, appConfig, isLoading, routes, splash, timers, tapped>>

(* A tap in the language screen, which is above the tabs.                    *)
ChangeLanguage(l) ==
  /\ Top = "tabs"
  /\ Len(calls) < MaxCalls
  /\ calls' = Append(calls, [kind |-> "change", step |-> "prefs", lang |-> l])
  /\ tapped' = l
  /\ overlapped' = (overlapped \/ UnderWay # {})
  /\ UNCHANGED <<locale, appConfig, isLoading, routes, splash, timers>>

(* Calls that await the preferences, or their platform channel, go on in     *)
(* the order of their taps.                                                  *)
FirstAt(n, step) == calls[n].step = step /\ \A m \in 1 .. n - 1 : calls[m].step # step

(* changeLanguage after getInstance.                                         *)
LocaleSet(n) ==
  /\ FirstAt(n, "prefs")
  /\ locale' = calls[n].lang
  /\ Awaits(n, "saving")
  /\ UNCHANGED <<appConfig, isLoading, routes, splash, timers, tapped, overlapped>>

LocaleSaved(n) ==
  /\ FirstAt(n, "saving")
  /\ Awaits(n, "storage")
  /\ UNCHANGED <<locale, appConfig, isLoading, routes, splash, timers, tapped, overlapped>>

(* Mutant: the path of the configuration shown is taken again.               *)
MutPathOf(n) == IF appConfig = None THEN locale ELSE appConfig

(* The path is that of the locale by now, not of the call.                   *)
PathOf(n) == locale

(* loadAppConfig after getItem: nothing is stored under 'config'.            *)
PathTaken(n) ==
  /\ calls[n].step = "storage"
  /\ calls' = [calls EXCEPT ![n].step = "asset", ![n].lang = PathOf(n)]
  /\ UNCHANGED <<locale, appConfig, isLoading, routes, splash, timers, tapped, overlapped>>

(* The first configuration shows the MaterialApp: AppInit is mounted, its    *)
(* splash built, and loadInitData begins.  A later one rebuilds what is      *)
(* there.                                                                    *)
Rebuilt ==
  /\ splash' = IF splash = "none" THEN "shown" ELSE splash
  /\ SplashBuilt

(* loadAppConfig to its end, and what its caller does next.                  *)
ConfigLoaded(n) ==
  /\ calls[n].step = "asset"
  /\ appConfig' = calls[n].lang
  /\ isLoading' = FALSE
  /\ Rebuilt
  /\ calls' = LET ended == [calls EXCEPT ![n].step = "done"] IN
                IF splash = "none" THEN Append(ended, Starts("init", "seen")) ELSE ended
  /\ UNCHANGED <<locale, routes, tapped, overlapped>>

-----------------------------------------------------------------------------
(* Mutant: a timer does not ask whether its splash is still there.           *)
MutReplaces == TRUE

(* Navigator.of(context) finds the navigator while the splash is in the tree *)
(* and fails afterwards.                                                     *)
Replaces == splash # "gone"

(* Mutant: the splash waits on, its test of the loading the wrong way round. *)
MutTimerElapses ==
  /\ timers > 0
  /\ IF isLoading
       THEN /\ timers' = timers - 1
            /\ routes' = <<"onboard">>
            /\ splash' = "leaving"
            /\ UNCHANGED <<locale, appConfig, isLoading, calls, tapped, overlapped>>
       ELSE UNCHANGED vars

(* The splash's timer: pushReplacement of _home, the welcome screen, over    *)
(* whatever route is on top.                                                 *)
TimerElapses ==
  /\ timers > 0
  /\ timers' = timers - 1
  /\ routes' = IF ~Replaces THEN routes
               ELSE IF routes = <<>> THEN <<"onboard">> ELSE Append(Front(routes), "onboard")
  /\ splash' = IF splash = "shown" THEN "leaving" ELSE splash
  /\ UNCHANGED <<locale, appConfig, isLoading, calls, tapped, overlapped>>

(* The transition to the welcome screen ends and the splash is disposed of.  *)
TransitionEnds ==
  /\ splash = "leaving"
  /\ splash' = "gone"
  /\ UNCHANGED <<locale, appConfig, isLoading, calls, routes, timers, tapped, overlapped>>

(* The end of the welcome screen, and the back button of the device.         *)
OnDonePress ==
  /\ Top = "onboard"
  /\ Len(routes) < MaxRoutes
  /\ routes' = Append(routes, "tabs")
  /\ UNCHANGED <<locale, appConfig, isLoading, calls, splash, timers, tapped, overlapped>>

Back ==
  /\ Len(routes) > 1
  /\ routes' = Front(routes)
  /\ UNCHANGED <<locale, appConfig, isLoading, calls, splash, timers, tapped, overlapped>>

CallGoesOn(n) ==
  FirstSeen(n) \/ CheckLogin(n) \/ LocaleSet(n) \/ LocaleSaved(n) \/ PathTaken(n) \/ ConfigLoaded(n)

Next ==
  \/ \E n \in DOMAIN calls : CallGoesOn(n)
  \/ \E l \in Languages : ChangeLanguage(l)
  \/ TimerElapses \/ TransitionEnds \/ OnDonePress \/ Back

(* Awaits of the device itself end, timers elapse, transitions end.          *)
Fairness ==
  /\ WF_vars(\E n \in DOMAIN calls : CallGoesOn(n))
  /\ WF_vars(TimerElapses)
  /\ WF_vars(TransitionEnds)

Spec == Init /\ [][Next]_vars
FairSpec == Spec /\ Fairness

-----------------------------------------------------------------------------
(* Once every call has ended, the locale is the language tapped last, and    *)
(* the configuration is the one of that locale unless calls overlapped: then *)
(* the asset that came last has won, whatever was tapped last                *)
(* (models/app.dart:25-38).                                                  *)
SettledOnTheLastTap ==
  /\ TypeOK
  /\ UnderWay = {} => /\ locale = tapped
                      /\ appConfig = locale \/ overlapped

(* The splash gives way to a screen the user can go on from, whatever the    *)
(* timers and loads do (app_init.dart:92, animated_splash.dart:80).          *)
SplashGivesWay == <>[](splash = "gone" /\ routes # <<>>)

(* The tabs are taken from the display only by the user, or by a timer that  *)
(* elapses while the splash still leaves: after the transition no timer of   *)
(* the splash, however many builds started one, replaces a screen.           *)
TabsStay == [][splash = "gone" /\ Top = "tabs" /\ Top' # "tabs" => Len(routes') < Len(routes)]_vars
=============================================================================
