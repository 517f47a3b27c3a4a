---------------------------- MODULE ScreenProofs ----------------------------
(* Theorems about the navigator and the screens on it, for any languages,    *)
(* accounts and bounds.  Startup: the types, that the tabs stay, and that    *)
(* the language tapped last is the one settled on.  PostSubmission: whose    *)
(* submission a screen waits for, and whose token goes out with an article.  *)
EXTENDS Startup, PostSubmission, TLAPS, SequenceTheorems

-----------------------------------------------------------------------------
(* What each action does to the calls.                                       *)

(* Call n goes on to a step; the others stay.                                *)
Moved(n, step, lang) ==
  /\ calls' \in Seq(Call) /\ DOMAIN calls' = DOMAIN calls
  /\ \A m \in DOMAIN calls : m # n => calls'[m] = calls[m]
  /\ calls'[n] = [kind |-> calls[n].kind, step |-> step, lang |-> lang]

(* A call joins the others.                                                  *)
Joined(c) ==
  /\ calls' \in Seq(Call) /\ DOMAIN calls' = DOMAIN calls \cup {Len(calls) + 1}
  /\ \A m \in DOMAIN calls : calls'[m] = calls[m]
  /\ calls'[Len(calls) + 1] = c

LEMMA CallsAre ==
  ASSUME calls \in Seq(Call)
  PROVE  /\ DOMAIN calls = 1 .. Len(calls) /\ Len(calls) \in Nat
         /\ Len(calls) + 1 \notin DOMAIN calls
         /\ calls \in [1 .. Len(calls) -> Call]
         /\ \A n \in DOMAIN calls : calls[n] \in Call
<1>1. DOMAIN calls = 1 .. Len(calls) /\ Len(calls) \in Nat /\ calls \in [1 .. Len(calls) -> Call]
  BY LenProperties
<1>2. Len(calls) + 1 \notin DOMAIN calls
  BY <1>1
<1>3. \A n \in DOMAIN calls : calls[n] \in Call
  BY <1>1
<1> QED  BY <1>1, <1>2, <1>3

LEMMA CallMoves ==
  ASSUME calls \in Seq(Call), NEW n \in DOMAIN calls, NEW step \in Steps,
         NEW lang \in Languages \cup {None},
         calls' = [calls EXCEPT ![n] = [kind |-> calls[n].kind, step |-> step, lang |-> lang]]
  PROVE  Moved(n, step, lang)
<1>1. [kind |-> calls[n].kind, step |-> step, lang |-> lang] \in Call
  BY CallsAre DEF Call
<1>2. calls' \in [1 .. Len(calls) -> Call] /\ DOMAIN calls' = DOMAIN calls
  BY <1>1, CallsAre
<1>3. calls' \in Seq(Call)
  BY <1>2, CallsAre, SeqDef
<1> QED  BY <1>2, <1>3, CallsAre DEF Moved

LEMMA CallJoins ==
  ASSUME calls \in Seq(Call), NEW c \in Call, calls' = Append(calls, c)
  PROVE  Joined(c)
<1>1. /\ calls' \in Seq(Call) /\ Len(calls') = Len(calls) + 1
      /\ \A m \in 1 .. Len(calls) : calls'[m] = calls[m]
      /\ calls'[Len(calls) + 1] = c
  BY AppendProperties
<1>2. DOMAIN calls' = 1 .. Len(calls) + 1
  BY <1>1, LenProperties
<1>3. DOMAIN calls' = DOMAIN calls \cup {Len(calls) + 1}
  BY <1>2, CallsAre
<1> QED  BY <1>1, <1>3, CallsAre DEF Joined

(* The two that start the app's loads, and the calls of a tap.               *)
InitCall == Starts("init", "seen")
Tap(l) == [kind |-> "change", step |-> "prefs", lang |-> l]

LEMMA StepsOfCalls ==
  ASSUME calls \in Seq(Call), locale \in Languages
  PROVE  /\ \A n \in DOMAIN calls :
              /\ FirstSeen(n) => \E step \in {"login", "done"} :
                   /\ Moved(n, step, calls[n].lang)
                   /\ step = "done" => splash = "gone"
              /\ CheckLogin(n) => \E step \in {"storage", "done"} :
                   /\ Moved(n, step, calls[n].lang)
                   /\ step = "done" => splash = "gone"
              /\ LocaleSet(n) => Moved(n, "saving", calls[n].lang)
              /\ LocaleSaved(n) => Moved(n, "storage", calls[n].lang)
              /\ PathTaken(n) => Moved(n, "asset", locale)
         /\ \A l \in Languages : ChangeLanguage(l) => Joined(Tap(l))
<1>1. ASSUME NEW n \in DOMAIN calls, NEW step \in Steps, Awaits(n, step)
      PROVE  Moved(n, step, calls[n].lang)
  <2>1. calls[n] \in Call /\ calls[n].lang \in Languages \cup {None}
    BY CallsAre DEF Call
  <2>2. [calls[n] EXCEPT !.step = step]
          = [kind |-> calls[n].kind, step |-> step, lang |-> calls[n].lang]
    BY <2>1 DEF Call
  <2>3. calls' = [calls EXCEPT ![n] = [kind |-> calls[n].kind, step |-> step, lang |-> calls[n].lang]]
    BY <1>1, <2>2 DEF Awaits
  <2> QED  BY <2>1, <2>3, CallMoves
<1>2. ASSUME NEW n \in DOMAIN calls, PathTaken(n) PROVE Moved(n, "asset", locale)
  <2>1. calls[n] \in Call /\ calls \in [1 .. Len(calls) -> Call] /\ DOMAIN calls = 1 .. Len(calls)
    BY CallsAre
  <2> DEFINE c1 == [kind |-> calls[n].kind, step |-> "asset", lang |-> calls[n].lang]
             c2 == [kind |-> calls[n].kind, step |-> "asset", lang |-> locale]
             first == [calls EXCEPT ![n].step = "asset"]
  <2>2. [calls[n] EXCEPT !.step = "asset"] = c1 /\ [c1 EXCEPT !.lang = locale] = c2
    BY <2>1 DEF Call
  <2>3. first = [calls EXCEPT ![n] = c1]
    BY <2>2
  <2>4. calls' = [first EXCEPT ![n].lang = locale]
    BY <1>2 DEF PathTaken, PathOf
  <2> HIDE DEF c1, c2, first
  <2>5. first[n] = c1 /\ DOMAIN first = DOMAIN calls
    BY <2>1, <2>3
  <2>6. calls' = [first EXCEPT ![n] = c2]
    BY <2>2, <2>4, <2>5
  <2>7. calls' = [calls EXCEPT ![n] = c2]
    BY <2>3, <2>6
  <2> QED  BY <2>7, CallMoves DEF Steps, c2
<1>3. \A l \in Languages : ChangeLanguage(l) => Joined(Tap(l))
  BY CallJoins DEF ChangeLanguage, Tap, Call, Steps
<1>4. ASSUME NEW n \in DOMAIN calls
      PROVE  /\ FirstSeen(n) => \E step \in {"login", "done"} :
                  Awaits(n, step) /\ (step = "done" => splash = "gone")
             /\ CheckLogin(n) => \E step \in {"storage", "done"} :
                  Awaits(n, step) /\ (step = "done" => splash = "gone")
             /\ LocaleSet(n) => Awaits(n, "saving")
             /\ LocaleSaved(n) => Awaits(n, "storage")
  BY DEF FirstSeen, CheckLogin, LocaleSet, LocaleSaved
<1> QED  BY <1>1, <1>2, <1>3, <1>4 DEF Steps

(* ConfigLoaded ends call n; the first one starts the loads of AppInit.      *)
LEMMA ConfigEnds ==
  ASSUME calls \in Seq(Call), NEW n \in DOMAIN calls, ConfigLoaded(n)
  PROVE  /\ calls' \in Seq(Call)
         /\ DOMAIN calls' = DOMAIN calls \/ DOMAIN calls' = DOMAIN calls \cup {Len(calls) + 1}
         /\ \A m \in DOMAIN calls : m # n => calls'[m] = calls[m]
         /\ calls'[n].step = "done"
         /\ \A m \in DOMAIN calls' : m \notin DOMAIN calls => calls'[m] = InitCall
<1> DEFINE ended == [calls EXCEPT ![n].step = "done"]
           c == [kind |-> calls[n].kind, step |-> "done", lang |-> calls[n].lang]
<1>1. /\ DOMAIN calls = 1 .. Len(calls) /\ Len(calls) \in Nat
      /\ calls \in [1 .. Len(calls) -> Call] /\ calls[n] \in Call
      /\ Len(calls) + 1 \notin DOMAIN calls
  BY CallsAre
<1>2. c \in Call
  BY <1>1 DEF Call, Steps
<1>3. ended = [calls EXCEPT ![n] = c]
  <2>1. [calls[n] EXCEPT !.step = "done"] = c
    BY <1>1 DEF Call
  <2> QED  BY <2>1
<1>4. /\ ended \in [1 .. Len(calls) -> Call]
      /\ \A m \in DOMAIN calls : m # n => ended[m] = calls[m]
      /\ ended[n].step = "done"
  BY <1>1, <1>2, <1>3
<1>5. ended \in Seq(Call) /\ Len(ended) = Len(calls) /\ DOMAIN ended = DOMAIN calls
  BY <1>1, <1>4, SeqDef, LenProperties
<1>6. calls' = ended \/ calls' = Append(ended, InitCall)
  BY DEF ConfigLoaded, InitCall
<1> HIDE DEF ended, c
<1>7. CASE calls' = ended
  BY <1>4, <1>5, <1>7
<1>8. CASE calls' = Append(ended, InitCall)
  <2>1. InitCall \in Call
    BY DEF InitCall, Starts, Call, Steps
  <2>2. /\ calls' \in Seq(Call) /\ Len(calls') = Len(calls) + 1
        /\ \A m \in 1 .. Len(calls) : calls'[m] = ended[m]
        /\ calls'[Len(calls) + 1] = InitCall
    BY <1>5, <1>8, <2>1, AppendProperties
  <2>3. DOMAIN calls' = 1 .. Len(calls) + 1
    BY <2>2, LenProperties
  <2>4. DOMAIN calls' = DOMAIN calls \cup {Len(calls) + 1}
    BY <1>1, <2>3
  <2>5. \A m \in DOMAIN calls : calls'[m] = ended[m]
    BY <1>1, <2>2
  <2> QED  BY <1>4, <2>2, <2>4, <2>5
<1> QED  BY <1>6, <1>7, <1>8

-----------------------------------------------------------------------------
(* Type correctness.                                                         *)

(* TypeOK in three parts.                                                    *)
FlagsOK == isLoading \in BOOLEAN /\ splash \in {"none", "shown", "leaving", "gone"}
RoutesOK == routes \in Seq({"onboard", "tabs"}) /\ timers \in Nat
LanguagesOK ==
  /\ locale \in Languages /\ appConfig \in Languages \cup {None} /\ tapped \in Languages
  /\ calls \in Seq(Call)

(* A call that sets the locale, or has taken its path, has a language.       *)
Chosen == \A n \in DOMAIN calls : calls[n].step \in {"prefs", "asset"} => calls[n].lang \in Languages

LEMMA TypeParts == TypeOK <=> FlagsOK /\ RoutesOK /\ LanguagesOK
  BY DEF TypeOK, FlagsOK, RoutesOK, LanguagesOK

LEMMA FlagsStep == ASSUME FlagsOK, [Next]_vars PROVE FlagsOK'
<1>1. UNCHANGED vars => FlagsOK'
  BY DEF vars, FlagsOK
<1>2. \A n \in DOMAIN calls : FirstSeen(n) \/ CheckLogin(n) \/ LocaleSet(n) \/ LocaleSaved(n) \/ PathTaken(n) => FlagsOK'
  BY DEF FirstSeen, CheckLogin, LocaleSet, LocaleSaved, PathTaken, FlagsOK
<1>3. \A n \in DOMAIN calls : ConfigLoaded(n) => FlagsOK'
  BY DEF ConfigLoaded, Rebuilt, FlagsOK
<1>4. \A l \in Languages : ChangeLanguage(l) => FlagsOK'
  BY DEF ChangeLanguage, FlagsOK
<1>5. TimerElapses \/ TransitionEnds \/ OnDonePress \/ Back => FlagsOK'
  BY DEF TimerElapses, TransitionEnds, OnDonePress, Back, FlagsOK
<1> QED  BY <1>1, <1>2, <1>3, <1>4, <1>5 DEF Next, CallGoesOn

(* What is left of the routes under the top one.                             *)
LEMMA FrontIs ==
  ASSUME routes \in Seq({"onboard", "tabs"}), routes # <<>>
  PROVE  Front(routes) \in Seq({"onboard", "tabs"}) /\ Len(Front(routes)) = Len(routes) - 1
<1>1. /\ Len(routes) \in Nat /\ Len(routes) > 0
      /\ \A i \in 1 .. Len(routes) : routes[i] \in {"onboard", "tabs"}
  <2>1. Len(routes) \in Nat /\ Len(routes) # 0
    BY LenProperties, EmptySeq
  <2> QED  BY <2>1, ElementOfSeq
<1>2. /\ SubSeq(routes, 1, Len(routes) - 1) \in Seq({"onboard", "tabs"})
      /\ Len(SubSeq(routes, 1, Len(routes) - 1)) = IF 1 <= Len(routes) - 1 THEN Len(routes) - 1 - 1 + 1 ELSE 0
  <2>1. \A i \in 1 .. Len(routes) - 1 : routes[i] \in {"onboard", "tabs"}
    BY <1>1
  <2> QED  BY <1>1, <2>1, SubSeqProperties
<1>3. (IF 1 <= Len(routes) - 1 THEN Len(routes) - 1 - 1 + 1 ELSE 0) = Len(routes) - 1
  <2>1. \A k \in Nat : k > 0 => (IF 1 <= k - 1 THEN k - 1 - 1 + 1 ELSE 0) = k - 1
    OBVIOUS
  <2> QED  BY <1>1, <2>1
<1> QED  BY <1>2, <1>3 DEF Front

LEMMA RoutesStep == ASSUME RoutesOK, [Next]_vars PROVE RoutesOK'
<1>1. routes \in Seq({"onboard", "tabs"}) /\ timers \in Nat
  BY DEF RoutesOK
<1>2. CASE UNCHANGED vars  BY <1>2 DEF vars, RoutesOK
<1>3. ASSUME NEW n \in DOMAIN calls, CallGoesOn(n) PROVE RoutesOK'
  <2>1. routes' = routes
    BY <1>3 DEF CallGoesOn, FirstSeen, CheckLogin, LocaleSet, LocaleSaved, PathTaken, ConfigLoaded
  <2>2. timers' \in {timers, timers + 1}
    BY <1>3 DEF CallGoesOn, FirstSeen, CheckLogin, LocaleSet, LocaleSaved, PathTaken, ConfigLoaded,
                Rebuilt, SplashBuilt
  <2> QED  BY <1>1, <2>1, <2>2 DEF RoutesOK
<1>4. ASSUME NEW l \in Languages, ChangeLanguage(l) PROVE RoutesOK'
  BY <1>1, <1>4 DEF ChangeLanguage, RoutesOK
<1>5. CASE TimerElapses
  <2>1. timers' \in Nat
    BY <1>1, <1>5 DEF TimerElapses
  <2>2. routes' \in Seq({"onboard", "tabs"})
    <3>1. <<"onboard">> \in Seq({"onboard", "tabs"})
      OBVIOUS
    <3>2. routes # <<>> => Append(Front(routes), "onboard") \in Seq({"onboard", "tabs"})
      BY <1>1, FrontIs, AppendProperties
    <3> QED  BY <1>1, <1>5, <3>1, <3>2 DEF TimerElapses
  <2> QED  BY <2>1, <2>2 DEF RoutesOK
<1>6. CASE TransitionEnds  BY <1>1, <1>6 DEF TransitionEnds, RoutesOK
<1>7. CASE OnDonePress
  <2>1. Append(routes, "tabs") \in Seq({"onboard", "tabs"})
    BY <1>1, AppendProperties
  <2> QED  BY <1>1, <1>7, <2>1 DEF OnDonePress, RoutesOK
<1>8. CASE Back
  <2>1. routes # <<>>
    BY <1>8, EmptySeq DEF Back
  <2> QED  BY <1>1, <1>8, <2>1, FrontIs DEF Back, RoutesOK
<1> QED  BY <1>2, <1>3, <1>4, <1>5, <1>6, <1>7, <1>8 DEF Next

LEMMA LanguagesStep ==
  ASSUME LanguagesOK, Chosen, [Next]_vars
  PROVE  LanguagesOK' /\ Chosen'
<1>1. /\ locale \in Languages /\ appConfig \in Languages \cup {None} /\ tapped \in Languages
      /\ calls \in Seq(Call)
  BY DEF LanguagesOK
<1>2. CASE UNCHANGED <<locale, appConfig, tapped, calls>>
  BY <1>1, <1>2 DEF LanguagesOK, Chosen
<1>3. ASSUME NEW n \in DOMAIN calls, FirstSeen(n) \/ CheckLogin(n) \/ LocaleSaved(n)
      PROVE  LanguagesOK' /\ Chosen'
  <2>1. PICK step \in {"login", "storage", "done"} : Moved(n, step, calls[n].lang)
    BY <1>1, <1>3, StepsOfCalls
  <2>2. UNCHANGED <<locale, appConfig, tapped>>
    BY <1>3 DEF FirstSeen, CheckLogin, LocaleSaved
  <2>3. Chosen'
    BY <2>1, <2>2 DEF Moved, Chosen
  <2> QED  BY <1>1, <2>1, <2>2, <2>3 DEF Moved, LanguagesOK
<1>4. ASSUME NEW n \in DOMAIN calls, LocaleSet(n) PROVE LanguagesOK' /\ Chosen'
  <2>1. Moved(n, "saving", calls[n].lang)
    BY <1>1, <1>4, StepsOfCalls
  <2>2. calls[n].lang \in Languages
    BY <1>4 DEF LocaleSet, FirstAt, Chosen
  <2>3. locale' \in Languages /\ UNCHANGED <<appConfig, tapped>>
    BY <1>4, <2>2 DEF LocaleSet
  <2>4. Chosen'
    BY <2>1 DEF Moved, Chosen
  <2> QED  BY <1>1, <2>1, <2>3, <2>4 DEF Moved, LanguagesOK
<1>5. ASSUME NEW n \in DOMAIN calls, PathTaken(n) PROVE LanguagesOK' /\ Chosen'
  <2>1. Moved(n, "asset", locale)
    BY <1>1, <1>5, StepsOfCalls
  <2>2. UNCHANGED <<locale, appConfig, tapped>>
    BY <1>5 DEF PathTaken
  <2>3. Chosen'
    BY <1>1, <2>1 DEF Moved, Chosen
  <2> QED  BY <1>1, <2>1, <2>2, <2>3 DEF Moved, LanguagesOK
<1>6. ASSUME NEW n \in DOMAIN calls, ConfigLoaded(n) PROVE LanguagesOK' /\ Chosen'
  <2>1. /\ calls' \in Seq(Call)
        /\ \A m \in DOMAIN calls : m # n => calls'[m] = calls[m]
        /\ calls'[n].step = "done"
        /\ \A m \in DOMAIN calls' : m \notin DOMAIN calls => calls'[m] = InitCall
    BY <1>1, <1>6, ConfigEnds
  <2>2. appConfig' = calls[n].lang /\ calls[n].lang \in Languages /\ UNCHANGED <<locale, tapped>>
    BY <1>6 DEF ConfigLoaded, Chosen
  <2>3. InitCall.step = "seen"
    BY DEF InitCall, Starts
  <2>4. Chosen'
    BY <2>1, <2>3 DEF Chosen
  <2> QED  BY <1>1, <2>1, <2>2, <2>4 DEF LanguagesOK
<1>7. ASSUME NEW l \in Languages, ChangeLanguage(l) PROVE LanguagesOK' /\ Chosen'
  <2>1. Joined(Tap(l))
    BY <1>1, <1>7, StepsOfCalls
  <2>2. tapped' \in Languages /\ UNCHANGED <<locale, appConfig>>
    BY <1>7 DEF ChangeLanguage
  <2>3. Chosen'
    BY <2>1 DEF Joined, Tap, Chosen
  <2> QED  BY <1>1, <2>1, <2>2, <2>3 DEF Joined, LanguagesOK
<1>8. UNCHANGED vars \/ TimerElapses \/ TransitionEnds \/ OnDonePress \/ Back
        => UNCHANGED <<locale, appConfig, tapped, calls>>
  BY DEF vars, TimerElapses, TransitionEnds, OnDonePress, Back
<1> QED  BY <1>2, <1>3, <1>4, <1>5, <1>6, <1>7, <1>8 DEF Next, CallGoesOn

-----------------------------------------------------------------------------
(* The locale follows the taps in their order.                               *)

AtPrefs == {n \in DOMAIN calls : calls[n].step = "prefs"}

LastTap ==
  /\ AtPrefs = {} => locale = tapped
  /\ \A n \in AtPrefs : (\A m \in AtPrefs : m <= n) => calls[n].lang = tapped

(* A call that was not at the preferences and does not come there leaves the *)
(* taps as they were.                                                        *)
LEMMA LastTapKept ==
  ASSUME LastTap, locale' = locale, tapped' = tapped,
         AtPrefs' = AtPrefs, \A n \in AtPrefs : calls'[n] = calls[n]
  PROVE  LastTap'
  BY DEF LastTap

LEMMA LastTapStep ==
  ASSUME LanguagesOK, LastTap, [Next]_vars
  PROVE  LastTap'
<1>1. calls \in Seq(Call) /\ locale \in Languages
  BY DEF LanguagesOK
<1>2. ASSUME NEW n \in DOMAIN calls, FirstSeen(n) \/ CheckLogin(n) \/ LocaleSaved(n) \/ PathTaken(n)
      PROVE  LastTap'
  <2>1. PICK step \in {"login", "storage", "asset", "done"}, lang \in {locale, calls[n].lang} :
          Moved(n, step, lang)
    BY <1>1, <1>2, StepsOfCalls
  <2>2. calls[n].step # "prefs" /\ UNCHANGED <<locale, tapped>>
    BY <1>2 DEF FirstSeen, CheckLogin, LocaleSaved, FirstAt, PathTaken
  <2>3. AtPrefs' = AtPrefs /\ \A m \in AtPrefs : calls'[m] = calls[m]
    BY <2>1, <2>2 DEF Moved, AtPrefs
  <2> QED  BY <2>2, <2>3, LastTapKept
<1>3. ASSUME NEW n \in DOMAIN calls, ConfigLoaded(n) PROVE LastTap'
  <2>1. /\ DOMAIN calls' = DOMAIN calls \/ DOMAIN calls' = DOMAIN calls \cup {Len(calls) + 1}
        /\ \A m \in DOMAIN calls : m # n => calls'[m] = calls[m]
        /\ calls'[n].step = "done"
        /\ \A m \in DOMAIN calls' : m \notin DOMAIN calls => calls'[m].step = "seen"
    <3>1. InitCall.step = "seen"
      BY DEF InitCall, Starts
    <3>2. \A m \in DOMAIN calls' : m \notin DOMAIN calls => calls'[m] = InitCall
      BY <1>1, <1>3, ConfigEnds
    <3> QED  BY <1>1, <1>3, <3>1, <3>2, ConfigEnds
  <2>2. calls[n].step # "prefs" /\ UNCHANGED <<locale, tapped>>
    BY <1>3 DEF ConfigLoaded
  <2>3. AtPrefs' = AtPrefs /\ \A m \in AtPrefs : calls'[m] = calls[m]
    BY <2>1, <2>2 DEF AtPrefs
  <2> QED  BY <2>2, <2>3, LastTapKept
<1>4. ASSUME NEW n \in DOMAIN calls, LocaleSet(n) PROVE LastTap'
  <2>1. Moved(n, "saving", calls[n].lang)
    BY <1>1, <1>4, StepsOfCalls
  <2>2. AtPrefs' = AtPrefs \ {n} /\ n \in AtPrefs /\ \A m \in AtPrefs \ {n} : calls'[m] = calls[m]
    BY <1>4, <2>1 DEF Moved, AtPrefs, LocaleSet, FirstAt
  <2>3. \A m \in AtPrefs : n <= m
    <3>1. \A m \in 1 .. n - 1 : calls[m].step # "prefs"
      BY <1>4 DEF LocaleSet, FirstAt
    <3>2. DOMAIN calls = 1 .. Len(calls) /\ Len(calls) \in Nat
      BY <1>1, CallsAre
    <3> QED  BY <3>1, <3>2 DEF AtPrefs
  <2>4. locale' = calls[n].lang /\ tapped' = tapped
    BY <1>4 DEF LocaleSet
  <2>5. \A m \in AtPrefs : m \in Nat
    BY <1>1, CallsAre DEF AtPrefs
  <2>6. AtPrefs \ {n} = {} => calls[n].lang = tapped
    BY <2>2, <2>5 DEF LastTap
  <2>7. \A m \in AtPrefs \ {n} : (\A k \in AtPrefs \ {n} : k <= m) => calls[m].lang = tapped
    BY <2>2, <2>3 DEF LastTap
  <2> QED  BY <2>2, <2>4, <2>6, <2>7 DEF LastTap
<1>5. ASSUME NEW l \in Languages, ChangeLanguage(l) PROVE LastTap'
  <2>1. Joined(Tap(l))
    BY <1>1, <1>5, StepsOfCalls
  <2>2. /\ AtPrefs' = AtPrefs \cup {Len(calls) + 1}
        /\ calls'[Len(calls) + 1].lang = l
    BY <2>1 DEF Joined, Tap, AtPrefs
  <2>3. \A m \in AtPrefs : ~(Len(calls) + 1 <= m)
    BY <1>1, CallsAre DEF AtPrefs
  <2>4. tapped' = l
    BY <1>5 DEF ChangeLanguage
  <2> QED  BY <2>2, <2>3, <2>4 DEF LastTap
<1>6. CASE UNCHANGED <<locale, tapped, calls>>
  <2>1. AtPrefs' = AtPrefs
    BY <1>6 DEF AtPrefs
  <2> QED  BY <1>6, <2>1, LastTapKept
<1>7. UNCHANGED vars \/ TimerElapses \/ TransitionEnds \/ OnDonePress \/ Back
        => UNCHANGED <<locale, tapped, calls>>
  BY DEF vars, TimerElapses, TransitionEnds, OnDonePress, Back
<1> QED  BY <1>2, <1>3, <1>4, <1>5, <1>6, <1>7 DEF Next, CallGoesOn

-----------------------------------------------------------------------------
(* The configuration follows the locale while no calls overlap.              *)

(* One call at a time, whose path is the locale's; between two, and until    *)
(* the locale is set, the configuration is the locale's.                     *)
Settling ==
  ~overlapped =>
    /\ \A m, n \in UnderWay : m = n
    /\ \A n \in DOMAIN calls : calls[n].step = "asset" => calls[n].lang = locale
    /\ (\A n \in UnderWay : calls[n].step \in {"seen", "login", "prefs"}) => appConfig = locale

LEMMA UnderWayMoved ==
  ASSUME NEW n \in DOMAIN calls, calls[n].step # "done", NEW step, NEW lang,
         Moved(n, step, lang)
  PROVE  /\ step = "done" => UnderWay' = UnderWay \ {n}
         /\ step # "done" => UnderWay' = UnderWay
         /\ n \in UnderWay
         /\ \A m \in UnderWay' : m # n => calls'[m].step = calls[m].step
  BY DEF Moved, UnderWay

LEMMA SettlingStep ==
  ASSUME LanguagesOK, Settling, [Next]_vars
  PROVE  Settling'
<1>1. calls \in Seq(Call) /\ locale \in Languages
  BY DEF LanguagesOK
<1>2. ASSUME NEW n \in DOMAIN calls, FirstSeen(n) \/ CheckLogin(n)
      PROVE  Settling'
  <2>1. PICK step \in {"login", "storage", "done"} : Moved(n, step, calls[n].lang)
    BY <1>1, <1>2, StepsOfCalls
  <2>2. /\ calls[n].step \in {"seen", "login"} /\ UNCHANGED <<locale, appConfig>>
        /\ overlapped => overlapped'
    <3>1. CASE FirstSeen(n)
      BY <3>1 DEF FirstSeen
    <3>2. CASE CheckLogin(n)
      <4>1. overlapped' = (overlapped \/ (splash # "gone" /\ UnderWay # {n}))
        BY <3>2 DEF CheckLogin
      <4>2. overlapped => overlapped'
        BY <4>1, Zenon
      <4> QED  BY <3>2, <4>2 DEF CheckLogin
    <3> QED  BY <1>2, <3>1, <3>2
  <2>3. /\ UnderWay' \subseteq UnderWay /\ n \in UnderWay
        /\ \A m \in UnderWay' : m # n => calls'[m].step = calls[m].step
    BY <2>1, <2>2, UnderWayMoved
  <2>4. ~overlapped' => \A m, k \in UnderWay' : m = k
    BY <2>2, <2>3 DEF Settling
  <2>5. ~overlapped' => appConfig = locale
    <3>1. ~overlapped => \A m \in UnderWay : m = n
      BY <2>3 DEF Settling
    <3> QED  BY <2>2, <3>1 DEF Settling
  <2>6. ~overlapped' => \A m \in DOMAIN calls' : calls'[m].step = "asset" => calls'[m].lang = locale
    BY <2>1, <2>2 DEF Moved, Settling
  <2> QED  BY <2>2, <2>4, <2>5, <2>6 DEF Settling
<1>3. ASSUME NEW n \in DOMAIN calls, LocaleSet(n) PROVE Settling'
  <2>1. Moved(n, "saving", calls[n].lang)
    BY <1>1, <1>3, StepsOfCalls
  <2>2. calls[n].step = "prefs" /\ overlapped' = overlapped
    BY <1>3 DEF LocaleSet, FirstAt
  <2>3. UnderWay' = UnderWay /\ n \in UnderWay
    BY <2>1, <2>2, UnderWayMoved
  <2>4. calls'[n].step = "saving"
    BY <2>1 DEF Moved
  <2>5. ~overlapped => \A m \in DOMAIN calls' : calls'[m].step # "asset"
    <3>1. ~overlapped => \A m \in UnderWay : m = n
      BY <2>3 DEF Settling
    <3>2. \A m \in DOMAIN calls' : calls'[m].step = "asset" => m # n /\ m \in UnderWay
      BY <2>1, <2>4 DEF Moved, UnderWay
    <3> QED  BY <3>1, <3>2
  <2> QED  BY <2>2, <2>3, <2>4, <2>5 DEF Settling
<1>4. ASSUME NEW n \in DOMAIN calls, LocaleSaved(n) \/ PathTaken(n) PROVE Settling'
  <2>1. PICK step \in {"storage", "asset"}, lang \in {locale, calls[n].lang} :
          Moved(n, step, lang) /\ (step = "asset" => lang = locale)
    BY <1>1, <1>4, StepsOfCalls
  <2>2. calls[n].step \in {"saving", "storage"} /\ UNCHANGED <<locale, appConfig, overlapped>>
    BY <1>4 DEF LocaleSaved, FirstAt, PathTaken
  <2>3. UnderWay' = UnderWay /\ n \in UnderWay
    BY <2>1, <2>2, UnderWayMoved
  <2>4. calls'[n].step = step /\ calls'[n].lang = lang
    BY <2>1 DEF Moved
  <2>5. ~overlapped => \A m \in DOMAIN calls' : calls'[m].step = "asset" => calls'[m].lang = locale
    BY <2>1, <2>4 DEF Moved, Settling
  <2> QED  BY <2>2, <2>3, <2>4, <2>5 DEF Settling
<1>5. ASSUME NEW n \in DOMAIN calls, ConfigLoaded(n) PROVE Settling'
  <2>1. /\ DOMAIN calls' = DOMAIN calls \/ DOMAIN calls' = DOMAIN calls \cup {Len(calls) + 1}
        /\ \A m \in DOMAIN calls : m # n => calls'[m] = calls[m]
        /\ calls'[n].step = "done"
        /\ \A m \in DOMAIN calls' : m \notin DOMAIN calls => calls'[m] = InitCall
    BY <1>1, <1>5, ConfigEnds
  <2>2. /\ calls[n].step = "asset" /\ appConfig' = calls[n].lang
        /\ locale' = locale /\ overlapped' = overlapped
    BY <1>5 DEF ConfigLoaded
  <2>3. n \in UnderWay
    BY <2>2 DEF UnderWay
  <2>4. ~overlapped => UnderWay = {n} /\ calls[n].lang = locale
    BY <2>2, <2>3 DEF Settling
  <2>5. InitCall.step = "seen"
    BY DEF InitCall, Starts
  <2>6. ASSUME ~overlapped, NEW m \in DOMAIN calls', calls'[m].step # "done"
        PROVE  m = Len(calls) + 1 /\ calls'[m].step = "seen"
    <3>1. m \notin DOMAIN calls
      <4>1. SUFFICES ASSUME m \in DOMAIN calls PROVE FALSE
        OBVIOUS
      <4>2. m # n /\ calls[m].step # "done"
        BY <2>1, <2>6, <4>1
      <4>3. m \in UnderWay
        BY <4>1, <4>2 DEF UnderWay
      <4> QED  BY <2>4, <2>6, <4>2, <4>3
    <3> QED  BY <2>1, <2>5, <3>1
  <2>7. ~overlapped => \A m, k \in UnderWay' : m = k
    BY <2>6 DEF UnderWay
  <2>8. ~overlapped => \A m \in DOMAIN calls' : calls'[m].step # "asset"
    BY <2>6
  <2> QED  BY <2>2, <2>4, <2>7, <2>8 DEF Settling
<1>6. ASSUME NEW l \in Languages, ChangeLanguage(l) PROVE Settling'
  <2>1. Joined(Tap(l))
    BY <1>1, <1>6, StepsOfCalls
  <2>2. UNCHANGED <<locale, appConfig>> /\ overlapped' = (overlapped \/ UnderWay # {})
    BY <1>6 DEF ChangeLanguage
  <2>3. Tap(l).step = "prefs"
    BY DEF Tap
  <2>4. UnderWay' = UnderWay \cup {Len(calls) + 1}
    BY <2>1, <2>3 DEF Joined, UnderWay
  <2>5. ~overlapped' => UnderWay = {} /\ appConfig = locale
    BY <2>2 DEF Settling
  <2>6. ~overlapped' => \A m \in DOMAIN calls' : calls'[m].step = "asset" => calls'[m].lang = locale
    BY <2>1, <2>2, <2>3 DEF Joined, Settling
  <2> QED  BY <2>2, <2>4, <2>5, <2>6 DEF Settling
<1>7. CASE UNCHANGED <<locale, appConfig, overlapped, calls>>
  <2>1. UnderWay' = UnderWay
    BY <1>7 DEF UnderWay
  <2> QED  BY <1>7, <2>1 DEF Settling
<1>8. UNCHANGED vars \/ TimerElapses \/ TransitionEnds \/ OnDonePress \/ Back
        => UNCHANGED <<locale, appConfig, overlapped, calls>>
  BY DEF vars, TimerElapses, TransitionEnds, OnDonePress, Back
<1> QED  BY <1>2, <1>3, <1>4, <1>5, <1>6, <1>7, <1>8 DEF Next, CallGoesOn

-----------------------------------------------------------------------------
(* The inductive invariant and what it shows.                                *)

IInv == FlagsOK /\ RoutesOK /\ LanguagesOK /\ Chosen /\ LastTap /\ Settling

LEMMA InitIInv == ASSUME StartupAssumption, Init PROVE IInv
<1>1. /\ locale = Default /\ appConfig = None /\ tapped = Default /\ isLoading = TRUE
      /\ calls = <<Starts("app", "storage")>> /\ routes = <<>> /\ splash = "none" /\ timers = 0
  BY DEF Init
<1>2. Starts("app", "storage") \in Call /\ Starts("app", "storage").step = "storage"
  BY DEF Starts, Call, Steps
<1>3. calls \in Seq(Call) /\ DOMAIN calls = {1} /\ calls[1] = Starts("app", "storage")
  BY <1>1, <1>2
<1>4. FlagsOK /\ RoutesOK
  BY <1>1, EmptySeq DEF FlagsOK, RoutesOK
<1>5. LanguagesOK
  BY <1>1, <1>3 DEF LanguagesOK, StartupAssumption
<1>6. \A n \in DOMAIN calls : n = 1 /\ calls[n].step = "storage"
  BY <1>2, <1>3
<1>7. Chosen
  BY <1>6 DEF Chosen
<1>8. LastTap
  BY <1>1, <1>6 DEF LastTap, AtPrefs
<1>9. UnderWay = {1}
  BY <1>3, <1>6 DEF UnderWay
<1>10. Settling
  <2>1. 1 \in UnderWay /\ calls[1].step = "storage"
    BY <1>3, <1>6, <1>9
  <2>2. ~(\A n \in UnderWay : calls[n].step \in {"seen", "login", "prefs"})
    BY <2>1
  <2>3. \A m, n \in UnderWay : m = n
    BY <1>9
  <2>4. \A n \in DOMAIN calls : calls[n].step # "asset"
    BY <1>6
  <2> QED  BY <2>2, <2>3, <2>4 DEF Settling
<1> QED  BY <1>4, <1>5, <1>7, <1>8, <1>10 DEF IInv

LEMMA NextIInv == ASSUME IInv, [Next]_vars PROVE IInv'
  BY FlagsStep, RoutesStep, LanguagesStep, LastTapStep, SettlingStep DEF IInv

LEMMA Invariance == Spec => []IInv
<1>1. Init => IInv
  BY InitIInv, StartupAssumption
<1>2. IInv /\ [Next]_vars => IInv'
  BY NextIInv
<1> QED  BY <1>1, <1>2, PTL DEF Spec

(* AppModel and the routes keep their types: what is loaded is a language's  *)
(* configuration, and no call goes on without one (models/app.dart:25-90).   *)
THEOREM TypeCorrect == Spec => []TypeOK
<1>1. IInv => TypeOK
  BY TypeParts DEF IInv
<1> QED  BY <1>1, Invariance, PTL

(* However many calls overlap, once all have ended the locale is the one     *)
(* tapped last, and the configuration is its own if none overlapped          *)
(* (models/app.dart:25-38).                                                  *)
THEOREM LastTapSettles == Spec => []SettledOnTheLastTap
<1>1. IInv => SettledOnTheLastTap
  <2> SUFFICES ASSUME IInv PROVE SettledOnTheLastTap
    OBVIOUS
  <2>1. TypeOK
    BY TypeParts DEF IInv
  <2>2. UnderWay = {} => AtPrefs = {}
    BY DEF UnderWay, AtPrefs
  <2>3. UnderWay = {} => locale = tapped
    BY <2>2 DEF IInv, LastTap
  <2>4. UnderWay = {} => appConfig = locale \/ overlapped
    BY DEF IInv, Settling
  <2> QED  BY <2>1, <2>3, <2>4 DEF SettledOnTheLastTap
<1> QED  BY <1>1, Invariance, PTL

(* No timer of the splash replaces the tabs once its transition is over:     *)
(* only the user leaves them (animated_splash.dart:80).                      *)
THEOREM TabsAreKept == Spec => TabsStay
<1>1. IInv /\ [Next]_vars =>
        [splash = "gone" /\ Top = "tabs" /\ Top' # "tabs" => Len(routes') < Len(routes)]_vars
  <2> SUFFICES ASSUME IInv, Next, splash = "gone", Top = "tabs", Top' # "tabs"
               PROVE  Len(routes') < Len(routes)
    OBVIOUS
  <2>1. routes' # routes
    BY DEF Top
  <2>2. ~(\E n \in DOMAIN calls : CallGoesOn(n)) /\ ~(\E l \in Languages : ChangeLanguage(l))
    BY <2>1 DEF CallGoesOn, FirstSeen, CheckLogin, LocaleSet, LocaleSaved, PathTaken, ConfigLoaded,
                ChangeLanguage
  <2>3. ~TimerElapses /\ ~TransitionEnds /\ ~OnDonePress
    BY <2>1 DEF TimerElapses, Replaces, TransitionEnds, OnDonePress
  <2>4. Back
    BY <2>2, <2>3 DEF Next
  <2>5. routes \in Seq({"onboard", "tabs"}) /\ routes # <<>> /\ routes' = Front(routes)
    BY <2>4, EmptySeq DEF Back, IInv, RoutesOK
  <2>6. Len(routes') = Len(routes) - 1 /\ Len(routes) \in Nat
    BY <2>5, FrontIs, LenProperties
  <2> QED  BY <2>6
<1> QED  BY <1>1, Invariance, PTL DEF Spec, TabsStay

-----------------------------------------------------------------------------
(* The screens of PostSubmission.                                            *)


Holding == {"popping", "restoring"}

(* What OneAtATime needs to be kept: who waits for the animation waits for   *)
(* that of a screen which is there.                                          *)
ScreenOK ==
  /\ \A n \in DOMAIN submissions : submissions[n].pc \in Holding => submissions[n].here
  /\ \A n \in DOMAIN submissions : OnItsWay(n) => open /\ postLoading
  /\ \A m, n \in DOMAIN submissions : OnItsWay(m) /\ OnItsWay(n) => m = n

(* A token that came is the user's, and so will be one that is awaited.      *)
TokenIsUsers ==
  ~loginsOverlapped =>
    /\ user # Nothing /\ login[user] = "token" => token = user
    /\ \A a \in awaiting : user \in {a, Nothing}

AccountTypes ==
  /\ user \in Somebody /\ role \in BOOLEAN /\ token \in Somebody
  /\ awaiting \subseteq Accounts
  /\ login \in [Accounts -> {"none", "tokenless", "token"}]
  /\ loginsOverlapped \in BOOLEAN

TabTypes == tabs \in Seq({"unchecked", "yes", "no"}) /\ tabs # <<>>

ScreenTypes ==
  /\ open \in BOOLEAN /\ author \in Somebody /\ postLoading \in BOOLEAN
  /\ submissions \in Seq(Submission)

PostInv ==
  /\ AccountTypes /\ TokenIsUsers
  /\ TabTypes
  /\ ScreenTypes /\ ScreenOK
  /\ TokenFitsAuthor

(* The submissions are a function on an interval from 1.                     *)
LEMMA SubmissionsAre ==
  ASSUME submissions \in Seq(Submission)
  PROVE  /\ Len(submissions) \in Nat /\ DOMAIN submissions = 1 .. Len(submissions)
         /\ submissions \in [1 .. Len(submissions) -> Submission]
         /\ \A n \in DOMAIN submissions : submissions[n] \in Submission
BY LenProperties

(* A submission goes on alone; the others stay as they are.                  *)
With(n, s) == [submissions EXCEPT ![n] = s]

LEMMA WithStep ==
  ASSUME submissions \in Seq(Submission), NEW n \in DOMAIN submissions, NEW s \in Submission
  PROVE  /\ With(n, s) \in Seq(Submission)
         /\ DOMAIN With(n, s) = DOMAIN submissions
         /\ With(n, s)[n] = s
         /\ \A m \in DOMAIN submissions : m # n => With(n, s)[m] = submissions[m]
<1>1. With(n, s) \in [1 .. Len(submissions) -> Submission]
  BY SubmissionsAre DEF With
<1>2. With(n, s) \in Seq(Submission)
  BY <1>1, SubmissionsAre, SeqDef
<1> QED  BY <1>2, SubmissionsAre DEF With

(* What a submission may become: another step, without its screen.           *)
LEMMA NewStep ==
  ASSUME NEW s \in Submission, NEW pc \in Pcs
  PROVE  /\ [s EXCEPT !.pc = pc] \in Submission
         /\ [s EXCEPT !.pc = pc].pc = pc
         /\ [s EXCEPT !.pc = pc].author = s.author
         /\ [s EXCEPT !.pc = pc].as = s.as
         /\ [s EXCEPT !.pc = pc].own = s.own
         /\ [s EXCEPT !.pc = pc].here = s.here
BY DEF Submission

LEMMA LeftStep ==
  ASSUME NEW s \in Submission, NEW pc \in Pcs
  PROVE  /\ [s EXCEPT !.pc = pc, !.here = FALSE] \in Submission
         /\ [s EXCEPT !.pc = pc, !.here = FALSE].pc = pc
         /\ [s EXCEPT !.pc = pc, !.here = FALSE].author = s.author
         /\ [s EXCEPT !.pc = pc, !.here = FALSE].as = s.as
         /\ [s EXCEPT !.pc = pc, !.here = FALSE].own = s.own
         /\ [s EXCEPT !.pc = pc, !.here = FALSE].here = FALSE
BY DEF Submission

(* T are the submissions of S when their screen is gone.                     *)
NoneHere(S, T) ==
  /\ T \in Seq(Submission)
  /\ DOMAIN T = DOMAIN S
  /\ \A n \in DOMAIN S : /\ T[n].author = S[n].author /\ T[n].as = S[n].as
                         /\ T[n].own = S[n].own
                         /\ ~T[n].here /\ T[n].pc \notin Holding

LEMMA AbandonedStep ==
  ASSUME NEW S \in Seq(Submission)
  PROVE  NoneHere(S, Abandoned(S))
<1> DEFINE T == Abandoned(S)
           rest(n) == IF S[n].pc \in Holding THEN "ended" ELSE S[n].pc
<1>1. Len(S) \in Nat /\ DOMAIN S = 1 .. Len(S) /\ \A n \in DOMAIN S : S[n] \in Submission
  BY LenProperties
<1>2. ASSUME NEW n \in DOMAIN S
      PROVE  rest(n) \in Pcs /\ rest(n) \notin Holding
  BY <1>1, <1>2 DEF Submission, Pcs, Holding
<1>3. ASSUME NEW n \in DOMAIN S
      PROVE  T[n] = [S[n] EXCEPT !.pc = rest(n), !.here = FALSE]
  BY <1>3 DEF Abandoned, Holding
<1>4. DOMAIN T = DOMAIN S
  BY DEF Abandoned
<1>5. T = [n \in DOMAIN S |-> T[n]]
  BY DEF Abandoned
<1> HIDE DEF T, rest
<1>6. ASSUME NEW n \in DOMAIN S
      PROVE  /\ T[n] \in Submission
             /\ T[n].author = S[n].author /\ T[n].as = S[n].as /\ T[n].own = S[n].own
             /\ ~T[n].here /\ T[n].pc \notin Holding
  <2>1. S[n] \in Submission /\ rest(n) \in Pcs /\ rest(n) \notin Holding
    BY <1>1, <1>2
  <2> DEFINE e == [S[n] EXCEPT !.pc = rest(n), !.here = FALSE]
  <2>2. /\ e \in Submission /\ e.pc = rest(n) /\ e.here = FALSE
        /\ e.author = S[n].author /\ e.as = S[n].as /\ e.own = S[n].own
    BY <2>1, LeftStep
  <2>3. T[n] = e
    BY <1>3
  <2> HIDE DEF e
  <2> QED  BY <2>1, <2>2, <2>3
<1>7. T \in [1 .. Len(S) -> Submission]
  BY <1>1, <1>5, <1>6
<1>8. T \in Seq(Submission)
  BY <1>1, <1>7, SeqDef
<1> QED  BY <1>4, <1>6, <1>8 DEF NoneHere, T

LEMMA RestartLeaves ==
  ASSUME submissions \in Seq(Submission), Restart
  PROVE  NoneHere(submissions, submissions')
<1>1. /\ submissions' = [n \in DOMAIN submissions |->
                           [submissions[n] EXCEPT !.pc = "ended", !.here = FALSE]]
      /\ "ended" \in Pcs /\ "ended" \notin Holding
  BY DEF Restart, Pcs, Holding
<1>2. ASSUME NEW n \in DOMAIN submissions
      PROVE  /\ submissions'[n] \in Submission
             /\ submissions'[n].author = submissions[n].author
             /\ submissions'[n].as = submissions[n].as /\ submissions'[n].own = submissions[n].own
             /\ ~submissions'[n].here /\ submissions'[n].pc \notin Holding
  <2>1. /\ submissions[n] \in Submission
        /\ submissions'[n] = [submissions[n] EXCEPT !.pc = "ended", !.here = FALSE]
    BY <1>1, SubmissionsAre
  <2> QED  BY <1>1, <2>1, LeftStep
<1>3. submissions' \in [1 .. Len(submissions) -> Submission]
  BY <1>1, <1>2, SubmissionsAre
<1>4. submissions' \in Seq(Submission)
  BY <1>3, SubmissionsAre, SeqDef
<1> QED  BY <1>1, <1>2, <1>4 DEF NoneHere

-----------------------------------------------------------------------------
(* Where nothing happens to the accounts, the tabs or the screen.            *)

GoingOn == \E n \in DOMAIN submissions : GoesOn(n)

LEMMA GoingOnKeeps == ASSUME GoingOn PROVE UNCHANGED <<accountVars, tabs>>
BY DEF GoingOn, GoesOn, TokenRead, Uploaded, Posted, RequestFails, AnimationEnds

AccountStep ==
  \/ \E a \in Accounts : LoginByEmail(a) \/ Register(a) \/ LoginOtherwise(a)
                         \/ JwtComes(a) \/ JwtFails(a)
  \/ Logout

LEMMA AccountStepKeeps == ASSUME AccountStep PROVE UNCHANGED <<screenVars, submissions>>
BY DEF AccountStep, LoginByEmail, Register, LoginOtherwise, LoggedIn, JwtComes, JwtFails, Logout

-----------------------------------------------------------------------------
(* The token of the account that is logged in.                               *)

LEMMA LoginStep ==
  ASSUME PostAssumption, AccountTypes, TokenIsUsers, NEW a \in Accounts,
         NEW named \in BOOLEAN, LoggedIn(a, named), awaiting' \in {awaiting, awaiting \cup {a}}
  PROVE  AccountTypes' /\ TokenIsUsers'
<1>1. /\ user' = a /\ role' \in BOOLEAN /\ token' = token
      /\ login' = [login EXCEPT ![a] = "tokenless"]
      /\ loginsOverlapped' = (loginsOverlapped \/ awaiting # {})
  BY DEF LoggedIn
<1>2. login' \in [Accounts -> {"none", "tokenless", "token"}] /\ login'[a] = "tokenless"
  BY <1>1 DEF AccountTypes
<1>3. loginsOverlapped' \in BOOLEAN /\ (~loginsOverlapped' => awaiting = {})
  BY <1>1, Zenon DEF AccountTypes
<1>4. AccountTypes'
  BY <1>1, <1>2, <1>3 DEF AccountTypes, Somebody
<1>5. ~loginsOverlapped' => \A b \in awaiting' : b = a
  BY <1>3
<1> QED  BY <1>1, <1>2, <1>4, <1>5 DEF TokenIsUsers

LEMMA JwtStep ==
  ASSUME PostAssumption, AccountTypes, TokenIsUsers, NEW a \in Accounts, JwtComes(a)
  PROVE  AccountTypes' /\ TokenIsUsers'
<1>1. /\ a \in awaiting /\ awaiting' = awaiting \ {a} /\ token' = a
      /\ user' = user /\ role' = role /\ loginsOverlapped' = loginsOverlapped
      /\ login' = [login EXCEPT ![a] = "token"]
  BY DEF JwtComes, Stored
<1>2. AccountTypes'
  BY <1>1 DEF AccountTypes, Somebody
<1>3. ~loginsOverlapped => user \in {a, Nothing}
  BY <1>1 DEF TokenIsUsers
<1> QED  BY <1>1, <1>2, <1>3 DEF TokenIsUsers

LEMMA AccountsStep ==
  ASSUME PostAssumption, AccountTypes, TokenIsUsers, [PostNext]_postVars
  PROVE  AccountTypes' /\ TokenIsUsers'
<1>1. CASE UNCHANGED accountVars
  BY <1>1 DEF accountVars, AccountTypes, TokenIsUsers
<1>2. ASSUME NEW a \in Accounts, LoginByEmail(a) \/ Register(a) \/ LoginOtherwise(a)
      PROVE  AccountTypes' /\ TokenIsUsers'
  <2>1. \E named \in BOOLEAN : LoggedIn(a, named)
    BY <1>2 DEF LoginByEmail, Register, LoginOtherwise
  <2>2. awaiting' \in {awaiting, awaiting \cup {a}}
    BY <1>2 DEF LoginByEmail, Register, LoginOtherwise
  <2> QED  BY <2>1, <2>2, LoginStep
<1>3. ASSUME NEW a \in Accounts, JwtFails(a)  PROVE AccountTypes' /\ TokenIsUsers'
  BY <1>3 DEF JwtFails, AccountTypes, TokenIsUsers
<1>4. CASE Logout
  BY <1>4 DEF Logout, AccountTypes, TokenIsUsers, Somebody
<1>5. CASE Restart
  BY <1>5 DEF Restart, AccountTypes, TokenIsUsers
<1>6. CASE CheckAddPostRole \/ BackToTabs \/ OpenNewPost \/ Rebuild \/ LeaveNewPost \/ SubmitPost
  <2>1. UNCHANGED accountVars
    BY <1>6 DEF CheckAddPostRole, BackToTabs, OpenNewPost, Rebuild, LeaveNewPost, SubmitPost
  <2> QED  BY <1>1, <2>1
<1>7. CASE GoingOn
  BY <1>1, <1>7, GoingOnKeeps
<1>8. CASE UNCHANGED postVars
  BY <1>1, <1>8 DEF postVars
<1> QED  BY <1>2, <1>3, <1>4, <1>5, <1>6, <1>7, <1>8, JwtStep DEF PostNext, GoingOn

-----------------------------------------------------------------------------
(* One submission goes on, and what its screen sees of it.                   *)

Goes(n, s) ==
  /\ s \in Submission /\ s.author = submissions[n].author /\ s.here = submissions[n].here
  /\ \/ /\ submissions' = With(n, s) /\ UNCHANGED screenVars
        /\ s.pc \in Holding => s.here
        /\ submissions[n].pc # "ended"
     \/ /\ submissions' = With(n, s) /\ postLoading' = FALSE /\ UNCHANGED <<open, author>>
        /\ submissions[n].pc \in Holding /\ s.pc = "ended"
     \/ Closed(With(n, s))

SameToken(s, n) == s.as = submissions[n].as /\ s.own = submissions[n].own
OwnToken(s) == s.as = token /\ s.own = OwnLogin(s.author)

LEMMA GoesOnGoes ==
  ASSUME AccountTypes, ScreenTypes, NEW n \in DOMAIN submissions, GoesOn(n)
  PROVE  \E s : Goes(n, s) /\ (SameToken(s, n) \/ OwnToken(s))
<1> DEFINE t == submissions[n]
           Gone(pc) == [t EXCEPT !.pc = pc]
<1>1. t \in Submission /\ {"post", "popping", "restoring", "ended"} \subseteq Pcs
  BY SubmissionsAre DEF ScreenTypes, Pcs
<1>2. \A pc \in Pcs : /\ Gone(pc) \in Submission /\ Gone(pc).pc = pc
                      /\ Gone(pc).author = t.author /\ Gone(pc).here = t.here
                      /\ SameToken(Gone(pc), n)
  BY <1>1, NewStep DEF SameToken
<1>3. \A pc : At(n, pc) = With(n, Gone(pc))
  BY DEF At, With
<1> HIDE DEF Gone
<1>4. ASSUME Succeeds(n), t.pc # "ended"
      PROVE  \E pc \in Pcs : Goes(n, Gone(pc))
  <2>1. CASE t.here
    BY <1>1, <1>2, <1>3, <1>4, <2>1 DEF Succeeds, Goes, Holding
  <2>2. CASE ~t.here
    BY <1>1, <1>2, <1>3, <1>4, <2>2 DEF Succeeds, Goes, Holding
  <2> QED  BY <2>1, <2>2
<1>5. CASE TokenRead(n)
  <2>1. CASE Succeeds(n)
    BY <1>2, <1>4, <1>5, <2>1 DEF TokenRead
  <2>2. CASE /\ token # Nothing
             /\ submissions' = [submissions EXCEPT
                  ![n].pc = "upload", ![n].as = token, ![n].own = OwnLogin(t.author)]
             /\ UNCHANGED screenVars
    <3> DEFINE s == [t EXCEPT !.pc = "upload", !.as = token, !.own = OwnLogin(t.author)]
    <3>1. OwnLogin(t.author) \in BOOLEAN
      BY DEF OwnLogin
    <3>2. /\ s \in Submission /\ s.pc = "upload" /\ s.author = t.author /\ s.here = t.here
          /\ s.as = token /\ s.own = OwnLogin(t.author)
      BY <1>1, <3>1 DEF Submission, AccountTypes, Pcs
    <3>3. submissions' = With(n, s)
      BY <2>2 DEF With
    <3>4. UNCHANGED screenVars /\ t.pc # "ended"
      BY <1>5, <2>2 DEF TokenRead
    <3> HIDE DEF s
    <3>5. Goes(n, s) /\ OwnToken(s)
      BY <3>2, <3>3, <3>4 DEF Goes, OwnToken, Holding
    <3> QED  BY <3>5
  <2> QED  BY <1>5, <2>1, <2>2 DEF TokenRead
<1>6. CASE Uploaded(n)
  <2>1. submissions' = With(n, Gone("post")) /\ UNCHANGED screenVars /\ t.pc # "ended"
    BY <1>3, <1>6 DEF Uploaded
  <2>2. Goes(n, Gone("post"))
    BY <1>1, <1>2, <2>1 DEF Goes, Holding
  <2> QED  BY <1>1, <1>2, <2>2
<1>7. CASE Posted(n)
  BY <1>2, <1>4, <1>7 DEF Posted
<1>8. CASE RequestFails(n)
  <2>1. t.pc # "ended"
    BY <1>8 DEF RequestFails
  <2>2. CASE Closed(At(n, "ended"))
    BY <1>1, <1>2, <1>3, <2>2 DEF Goes
  <2>3. CASE submissions' = At(n, "restoring") /\ t.here /\ UNCHANGED screenVars
    BY <1>1, <1>2, <1>3, <2>1, <2>3 DEF Goes
  <2>4. CASE submissions' = At(n, "ended") /\ UNCHANGED screenVars
    BY <1>1, <1>2, <1>3, <2>1, <2>4 DEF Goes, Holding
  <2> QED  BY <1>8, <2>2, <2>3, <2>4 DEF RequestFails, Fails
<1>9. CASE AnimationEnds(n)
  <2>1. CASE Closed(At(n, "ended"))
    BY <1>1, <1>2, <1>3, <2>1 DEF Goes
  <2>2. CASE /\ submissions' = At(n, "ended") /\ postLoading' = FALSE
             /\ UNCHANGED <<open, author>> /\ t.pc = "restoring"
    BY <1>1, <1>2, <1>3, <2>2 DEF Goes, Holding
  <2> QED  BY <1>9, <2>1, <2>2 DEF AnimationEnds
<1> QED  BY <1>5, <1>6, <1>7, <1>8, <1>9 DEF GoesOn

LEMMA ClosedScreen ==
  ASSUME NEW S, Closed(S), S \in Seq(Submission)
  PROVE  ScreenTypes' /\ ScreenOK'
<1>1. NoneHere(S, submissions') /\ open' = FALSE /\ postLoading' = FALSE /\ author' = Nothing
  BY AbandonedStep DEF Closed
<1>2. ScreenTypes'
  BY <1>1 DEF NoneHere, ScreenTypes, Somebody
<1> QED  BY <1>1, <1>2 DEF NoneHere, ScreenOK, OnItsWay

LEMMA GoesScreen ==
  ASSUME ScreenTypes, ScreenOK, NEW n \in DOMAIN submissions, NEW s, Goes(n, s)
  PROVE  ScreenTypes' /\ ScreenOK'
<1>1. /\ s \in Submission /\ s.here = submissions[n].here
      /\ With(n, s) \in Seq(Submission) /\ DOMAIN With(n, s) = DOMAIN submissions
      /\ With(n, s)[n] = s
      /\ \A m \in DOMAIN submissions : m # n => With(n, s)[m] = submissions[m]
  BY WithStep DEF Goes, ScreenTypes
<1>2. CASE /\ submissions' = With(n, s) /\ UNCHANGED screenVars
           /\ s.pc \in Holding => s.here
           /\ submissions[n].pc # "ended"
  <2>1. ScreenTypes'
    BY <1>1, <1>2 DEF ScreenTypes, screenVars
  <2>2. \A m \in DOMAIN submissions' : OnItsWay(m)' => m \in DOMAIN submissions /\ OnItsWay(m)
    BY <1>1, <1>2 DEF OnItsWay
  <2>3. \A m \in DOMAIN submissions' : submissions'[m].pc \in Holding => submissions'[m].here
    BY <1>1, <1>2 DEF ScreenOK
  <2> QED  BY <1>2, <2>1, <2>2, <2>3 DEF ScreenOK, screenVars
<1>3. CASE /\ submissions' = With(n, s) /\ postLoading' = FALSE /\ UNCHANGED <<open, author>>
           /\ submissions[n].pc \in Holding /\ s.pc = "ended"
  <2>1. ScreenTypes'
    BY <1>1, <1>3 DEF ScreenTypes
  <2>2. OnItsWay(n)
    BY <1>3 DEF ScreenOK, OnItsWay, Holding
  <2>3. \A m \in DOMAIN submissions' : ~OnItsWay(m)'
    <3>1. \A m \in DOMAIN submissions : m # n => ~OnItsWay(m)
      BY <2>2 DEF ScreenOK
    <3> QED  BY <1>1, <1>3, <3>1 DEF OnItsWay
  <2>4. \A m \in DOMAIN submissions' : submissions'[m].pc \in Holding => submissions'[m].here
    BY <1>1, <1>3 DEF ScreenOK, Holding
  <2> QED  BY <2>1, <2>3, <2>4 DEF ScreenOK
<1>4. CASE Closed(With(n, s))
  BY <1>1, <1>4, ClosedScreen
<1> QED  BY <1>2, <1>3, <1>4 DEF Goes

LEMMA SubmitScreen ==
  ASSUME ScreenTypes, ScreenOK, SubmitPost
  PROVE  ScreenTypes' /\ ScreenOK'
<1>1. postLoading = FALSE /\ postLoading' = TRUE /\ open /\ UNCHANGED <<open, author>>
  BY DEF SubmitPost, MaySubmit, ScreenTypes
<1>2. CASE UNCHANGED submissions
  BY <1>1, <1>2 DEF ScreenTypes, ScreenOK, OnItsWay
<1> DEFINE s == [author |-> author, as |-> Nothing, own |-> FALSE, pc |-> "token", here |-> TRUE]
           k == Len(submissions) + 1
<1>3. CASE author # Nothing /\ submissions' = Append(submissions, s)
  <2>1. s \in Submission /\ s.pc \notin Holding
    BY <1>3 DEF ScreenTypes, Submission, Somebody, Pcs, Holding
  <2> HIDE DEF s
  <2>2. /\ submissions' \in Seq(Submission) /\ Len(submissions') = k
        /\ \A m \in 1 .. Len(submissions) : submissions'[m] = submissions[m]
        /\ submissions'[k] = s
    BY <1>3, <2>1, AppendProperties DEF ScreenTypes
  <2>3. /\ DOMAIN submissions = 1 .. Len(submissions) /\ Len(submissions) \in Nat
        /\ DOMAIN submissions' = 1 .. k
    BY <2>2, SubmissionsAre, LenProperties DEF ScreenTypes
  <2>4. \A m \in DOMAIN submissions' : m = k \/ m \in DOMAIN submissions
    BY <2>3
  <2> HIDE DEF k
  <2>5. \A m \in DOMAIN submissions : ~OnItsWay(m) /\ submissions'[m] = submissions[m]
    BY <1>1, <2>2, <2>3 DEF ScreenOK
  <2>6. \A m \in DOMAIN submissions' : OnItsWay(m)' => m = k
    BY <2>4, <2>5 DEF OnItsWay
  <2>7. \A m \in DOMAIN submissions' : submissions'[m].pc \in Holding => submissions'[m].here
    BY <2>1, <2>2, <2>4, <2>5 DEF ScreenOK
  <2> QED  BY <1>1, <2>2, <2>6, <2>7 DEF ScreenTypes, ScreenOK
<1> QED  BY <1>2, <1>3 DEF SubmitPost

LEMMA ScreenStep ==
  ASSUME PostAssumption, AccountTypes, ScreenTypes, ScreenOK, [PostNext]_postVars
  PROVE  ScreenTypes' /\ ScreenOK'
<1>1. CASE UNCHANGED <<screenVars, submissions>>
  BY <1>1 DEF screenVars, ScreenTypes, ScreenOK, OnItsWay
<1>2. CASE GoingOn
  BY <1>2, GoesOnGoes, GoesScreen DEF GoingOn
<1>3. CASE OpenNewPost \/ Rebuild
  <2>1. /\ open' \in BOOLEAN /\ author' \in Somebody /\ (open => open')
        /\ UNCHANGED <<postLoading, submissions>>
    BY <1>3 DEF OpenNewPost, Rebuild, AccountTypes, ScreenTypes
  <2> QED  BY <2>1 DEF ScreenTypes, ScreenOK, OnItsWay
<1>4. CASE LeaveNewPost
  BY <1>4, ClosedScreen DEF LeaveNewPost, ScreenTypes
<1>5. CASE Restart
  <2>1. /\ open' = FALSE /\ postLoading' = FALSE /\ author' = Nothing
        /\ NoneHere(submissions, submissions')
    BY <1>5, RestartLeaves DEF Restart, ScreenTypes
  <2>2. ScreenTypes'
    BY <2>1 DEF NoneHere, ScreenTypes, Somebody
  <2> QED  BY <2>1, <2>2 DEF NoneHere, ScreenOK, OnItsWay
<1>6. CASE CheckAddPostRole \/ BackToTabs \/ UNCHANGED postVars
  BY <1>1, <1>6 DEF CheckAddPostRole, BackToTabs, postVars
<1> QED  BY <1>1, <1>2, <1>3, <1>4, <1>5, <1>6, SubmitScreen, AccountStepKeeps
         DEF PostNext, GoingOn, AccountStep

(* What is left of the tabs under the top ones.                              *)
LEMMA FrontOfTabs ==
  ASSUME NEW S, NEW q \in Seq(S), Len(q) > 1
  PROVE  Front(q) \in Seq(S) /\ Front(q) # <<>>
<1>1. Len(q) \in Nat /\ \A i \in 1 .. Len(q) - 1 : q[i] \in S
  BY LenProperties, ElementOfSeq
<1>2. /\ SubSeq(q, 1, Len(q) - 1) \in Seq(S)
      /\ Len(SubSeq(q, 1, Len(q) - 1)) = IF 1 <= Len(q) - 1 THEN Len(q) - 1 - 1 + 1 ELSE 0
  <2>1. \A i \in 1 .. Len(q) - 1 : q[i] \in S
    BY <1>1
  <2> QED  BY <1>1, <2>1, SubSeqProperties
<1> DEFINE f == SubSeq(q, 1, Len(q) - 1)
<1>3. f \in Seq(S) /\ Len(f) > 0
  BY <1>1, <1>2
<1> HIDE DEF f
<1>4. f # <<>>
  BY <1>3, EmptySeq
<1> QED  BY <1>3, <1>4 DEF Front, f

LEMMA TabsStep ==
  ASSUME TabTypes, [PostNext]_postVars
  PROVE  TabTypes'
<1>1. \A t \in {"unchecked", "yes", "no"} :
        Append(tabs, t) \in Seq({"unchecked", "yes", "no"}) /\ Append(tabs, t) # <<>>
  BY AppendProperties DEF TabTypes
<1>2. Welcomed => TabTypes'
  BY <1>1 DEF Welcomed, TabTypes
<1>3. ASSUME NEW a \in Accounts,
             LoginByEmail(a) \/ Register(a) \/ LoginOtherwise(a) \/ JwtComes(a) \/ JwtFails(a)
      PROVE  TabTypes'
  BY <1>2, <1>3 DEF LoginByEmail, Register, LoginOtherwise, JwtComes, JwtFails, TabTypes
<1>4. CASE Restart
  <2>1. tabs' = <<"unchecked">>
    BY <1>4 DEF Restart
  <2> QED  BY <2>1 DEF TabTypes
<1>5. CASE CheckAddPostRole
  <2>1. DOMAIN tabs = 1 .. Len(tabs) /\ Len(tabs) \in Nat
        /\ tabs \in [1 .. Len(tabs) -> {"unchecked", "yes", "no"}] /\ Len(tabs) # 0
    BY LenProperties, EmptySeq DEF TabTypes
  <2>2. tabs' \in [1 .. Len(tabs) -> {"unchecked", "yes", "no"}]
    BY <1>5, <2>1 DEF CheckAddPostRole
  <2>3. tabs' \in Seq({"unchecked", "yes", "no"}) /\ Len(tabs') = Len(tabs)
    BY <2>1, <2>2, SeqDef, LenProperties
  <2> QED  BY <2>1, <2>3, EmptySeq DEF TabTypes
<1>6. CASE BackToTabs
  BY <1>6, FrontOfTabs DEF BackToTabs, TabTypes
<1>7. CASE UNCHANGED tabs
  BY <1>7 DEF TabTypes
<1>8. Logout \/ OpenNewPost \/ Rebuild \/ LeaveNewPost \/ SubmitPost \/ UNCHANGED postVars
        => UNCHANGED tabs
  BY DEF Logout, OpenNewPost, Rebuild, LeaveNewPost, SubmitPost, postVars
<1> QED  BY <1>3, <1>4, <1>5, <1>6, <1>7, <1>8, GoingOnKeeps DEF PostNext, GoingOn

-----------------------------------------------------------------------------
(* The token an article is sent with.                                        *)

LEMMA FitsKept ==
  ASSUME TokenFitsAuthor, ScreenTypes, loginsOverlapped => loginsOverlapped',
         \A n \in DOMAIN submissions' :
           \/ submissions'[n].as = Nothing
           \/ /\ n \in DOMAIN submissions
              /\ submissions'[n].author = submissions[n].author
              /\ SameToken(submissions'[n], n)
  PROVE  TokenFitsAuthor'
BY DEF TokenFitsAuthor, SameToken

LEMMA FitsStep ==
  ASSUME PostAssumption, PostInv, [PostNext]_postVars
  PROVE  TokenFitsAuthor'
<1>1. loginsOverlapped \in BOOLEAN /\ (loginsOverlapped => loginsOverlapped')
  <2>1. UNCHANGED accountVars => loginsOverlapped' = loginsOverlapped
    BY DEF accountVars
  <2>2. \A a \in Accounts :
          LoginByEmail(a) \/ Register(a) \/ LoginOtherwise(a) \/ JwtComes(a) \/ JwtFails(a)
            => (loginsOverlapped => loginsOverlapped')
    BY DEF LoginByEmail, Register, LoginOtherwise, LoggedIn, JwtComes, JwtFails
  <2>3. Logout \/ Restart \/ CheckAddPostRole \/ BackToTabs \/ OpenNewPost \/ Rebuild
          \/ LeaveNewPost \/ SubmitPost \/ UNCHANGED postVars => loginsOverlapped' = loginsOverlapped
    BY <2>1 DEF Logout, Restart, CheckAddPostRole, BackToTabs, OpenNewPost, Rebuild,
            LeaveNewPost, SubmitPost, postVars
  <2> QED  BY <2>1, <2>2, <2>3, GoingOnKeeps DEF PostNext, GoingOn, PostInv, AccountTypes
<1>2. CASE UNCHANGED submissions
  BY <1>1, <1>2, FitsKept DEF PostInv, SameToken
<1>3. ASSUME NoneHere(submissions, submissions')  PROVE TokenFitsAuthor'
  BY <1>1, <1>3, FitsKept DEF NoneHere, PostInv, SameToken
<1>4. CASE LeaveNewPost
  BY <1>3, <1>4, AbandonedStep DEF LeaveNewPost, Closed, PostInv, ScreenTypes
<1>5. CASE Restart
  BY <1>3, <1>5, RestartLeaves DEF PostInv, ScreenTypes
<1>6. CASE SubmitPost
  <2>1. CASE UNCHANGED submissions
    BY <1>2, <2>1
  <2>2. CASE /\ author # Nothing
             /\ submissions' = Append(submissions,
                  [author |-> author, as |-> Nothing, own |-> FALSE, pc |-> "token",
                   here |-> TRUE])
    <3> DEFINE s == [author |-> author, as |-> Nothing, own |-> FALSE, pc |-> "token",
                     here |-> TRUE]
    <3>1. s \in Submission /\ s.as = Nothing
      BY <2>2 DEF PostInv, ScreenTypes, Submission, Somebody, Pcs
    <3> HIDE DEF s
    <3>2. /\ submissions' \in Seq(Submission) /\ Len(submissions') = Len(submissions) + 1
          /\ \A m \in 1 .. Len(submissions) : submissions'[m] = submissions[m]
          /\ submissions'[Len(submissions) + 1] = s
      BY <2>2, <3>1, AppendProperties DEF PostInv, ScreenTypes, s
    <3>3. /\ DOMAIN submissions = 1 .. Len(submissions) /\ Len(submissions) \in Nat
          /\ DOMAIN submissions' = 1 .. Len(submissions) + 1
      BY <3>2, SubmissionsAre, LenProperties DEF PostInv, ScreenTypes
    <3>4. \A m \in DOMAIN submissions' : m \notin DOMAIN submissions => submissions'[m].as = Nothing
      BY <3>1, <3>2, <3>3
    <3> QED  BY <1>1, <3>2, <3>3, <3>4, FitsKept DEF PostInv, SameToken
  <2> QED  BY <1>6, <2>1, <2>2 DEF SubmitPost
<1>7. CASE GoingOn
  <2>1. PICK n \in DOMAIN submissions : \E s : Goes(n, s) /\ (SameToken(s, n) \/ OwnToken(s))
    BY <1>7, GoesOnGoes DEF GoingOn, PostInv
  <2>2. PICK s : Goes(n, s) /\ (SameToken(s, n) \/ OwnToken(s))
    BY <2>1
  <2>3. /\ s \in Submission /\ s.author = submissions[n].author
        /\ submissions \in Seq(Submission)
    BY <2>2 DEF Goes, PostInv, ScreenTypes
  <2>4. submissions' = With(n, s) \/ Closed(With(n, s))
    BY <2>2 DEF Goes
  <2>5. /\ With(n, s) \in Seq(Submission) /\ DOMAIN With(n, s) = DOMAIN submissions
        /\ With(n, s)[n] = s
        /\ \A m \in DOMAIN submissions : m # n => With(n, s)[m] = submissions[m]
    BY <2>3, WithStep
  <2>6. /\ DOMAIN submissions' = DOMAIN submissions
        /\ \A m \in DOMAIN submissions :
             /\ submissions'[m].author = With(n, s)[m].author
             /\ submissions'[m].as = With(n, s)[m].as
             /\ submissions'[m].own = With(n, s)[m].own
    BY <2>4, <2>5, AbandonedStep DEF Closed, NoneHere
  <2>7. CASE SameToken(s, n)
    BY <1>1, <2>3, <2>5, <2>6, <2>7, FitsKept DEF PostInv, SameToken
  <2>8. CASE OwnToken(s)
    <3>1. s.author \in Accounts
      BY <2>3 DEF Submission
    <3>2. s.own /\ ~loginsOverlapped => s.as = s.author
      BY <2>8, <3>1 DEF OwnToken, OwnLogin, PostInv, TokenIsUsers, PostAssumption
    <3> QED  BY <1>1, <2>3, <2>5, <2>6, <3>2 DEF TokenFitsAuthor, PostInv
  <2> QED  BY <2>2, <2>7, <2>8
<1>8. CheckAddPostRole \/ BackToTabs \/ OpenNewPost \/ Rebuild \/ UNCHANGED postVars
        => UNCHANGED submissions
  BY DEF CheckAddPostRole, BackToTabs, OpenNewPost, Rebuild, postVars
<1> QED  BY <1>2, <1>4, <1>5, <1>6, <1>7, <1>8, AccountStepKeeps DEF PostNext, GoingOn, AccountStep

LEMMA PostInvInit == ASSUME PostAssumption, PostInit PROVE PostInv
<1>1. AccountTypes /\ TokenIsUsers
  BY DEF PostInit, PostAssumption, AccountTypes, TokenIsUsers, Somebody
<1>2. TabTypes
  <2>1. tabs = <<"unchecked">>
    BY DEF PostInit
  <2>2. tabs \in Seq({"unchecked", "yes", "no"}) /\ Len(tabs) = 1
    BY <2>1
  <2> QED  BY <2>2, EmptySeq DEF TabTypes
<1>3. submissions \in Seq(Submission) /\ DOMAIN submissions = {} /\ Len(submissions) = 0
  BY EmptySeq, LenProperties DEF PostInit
<1>4. open = FALSE /\ author = Nothing /\ postLoading = FALSE
  BY DEF PostInit
<1>5. ScreenTypes /\ ScreenOK
  BY <1>3, <1>4 DEF ScreenTypes, ScreenOK, Somebody
<1>6. TokenFitsAuthor
  BY <1>3 DEF TokenFitsAuthor
<1> QED  BY <1>1, <1>2, <1>5, <1>6 DEF PostInv

LEMMA PostInvStep == ASSUME PostAssumption, PostInv, [PostNext]_postVars PROVE PostInv'
BY AccountsStep, TabsStep, ScreenStep, FitsStep DEF PostInv

LEMMA PostInvariant == ASSUME PostAssumption PROVE PostSpec => []PostInv
<1>1. PostInit => PostInv
  BY PostInvInit
<1>2. PostInv /\ [PostNext]_postVars => PostInv'
  BY PostInvStep
<1> QED  BY <1>1, <1>2, PTL DEF PostSpec

(* Of the screen that is open at most one submission is on its way, from the *)
(* tap to the end of the animation, and its button turns meanwhile: however  *)
(* screens are left and opened, logins come and requests end, no second tap  *)
(* sends the article again, for any accounts and bounds.                     *)
THEOREM OneSubmission ==
  ASSUME PostAssumption PROVE PostSpec => []OneAtATime
<1>1. PostInv => OneAtATime
  <2> SUFFICES ASSUME PostInv  PROVE OneAtATime
    OBVIOUS
  <2>1. PostTypeOK
    BY DEF PostInv, AccountTypes, TabTypes, ScreenTypes, PostTypeOK
  <2> QED  BY <2>1 DEF PostInv, ScreenOK, OneAtATime
<1> QED  BY <1>1, PostInvariant, PTL

(* When the account logged in came by an email login that brought its token, *)
(* and no two logins overlapped, an article goes out with the token of the   *)
(* account it is signed with.                                                *)
THEOREM ArticlesAreSignedByTheirAuthor ==
  ASSUME PostAssumption PROVE PostSpec => []TokenFitsAuthor
<1>1. PostInv => TokenFitsAuthor
  BY DEF PostInv
<1> QED  BY <1>1, PostInvariant, PTL

=============================================================================
