--------------------------- MODULE FirestoreWatch ---------------------------
(* How Firestore's client listens to queries: the listen half of the         *)
(* RemoteStore (remote_store.cc), its WatchStream (stream.cc,                *)
(* watch_stream.cc), the WatchChangeAggregator that counts the answers due   *)
(* from the server (remote_event.cc), and the OnlineStateTracker that tells  *)
(* the app whether the server is reached (online_state_tracker.cc).          *)
(*                                                                           *)
(* The client runs every operation on one worker queue, so an action is a    *)
(* whole operation with all it calls.  The SyncEngine's calls to Listen and  *)
(* StopListening come from the app's listeners at any time; a target keeps   *)
(* its id when its query is listened to again.  Documents, resume tokens,    *)
(* matching filters and snapshots older than the last one change nothing     *)
(* here: "changes" stands for any such message, CURRENT among them.          *)
(*                                                                           *)
(* Assumed of gRPC and the server: a stream delivers in order; what it       *)
(* carries when the client drops it is lost; every listen request is         *)
(* answered by "added" or by a removal with a cause, every unlisten by       *)
(* "removed"; a target may be removed with a cause at any later time too.    *)
(* "refused" and "revoked" tell these two causes apart; the client cannot.   *)
EXTENDS Integers, SequencesExt, Functions

CONSTANTS
  Targets, NoTarget,
  MaxWatchStreamFailures,  \* kMaxWatchStreamFailures
  MaxListens,              \* bound: calls of Listen
  MaxInFlight,             \* bound: messages the server has under way
  MaxFaults                \* bound: lost streams, causes, mismatches, network calls

ASSUME WatchAssumption ==
  /\ NoTarget \notin Targets
  /\ MaxWatchStreamFailures \in Nat \ {0}
  /\ {MaxListens, MaxInFlight, MaxFaults} \subseteq Nat

VARIABLES
  network,      \* is_network_enabled_
  targets,      \* the keys of listen_targets_
  state,        \* Stream::State of the watch stream
  idle,         \* idleness_timer_ runs
  outstanding,  \* target_states_: outstanding_responses_ of each that has a state
  resets,       \* pending_target_resets_
  online,       \* the tracker: [state, timer, failures]
  up, down,     \* the open stream: requests and messages under way
  watched,      \* the server: the targets it watches on this stream
  heard,        \* history: the server has said something on this stream
  miscounted,   \* history: targets removed with a cause amid other requests
  untimed,      \* history: the tracker's timer was cleared while the stream starts
  listens, faults  \* counts

aggregatorVars == <<outstanding, resets, miscounted>>
wireVars == <<up, down, watched, heard>>
vars == <<network, targets, state, idle, aggregatorVars, online, untimed, wireVars,
          listens, faults>>

Request(k, t) == [kind |-> k, target |-> t]
Answers == {"added", "removed", "refused"}
WithCause == {"refused", "revoked"}

Started(st) == st \in {"Starting", "Open", "Backoff"}
ShouldStart(T, st) == network /\ ~Started(st) /\ T # {}

---------------------------- (* OnlineStateTracker *) ----------------------------

UpdatedTo(s) == [state |-> s, timer |-> FALSE, failures |-> 0]

HandleStart(o) ==
  IF o.failures # 0 THEN o ELSE [o EXCEPT !.state = "Unknown", !.timer = TRUE]

HandleFailure(o) ==
  LET n == o.failures + 1
  IN  IF o.state = "Online" THEN [o EXCEPT !.state = "Unknown"]
      ELSE IF n >= MaxWatchStreamFailures
           THEN [state |-> "Offline", timer |-> FALSE, failures |-> n]
           ELSE [o EXCEPT !.failures = n]

(* The tracker's timer: EnqueueAfterDelay(kOnlineStateTimeout).              *)
OnlineTimeout ==
  /\ online.timer
  /\ online' = [online EXCEPT !.state = "Offline", !.timer = FALSE]
  /\ UNCHANGED <<network, targets, state, idle, aggregatorVars, untimed, wireVars,
                 listens, faults>>

--------------------------- (* WatchChangeAggregator *) ---------------------------

Count(t) == IF t \in DOMAIN outstanding THEN outstanding[t] ELSE 0
IsActive(t) == t \in targets /\ Count(t) = 0

(* EnsureTargetState, then n more requests or answers counted.               *)
Counted(t, n) == [x \in DOMAIN outstanding \cup {t} |-> IF x = t THEN Count(t) + n ELSE Count(x)]

(* Mutant: a request is sent without being counted.                          *)
MutSend(reqs) ==
  /\ up' = up \o reqs
  /\ idle' = (idle /\ reqs = <<>>)
  /\ UNCHANGED outstanding

(* SendWatchRequest and SendUnwatchRequest for each of the requests.         *)
Send(reqs) ==
  LET asked == {reqs[i].target : i \in DOMAIN reqs}
      n(t)  == Cardinality({i \in DOMAIN reqs : reqs[i].target = t})
  IN  /\ up' = up \o reqs
      /\ idle' = (idle /\ reqs = <<>>)
      /\ outstanding' = [x \in DOMAIN outstanding \cup asked |-> Count(x) + n(x)]

(* CleanUpWatchStreamState, and the aggregator of a stream that starts.      *)
NewAggregator ==
  /\ outstanding' = <<>>
  /\ resets' = {}
  /\ miscounted' = {}

DropWire ==
  /\ up' = <<>>
  /\ down' = <<>>
  /\ watched' = {}
  /\ heard' = FALSE
  /\ idle' = FALSE

------------------------------- (* The streams *) --------------------------------

Init ==
  /\ network = TRUE
  /\ targets = {}
  /\ state = "Initial"
  /\ idle = FALSE
  /\ outstanding = <<>> /\ resets = {} /\ miscounted = {}
  /\ online = UpdatedTo("Unknown") /\ untimed = FALSE
  /\ up = <<>> /\ down = <<>> /\ watched = {} /\ heard = FALSE
  /\ listens = 0 /\ faults = 0

(* StartWatchStream on a stream in state st, with the tracker as o: a stream *)
(* that failed backs off first, and the wait for the server goes on.         *)
StartWatchStream(st, o) ==
  /\ state' = IF st = "Error" THEN "Backoff" ELSE "Starting"
  /\ online' = HandleStart(o)
  /\ untimed' = (untimed /\ o.failures # 0)

Listen(t) ==
  /\ listens < MaxListens /\ t \notin targets
  /\ listens' = listens + 1
  /\ targets' = targets \cup {t}
  /\ \/ /\ ShouldStart(targets', state)
        /\ StartWatchStream(state, online)
        /\ NewAggregator
        /\ UNCHANGED <<up, idle>>
     \/ /\ ~ShouldStart(targets', state)
        /\ IF state = "Open" THEN Send(<<Request("listen", t)>>)
                             ELSE UNCHANGED <<up, idle, outstanding>>
        /\ UNCHANGED <<state, online, untimed, resets, miscounted>>
  /\ UNCHANGED <<network, down, watched, heard, faults>>

(* Mutant: the server is not told.                                           *)
MutStopListeningSilent(t) ==
  /\ t \in targets
  /\ targets' = targets \ {t}
  /\ idle' = (state = "Open" /\ targets' = {})
  /\ LET none == targets' = {} /\ state # "Open" /\ network
     IN  /\ online' = IF none THEN UpdatedTo("Unknown") ELSE online
         /\ untimed' = (untimed \/ none)
  /\ UNCHANGED <<network, state, aggregatorVars, wireVars, listens, faults>>

StopListening(t) ==
  /\ t \in targets
  /\ targets' = targets \ {t}
  /\ IF state = "Open"
     THEN /\ up' = Append(up, Request("unlisten", t))
          /\ outstanding' = Counted(t, 1)
          /\ idle' = (targets' = {})
     ELSE UNCHANGED <<up, outstanding, idle>>
  /\ LET none == targets' = {} /\ state # "Open" /\ network
     IN  /\ online' = IF none THEN UpdatedTo("Unknown") ELSE online
         /\ untimed' = (untimed \/ none)
  /\ UNCHANGED <<network, state, resets, miscounted, down, watched, heard, listens,
                 faults>>

(* Mutant: the app is told that it is online as the stream opens.            *)
MutTokenArrives ==
  /\ state = "Starting"
  /\ state' = "Open"
  /\ LET all == SetToSeq(targets)
     IN  Send([i \in DOMAIN all |-> Request("listen", all[i])])
  /\ online' = UpdatedTo("Online") /\ untimed' = FALSE
  /\ UNCHANGED <<network, targets, resets, miscounted, down, watched, heard, listens, faults>>

(* ResumeStartWithCredentials: the gRPC stream opens, before anything has    *)
(* passed over it, and OnWatchStreamOpen asks for every target.              *)
TokenArrives ==
  /\ state = "Starting"
  /\ state' = "Open"
  /\ LET all == SetToSeq(targets)
     IN  Send([i \in DOMAIN all |-> Request("listen", all[i])])
  /\ UNCHANGED <<network, targets, resets, miscounted, online, untimed, down,
                 watched, heard, listens, faults>>

BackoffElapsed ==
  /\ state = "Backoff"
  /\ state' = "Starting"
  /\ UNCHANGED <<network, targets, idle, aggregatorVars, online, untimed, wireVars,
                 listens, faults>>

(* Mutant: the client gives up on a stream that failed.                      *)
MutStreamFails ==
  /\ state \in {"Starting", "Open"} /\ faults < MaxFaults
  /\ faults' = faults + 1
  /\ state' = "Error"
  /\ online' = UpdatedTo("Unknown") /\ untimed' = FALSE
  /\ NewAggregator /\ DropWire
  /\ UNCHANGED <<network, targets, listens>>

(* The token could not be had or the connection failed: Stream::Close with   *)
(* an error, OnWatchStreamClose.                                             *)
StreamFails ==
  /\ state \in {"Starting", "Open"} /\ faults < MaxFaults
  /\ faults' = faults + 1
  /\ IF ShouldStart(targets, "Error")
     THEN StartWatchStream("Error", HandleFailure(online))
     ELSE state' = "Error" /\ online' = UpdatedTo("Unknown") /\ untimed' = FALSE
  /\ NewAggregator /\ DropWire
  /\ UNCHANGED <<network, targets, listens>>

(* The idle timer's Stop: OnWatchStreamClose with OK.                        *)
IdleTimeout ==
  /\ idle
  /\ state' = "Initial"
  /\ online' = UpdatedTo("Unknown") /\ untimed' = FALSE
  /\ NewAggregator /\ DropWire
  /\ UNCHANGED <<network, targets, listens, faults>>

(* RemoteStore::EnableNetwork on a stream in state st.                       *)
Enabled(st) ==
  /\ network' = TRUE
  /\ IF ~Started(st) /\ targets # {}
     THEN StartWatchStream(st, online) /\ NewAggregator
     ELSE /\ state' = st
          /\ online' = UpdatedTo("Unknown")
          /\ untimed' = Started(st)
          /\ UNCHANGED aggregatorVars

EnableNetwork ==
  /\ faults < MaxFaults
  /\ faults' = faults + 1
  /\ Enabled(state)
  /\ UNCHANGED <<targets, idle, wireVars, listens>>

(* DisableNetworkInternal stops the stream; one that failed stays so.        *)
DisableNetwork ==
  /\ faults < MaxFaults
  /\ faults' = faults + 1
  /\ network' = FALSE
  /\ state' = IF Started(state) THEN "Initial" ELSE state
  /\ online' = UpdatedTo("Offline") /\ untimed' = FALSE
  /\ NewAggregator /\ DropWire
  /\ UNCHANGED <<targets, listens>>

(* A change of connectivity or of the credentials: RestartNetwork, whose     *)
(* InhibitBackoff forgets an earlier failure.                                *)
RestartNetwork ==
  /\ network /\ faults < MaxFaults
  /\ faults' = faults + 1
  /\ IF targets # {}
     THEN StartWatchStream("Initial", UpdatedTo("Unknown"))
     ELSE state' = "Initial" /\ online' = UpdatedTo("Unknown") /\ untimed' = FALSE
  /\ NewAggregator /\ DropWire
  /\ UNCHANGED <<network, targets, listens>>

-------------------------- (* OnWatchStreamChange *) ---------------------------

(* The next message of the open stream, of one of these kinds: whatever it   *)
(* says, the server is reached.                                              *)
Receive(kinds) ==
  /\ down # <<>> /\ Head(down).kind \in kinds
  /\ down' = Tail(down)
  /\ online' = UpdatedTo("Online") /\ untimed' = FALSE
  /\ heard' = TRUE
  /\ UNCHANGED <<network, state, watched, listens, faults>>

TargetAdded ==
  /\ Receive({"added"})
  /\ outstanding' = Counted(Head(down).target, -1)
  /\ UNCHANGED <<targets, idle, resets, miscounted, up>>

TargetRemoved ==
  /\ Receive({"removed"})
  /\ LET t == Head(down).target
     IN  outstanding' = IF Count(t) = 1 THEN Restrict(outstanding, DOMAIN outstanding \ {t})
                                        ELSE Counted(t, -1)
  /\ UNCHANGED <<targets, idle, resets, miscounted, up>>

(* ProcessTargetError: the SyncEngine is told that the listen is rejected.   *)
(* The answers still due for the target are forgotten with its state, or,    *)
(* when it is not listened to, this one goes uncounted.                      *)
ProcessTargetError ==
  /\ Receive(WithCause)
  /\ LET t   == Head(down).target
         due == IF Head(down).kind = "refused" THEN 1 ELSE 0
     IN  IF t \in targets
         THEN /\ targets' = targets \ {t}
              /\ outstanding' = Restrict(outstanding, DOMAIN outstanding \ {t})
              /\ miscounted' = IF Count(t) = due THEN miscounted ELSE miscounted \cup {t}
         ELSE /\ miscounted' = IF due = 0 THEN miscounted ELSE miscounted \cup {t}
              /\ UNCHANGED <<targets, outstanding>>
  /\ UNCHANGED <<idle, resets, up>>

TargetChanges ==
  /\ Receive({"changes"})
  /\ outstanding' = Counted(Head(down).target, 0)
  /\ UNCHANGED <<targets, idle, resets, miscounted, up>>

(* An existence filter that does not match: an active target gets a fresh    *)
(* state and is listened to anew at the next snapshot.                       *)
HandleExistenceFilter ==
  /\ Receive({"filter"})
  /\ LET t == Head(down).target
     IN  IF IsActive(t) THEN outstanding' = Counted(t, 0) /\ resets' = resets \cup {t}
                        ELSE UNCHANGED <<outstanding, resets>>
  /\ UNCHANGED <<targets, idle, miscounted, up>>

(* RaiseWatchSnapshot: a target in mismatch is unlistened and listened to    *)
(* again, if it still is.                                                    *)
RaiseWatchSnapshot ==
  /\ Receive({"snapshot"})
  /\ resets' = {}
  /\ LET again == SetToSeq(resets \cap targets)
     IN  Send([i \in 1 .. 2 * Len(again) |->
                Request(IF i % 2 = 1 THEN "unlisten" ELSE "listen", again[(i + 1) \div 2])])
  /\ UNCHANGED <<targets, miscounted>>

OnWatchStreamChange ==
  \/ TargetAdded
  \/ TargetRemoved
  \/ ProcessTargetError
  \/ TargetChanges
  \/ HandleExistenceFilter
  \/ RaiseWatchSnapshot

------------------------------- (* The server *) --------------------------------

Say(kind, t) ==
  /\ Len(down) < MaxInFlight
  /\ down' = Append(down, [kind |-> kind, target |-> t])
  /\ UNCHANGED <<network, targets, state, idle, aggregatorVars, online, untimed, heard, listens>>

ServerAnswers ==
  /\ up # <<>>
  /\ up' = Tail(up)
  /\ LET t == Head(up).target
     IN  \/ /\ Head(up).kind = "listen"
            /\ Say("added", t)
            /\ watched' = watched \cup {t}
         \/ /\ Head(up).kind = "unlisten"
            /\ Say("removed", t)
            /\ watched' = watched \ {t}
  /\ UNCHANGED faults

ServerRefuses ==
  /\ faults < MaxFaults /\ up # <<>> /\ Head(up).kind = "listen"
  /\ up' = Tail(up)
  /\ Say("refused", Head(up).target)
  /\ watched' = watched \ {Head(up).target}
  /\ faults' = faults + 1

ServerRevokes(t) ==
  /\ faults < MaxFaults /\ t \in watched
  /\ Say("revoked", t)
  /\ watched' = watched \ {t}
  /\ faults' = faults + 1
  /\ UNCHANGED up

ServerSends(t) ==
  /\ t \in watched
  /\ \/ Say("changes", t) /\ UNCHANGED faults
     \/ faults < MaxFaults /\ Say("filter", t) /\ faults' = faults + 1
  /\ UNCHANGED <<up, watched>>

ServerSnapshot ==
  /\ state = "Open"
  /\ Say("snapshot", NoTarget)
  /\ UNCHANGED <<up, watched, faults>>

Next ==
  \/ \E t \in Targets :
       \/ Listen(t)
       \/ StopListening(t)
       \/ ServerRevokes(t)
       \/ ServerSends(t)
  \/ TokenArrives
  \/ BackoffElapsed
  \/ StreamFails
  \/ IdleTimeout
  \/ OnlineTimeout
  \/ EnableNetwork
  \/ DisableNetwork
  \/ RestartNetwork
  \/ OnWatchStreamChange
  \/ ServerAnswers
  \/ ServerRefuses
  \/ ServerSnapshot

Spec == Init /\ [][Next]_vars

(* The worker queue runs what it has, its timers elapse and tokens arrive.   *)
(* Of the server only that it answers the requests it gets, whatever else it *)
(* sends meanwhile.                                                          *)
Fairness ==
  /\ WF_vars(TokenArrives)
  /\ WF_vars(BackoffElapsed)
  /\ WF_vars(IdleTimeout)
  /\ WF_vars(OnlineTimeout)
  /\ WF_vars(OnWatchStreamChange)
  /\ SF_vars(ServerAnswers)

FairSpec == Spec /\ Fairness

-----------------------------------------------------------------------------

(* The types; and nothing of a stream outlives it: without an open one there *)
(* is no count, no message and no watch.                                     *)
TypeOK ==
  /\ network \in BOOLEAN /\ idle \in BOOLEAN
  /\ targets \subseteq Targets
  /\ state \in {"Initial", "Starting", "Open", "Error", "Backoff"}
  /\ DOMAIN outstanding \subseteq Targets /\ Range(outstanding) \subseteq Int
  /\ resets \subseteq Targets /\ untimed \in BOOLEAN
  /\ online \in [state : {"Unknown", "Online", "Offline"}, timer : BOOLEAN, failures : Nat]
  /\ up \in Seq([kind : {"listen", "unlisten"}, target : Targets])
  /\ down \in Seq([kind : Answers \cup WithCause \cup {"changes", "filter", "snapshot"},
                   target : Targets \cup {NoTarget}])
  /\ watched \subseteq Targets /\ heard \in BOOLEAN
  /\ state # "Open" => /\ <<outstanding, up, down>> = <<<<>>, <<>>, <<>>>>
                       /\ <<resets, watched, miscounted, heard>> = <<{}, {}, {}, FALSE>>

UnderWay(t) ==
  LET requests == {i \in DOMAIN up : up[i].target = t}
      answers  == {i \in DOMAIN down : down[i].target = t /\ down[i].kind \in Answers}
  IN  Cardinality(requests) + Cardinality(answers)

(* What the client waits for is what is to come: outstanding_responses_ of a *)
(* target is the number of its requests and answers under way, whatever      *)
(* listens, unlistens, mismatches and causes cross each other.  Not so, as   *)
(* remote_event.h:208 would have it, once a removal with a cause has met     *)
(* other requests of its target: ProcessTargetError counts no answer.        *)
CountsMatch ==
  /\ TypeOK
  /\ state = "Open" => \A t \in Targets \ miscounted : Count(t) = UnderWay(t)

(* The server is brought to watch what the client listens to: once it has    *)
(* all requests, and the client the causes, the two agree.                   *)
ServerFollows ==
  /\ state = "Open" /\ up = <<>> /\ miscounted = {}
  /\ \A i \in DOMAIN down : down[i].kind \notin WithCause
  => watched = targets

(* The app is told that it is online only on the word of the server: a       *)
(* message has come on the stream that is open now, which opens before any   *)
(* does (grpc_stream.cc:108-125).  And a wait for the server is timed        *)
(* (online_state_tracker.cc:44-46), but where the timer was cleared while    *)
(* the stream starts, by the last listener gone or by EnableNetwork.  The    *)
(* assertions of the tracker (lines 62, 68, 88), of OnWatchStreamClose       *)
(* (remote_store.cc:236) and of Stream::Write hold.                          *)
OnlineTruth ==
  /\ online.state = "Online" => state = "Open" /\ heard /\ online.failures = 0
  /\ online.timer => online.state = "Unknown" /\ Started(state)
  /\ network /\ targets # {} /\ Started(state) /\ online.state = "Unknown"
       => online.timer \/ untimed
  /\ idle => state = "Open" /\ targets = {}

(* A target listened to is taken up: its answers all arrive, it is rejected, *)
(* or it is given up; through failed streams and backoff.                    *)
AskedIsAnswered ==
  \A t \in Targets :
    (t \in targets /\ network) ~>
      \/ t \notin targets \/ ~network
      \/ state = "Open" /\ (IsActive(t) \/ t \in miscounted)
=============================================================================
