-------------------------- MODULE FirestoreWrites --------------------------
(* How a write of the app reaches Firestore (the chat's messages do): the    *)
(* persistent mutation queue of each user (leveldb_mutation_queue.cc,        *)
(* local_store.cc), the write half of the RemoteStore with its pipeline of   *)
(* at most MaxPendingWrites batches (remote_store.cc), the WriteStream that  *)
(* carries it (stream.cc, write_stream.cc), and the SyncEngine's callbacks   *)
(* (sync_engine.cc).                                                         *)
(*                                                                           *)
(* The client runs every operation on one worker queue, so an action is a    *)
(* whole operation with all it calls; the app dies between operations.  A    *)
(* write is numbered n = 1, 2, ... as the app hands it over; its batch       *)
(* carries n and the batch id of the code.                                   *)
(* A message of the stream is the number of the write it is about, 0 for the *)
(* handshake.                                                                *)
(*                                                                           *)
(* Assumed of gRPC and the server: a stream delivers in order; what it       *)
(* carries when the client drops it is lost; the server answers a stream's   *)
(* requests one by one; it closes a stream with a permanent status only over *)
(* the first request it has not answered, and the status comes after the     *)
(* answers; it never closes a stream with the status OK.                     *)
EXTENDS Naturals, SequencesExt

CONSTANTS
  Users,
  Tokens, NoToken,   \* stream tokens of the server; the empty one
  MaxPendingWrites,  \* kMaxPendingWrites
  MaxWrites,         \* bound: writes of the app
  MaxFaults          \* bound: closed streams, crashes, changes of network or user

ASSUME WritesAssumption ==
  /\ NoToken \notin Tokens
  /\ MaxPendingWrites \in Nat \ {0}
  /\ MaxWrites \in Nat /\ MaxFaults \in Nat

VARIABLES
  user,         \* SyncEngine::current_user_
  queue,        \* on disk: [Users -> Seq(Batch)], by batch id
  savedToken,   \* on disk: [Users -> Tokens \cup {NoToken}]
  nextId,       \* LevelDbMutationQueue::next_batch_id_
  network,      \* is_network_enabled_
  state,        \* Stream::State of the write stream
  handshake,    \* handshake_complete_
  idle,         \* idleness_timer_ runs
  token,        \* last_stream_token_
  pipeline,     \* write_pipeline_
  callbacks,    \* mutation_callbacks_: [Users -> SUBSET Batch]
  waiting,      \* pending_writes_callbacks_, each with the writes it stands for
  up, down,     \* the open stream: requests and answers under way
  closing,      \* the status the server has closed it with, or "none"
  applied,      \* the server: [Users -> SUBSET (1..MaxWrites)]
  latest,       \* the server: [Users -> the write it applied last]
  confirmed, refused,  \* history: [Users -> the writes settled so]
  written, faults      \* counts

serverVars == <<applied, latest>>
diskVars   == <<queue, savedToken, nextId>>
appVars    == <<callbacks, waiting, confirmed, refused>>
streamVars == <<state, handshake, idle, up, down, closing>>
vars == <<user, diskVars, network, streamVars, token, pipeline, appVars,
          serverVars, written, faults>>

Batch == [id : Nat, n : Nat]

(* Error codes by what the client makes of them: IsPermanentError and        *)
(* IsPermanentWriteError, which spares "aborted".                            *)
Statuses == {"permanent", "aborted", "transient"}
PermanentError == {"permanent", "aborted"}
PermanentWriteError == {"permanent"}

Started(st) == st \in {"Starting", "Open", "Backoff"}
Numbers(s) == [i \in DOMAIN s |-> s[i].n]
Newest(S) == IF S = {} THEN 0 ELSE Max(S)
IdsOf(q) == {q[i].id : i \in DOMAIN q}

(* Mutant: the ids start anew.                                               *)
MutNextIdOne(q) == 1

NextIdFromDb(q) == Newest(UNION {IdsOf(q[u]) : u \in Users}) + 1

(* AddMutationBatch: a row of the table whose keys are the batch ids.        *)
AddBatch(q, b) ==
  LET before == {i \in DOMAIN q : q[i].id < b.id}
      after  == {i \in DOMAIN q : q[i].id > b.id}
  IN  SubSeq(q, 1, Newest(before)) \o <<b>>
        \o (IF after = {} THEN <<>> ELSE SubSeq(q, Min(after), Len(q)))

(***************************** FillWritePipeline ***************************)

(* The pipeline takes the batches after its last one while it has room.      *)
LastRetrieved(p) == IF p = <<>> THEN 0 ELSE p[Len(p)].id

(* Mutant: a batch is skipped.                                               *)
MutFilledSkips(p, q) ==
  LET after == {i \in DOMAIN q : q[i].id > LastRetrieved(p) + 1}
  IN  IF after = {} THEN p
      ELSE p \o SubSeq(q, Min(after), Min({Len(q), Min(after) + MaxPendingWrites - Len(p) - 1}))

Filled(p, q) ==
  LET after == {i \in DOMAIN q : q[i].id > LastRetrieved(p)}
  IN  IF after = {} THEN p
      ELSE p \o SubSeq(q, Min(after), Min({Len(q), Min(after) + MaxPendingWrites - Len(p) - 1}))

(* Mutant: a stream that failed is not started again.                        *)
MutStartIfNeeded(st, p, net) ==
  IF net /\ ~Started(st) /\ p # <<>> /\ st # "Error" THEN "Starting" ELSE st

(* ShouldStartWriteStream, StartWriteStream and Stream::Start: a stream that *)
(* failed backs off first.                                                   *)
StartIfNeeded(st, p, net) ==
  IF net /\ ~Started(st) /\ p # <<>>
  THEN IF st = "Error" THEN "Backoff" ELSE "Starting"
  ELSE st

(* From pipeline p, user's queue q, stream state st, requests sent and timer *)
(* on: a batch goes out at once over an established stream, which stops the  *)
(* idle timer; a stream with nothing to do starts it.                        *)
FillWritePipeline(p, q, st, net, sent, timer) ==
  LET full == IF net THEN Filled(p, q) ELSE p
      new  == SubSeq(full, Len(p) + 1, Len(full))
      live == st = "Open" /\ handshake
  IN  /\ pipeline' = full
      /\ up' = IF live THEN sent \o Numbers(new) ELSE sent
      /\ idle' = \/ timer /\ ~(live /\ new # <<>>)
                 \/ net /\ full = <<>> /\ st = "Open"
      /\ state' = StartIfNeeded(st, full, net)

(********************************* the app *********************************)

(* SyncEngine::WriteMutations: on disk before anything is sent.              *)
Write ==
  LET batch == [id |-> nextId, n |-> written + 1]
  IN  /\ written < MaxWrites
      /\ written' = written + 1
      /\ queue' = [queue EXCEPT ![user] = AddBatch(@, batch)]
      /\ nextId' = nextId + 1
      /\ callbacks' = [callbacks EXCEPT ![user] =
                         IF \E c \in @ : c.id = batch.id THEN @ ELSE @ \cup {batch}]
      /\ FillWritePipeline(pipeline, queue'[user], state, network, up, idle)
      /\ UNCHANGED <<user, savedToken, network, handshake, token, waiting, down, closing,
                     confirmed, refused, serverVars, faults>>

(* SyncEngine::RegisterPendingWritesCallback; with nothing pending it        *)
(* answers at once.  One waiter at a time suffices.                          *)
WaitForPendingWrites ==
  /\ queue[user] # <<>>
  /\ waiting = {}
  /\ waiting' = {[id |-> Newest(IdsOf(queue[user])),
                  due |-> {queue[user][i].n : i \in DOMAIN queue[user]}]}
  /\ UNCHANGED <<user, diskVars, network, streamVars, token, pipeline, callbacks,
                 confirmed, refused, serverVars, written, faults>>

(* Mutant: the waiters of later batches are told as well.                    *)
MutTellApp(id) ==
  /\ callbacks' = [callbacks EXCEPT ![user] = {c \in @ : c.id # id}]
  /\ waiting' = {w \in waiting : w.id < id}

(* NotifyUser and TriggerPendingWriteCallbacks for the batch with this id.   *)
TellApp(id) ==
  /\ callbacks' = [callbacks EXCEPT ![user] = {c \in @ : c.id # id}]
  /\ waiting' = {w \in waiting : w.id # id}

RemoveBatch(q, id) == RemoveAt(q, CHOOSE i \in DOMAIN q : q[i].id = id)

(****************************** the write stream ***************************)

(* ResumeStartWithCredentials with a token: the gRPC stream opens at once    *)
(* and OnWriteStreamOpen sends the handshake.                                *)
TokenArrives ==
  /\ state = "Starting"
  /\ state' = "Open"
  /\ up' = <<0>>
  /\ idle' = FALSE
  /\ UNCHANGED <<user, diskVars, network, handshake, token, pipeline, appVars, down, closing,
                 serverVars, written, faults>>

(* Mutant: the pipeline is not sent again.                                   *)
MutHandshakeSilent ==
  /\ state = "Open" /\ ~handshake
  /\ down # <<>>
  /\ token' = Head(down).token
  /\ savedToken' = [savedToken EXCEPT ![user] = token']
  /\ handshake' = TRUE
  /\ down' = Tail(down)
  /\ UNCHANGED <<user, queue, nextId, network, state, pipeline, appVars, closing, up, idle,
                 serverVars, written, faults>>

(* OnWriteStreamHandshakeComplete: the first answer.                         *)
HandshakeComplete ==
  /\ state = "Open" /\ ~handshake
  /\ down # <<>>
  /\ token' = Head(down).token
  /\ savedToken' = [savedToken EXCEPT ![user] = token']
  /\ handshake' = TRUE
  /\ up' = up \o Numbers(pipeline)
  /\ idle' = (idle /\ pipeline = <<>>)
  /\ down' = Tail(down)
  /\ UNCHANGED <<user, queue, nextId, network, state, pipeline, appVars, closing,
                 serverVars, written, faults>>

(* OnWriteStreamMutationResult, SyncEngine::HandleSuccessfulWrite and        *)
(* LocalStore::AcknowledgeBatch: the answer settles the pipeline's first     *)
(* batch, whichever it was meant for.  The caller is told before the batch   *)
(* is off the disk (sync_engine.cc:350, 354), in one operation.              *)
MutationResult ==
  /\ state = "Open" /\ handshake
  /\ down # <<>>
  /\ LET batch == Head(pipeline)
     IN  /\ TellApp(batch.id)
         /\ queue' = [queue EXCEPT ![user] = RemoveBatch(@, batch.id)]
         /\ confirmed' = [confirmed EXCEPT ![user] = @ \cup {batch.n}]
  /\ token' = Head(down).token
  /\ savedToken' = [savedToken EXCEPT ![user] = token']
  /\ FillWritePipeline(Tail(pipeline), queue'[user], state, network, up, idle)
  /\ down' = Tail(down)
  /\ UNCHANGED <<user, nextId, network, handshake, closing, refused, serverVars, written, faults>>

(* Stream::Close with an error and OnWriteStreamClose.  HandleWriteError     *)
(* gives up the first batch over a permanent error once the handshake is     *)
(* done, and clears the stream's error (InhibitBackoff); HandleHandshakeError*)
(* forgets the token over one before that.                                   *)
StreamCloses(status, tk) ==
  LET first == Head(pipeline)
  IN  /\ handshake' = FALSE
      /\ down' = <<>>
      /\ closing' = "none"
      /\ IF handshake /\ pipeline # <<>> /\ status \in PermanentWriteError
         THEN /\ TellApp(first.id)
              /\ queue' = [queue EXCEPT ![user] = RemoveBatch(@, first.id)]
              /\ refused' = [refused EXCEPT ![user] = @ \cup {first.n}]
              /\ FillWritePipeline(Tail(pipeline), queue'[user], "Initial", network, <<>>, FALSE)
         ELSE /\ state' = StartIfNeeded("Error", pipeline, network)
              /\ up' = <<>>
              /\ idle' = FALSE
              /\ UNCHANGED <<queue, pipeline, callbacks, waiting, refused>>
      /\ IF ~handshake /\ pipeline # <<>> /\ status \in PermanentError
         THEN /\ token' = NoToken
              /\ savedToken' = [savedToken EXCEPT ![user] = NoToken]
         ELSE /\ token' = tk
              /\ UNCHANGED savedToken
      /\ UNCHANGED <<user, nextId, network, confirmed, serverVars, written>>

Fault ==
  /\ faults < MaxFaults
  /\ faults' = faults + 1

(* A credential that cannot be had.                                          *)
TokenFails ==
  /\ Fault
  /\ state = "Starting"
  /\ \E status \in Statuses : StreamCloses(status, token)

ConnectionLost ==
  /\ Fault
  /\ state = "Open"
  /\ StreamCloses("transient", token)

(* OnStreamFinish: the server's status, read after its answers.              *)
StatusArrives ==
  /\ state = "Open"
  /\ down = <<>> /\ closing # "none"
  /\ StreamCloses(closing, token)
  /\ UNCHANGED faults

(* OnStreamRead of an answer that does not decode: the client fails the      *)
(* stream itself, with a "data loss" of its own.  The token may have been    *)
(* read before.                                                              *)
GarbledAnswer ==
  /\ Fault
  /\ state = "Open"
  /\ down # <<>>
  /\ \/ StreamCloses("permanent", token)
     \/ handshake /\ StreamCloses("permanent", Head(down).token)

(* The backoff's delay has passed.                                           *)
BackoffElapsed ==
  /\ state = "Backoff"
  /\ state' = "Starting"
  /\ UNCHANGED <<user, diskVars, network, handshake, idle, up, down, closing, token, pipeline,
                 appVars, serverVars, written, faults>>

(* Stream::Stop of a stream in state st: nothing of it is left.              *)
Stopped(st) == IF Started(st) THEN "Initial" ELSE st
StreamGone == handshake' = FALSE /\ down' = <<>> /\ closing' = "none"

(* The idle timer stops the stream; OnWriteStreamClose asserts that it is    *)
(* not needed.                                                               *)
IdleTimeout ==
  /\ idle
  /\ state' = Stopped(state)
  /\ StreamGone /\ up' = <<>> /\ idle' = FALSE
  /\ UNCHANGED <<user, diskVars, network, token, pipeline, appVars, serverVars, written, faults>>

(******************************* the network *******************************)

DisableNetwork ==
  /\ Fault
  /\ network' = FALSE
  /\ pipeline' = <<>>
  /\ state' = Stopped(state)
  /\ StreamGone /\ up' = <<>> /\ idle' = FALSE
  /\ UNCHANGED <<user, diskVars, token, appVars, serverVars, written>>

(* Also when it is enabled already.                                          *)
EnableNetwork ==
  /\ Fault
  /\ network' = TRUE
  /\ token' = savedToken[user]
  /\ FillWritePipeline(pipeline, queue[user], state, TRUE, up, idle)
  /\ UNCHANGED <<user, diskVars, handshake, down, closing, appVars, serverVars, written>>

(* RestartNetwork: streams stopped, their error cleared, the pipeline filled *)
(* anew from the queue of user u.                                            *)
RestartNetwork(u) ==
  /\ StreamGone
  /\ network' = TRUE
  /\ token' = savedToken[u]
  /\ FillWritePipeline(<<>>, queue[u], "Initial", TRUE, <<>>, FALSE)

ConnectivityChanges ==
  /\ Fault
  /\ network
  /\ RestartNetwork(user)
  /\ UNCHANGED <<user, diskVars, appVars, serverVars, written>>

(* SyncEngine::HandleCredentialChange: another user, or another token of the *)
(* same one.                                                                 *)
CredentialChanges(u) ==
  /\ Fault
  /\ user' = u
  /\ IF u # user
     THEN /\ nextId' = NextIdFromDb(queue)
          /\ waiting' = {}
     ELSE UNCHANGED <<nextId, waiting>>
  /\ IF network
     THEN RestartNetwork(u)
     ELSE UNCHANGED <<network, streamVars, token, pipeline>>
  /\ UNCHANGED <<queue, savedToken, callbacks, confirmed, refused, serverVars, written>>

(* The app dies and FirestoreClient::Initialize runs again, for the user     *)
(* signed in by then.                                                        *)
CrashAndRestart(u) ==
  /\ Fault
  /\ user' = u
  /\ nextId' = NextIdFromDb(queue)
  /\ callbacks' = [v \in Users |-> {}]
  /\ waiting' = {}
  /\ RestartNetwork(u)
  /\ UNCHANGED <<queue, savedToken, confirmed, refused, serverVars, written>>

(******************************** the server *******************************)

serverFrame == <<user, diskVars, network, state, handshake, idle, token, pipeline, appVars, written>>

AnswersHandshake ==
  /\ closing = "none"
  /\ up # <<>> /\ Head(up) = 0
  /\ up' = Tail(up)
  /\ \E t \in Tokens : down' = Append(down, [of |-> 0, token |-> t])
  /\ UNCHANGED <<serverFrame, closing, serverVars, faults>>

AppliesWrite ==
  /\ closing = "none"
  /\ up # <<>> /\ Head(up) # 0
  /\ up' = Tail(up)
  /\ applied' = [applied EXCEPT ![user] = @ \cup {Head(up)}]
  /\ latest' = [latest EXCEPT ![user] = Head(up)]
  /\ \E t \in Tokens : down' = Append(down, [of |-> Head(up), token |-> t])
  /\ UNCHANGED <<serverFrame, closing, faults>>

ClosesStream ==
  /\ Fault
  /\ state = "Open"
  /\ closing = "none"
  /\ closing' \in IF up = <<>> THEN {"transient"} ELSE Statuses
  /\ up' = <<>>
  /\ UNCHANGED <<serverFrame, down, serverVars>>

Init ==
  /\ user \in Users
  /\ queue = [u \in Users |-> <<>>] /\ savedToken = [u \in Users |-> NoToken] /\ nextId = 1
  /\ network = TRUE /\ state = "Initial" /\ handshake = FALSE /\ idle = FALSE
  /\ token = NoToken /\ pipeline = <<>> /\ up = <<>> /\ down = <<>> /\ closing = "none"
  /\ callbacks = [u \in Users |-> {}] /\ waiting = {}
  /\ applied = [u \in Users |-> {}] /\ latest = [u \in Users |-> 0]
  /\ confirmed = [u \in Users |-> {}] /\ refused = [u \in Users |-> {}]
  /\ written = 0 /\ faults = 0

Progress ==
  TokenArrives \/ BackoffElapsed \/ HandshakeComplete \/ MutationResult \/ StatusArrives
    \/ AnswersHandshake \/ AppliesWrite

Next ==
  \/ Write \/ WaitForPendingWrites
  \/ Progress
  \/ TokenFails \/ ConnectionLost \/ GarbledAnswer \/ ClosesStream
  \/ IdleTimeout
  \/ DisableNetwork \/ EnableNetwork \/ ConnectivityChanges
  \/ \E u \in Users : CredentialChanges(u) \/ CrashAndRestart(u)

Spec == Init /\ [][Next]_vars

(* The worker queue runs what is due, the network and the server answer in   *)
(* the end.  Nobody need enable the network.                                 *)
FairSpec == Spec /\ WF_vars(Progress)

(******************************** properties *******************************)

Writes == 1..MaxWrites

TypeOK ==
  /\ user \in Users
  /\ queue \in [Users -> Seq(Batch)]
  /\ savedToken \in [Users -> Tokens \cup {NoToken}] /\ token \in Tokens \cup {NoToken}
  /\ nextId \in Nat \ {0}
  /\ network \in BOOLEAN /\ handshake \in BOOLEAN /\ idle \in BOOLEAN
  /\ state \in {"Initial", "Starting", "Open", "Error", "Backoff"}
  /\ pipeline \in Seq(Batch)
  /\ callbacks \in [Users -> SUBSET Batch]
  /\ waiting \subseteq [id : Nat, due : SUBSET Nat]
  /\ up \in Seq(Nat) /\ down \in Seq([of : Nat, token : Tokens])
  /\ closing \in Statuses \cup {"none"}
  /\ applied \in [Users -> SUBSET Nat] /\ latest \in [Users -> Nat]
  /\ confirmed \in [Users -> SUBSET Nat] /\ refused \in [Users -> SUBSET Nat]
  /\ written \in Nat /\ faults \in Nat

(* While the network may be used the pipeline is the beginning of the user's *)
(* queue, as much of it as there is room for: no write is left behind by a   *)
(* refill, skipped by it, taken twice or taken from another user's queue, and*)
(* then a stream is on its way (FillWritePipeline, HandleWriteError).        *)
PipelineFilled ==
  /\ TypeOK
  /\ IF network
     THEN /\ pipeline = SubSeq(queue[user], 1, Min({MaxPendingWrites, Len(queue[user])}))
          /\ pipeline # <<>> => Started(state)
     ELSE pipeline = <<>> /\ ~Started(state)

(* The answers and requests under way on an open stream, by the writes they  *)
(* are about: before the handshake its own, after it those of the pipeline.  *)
StreamCarriesIt ==
  LET carried  == [i \in DOMAIN down |-> down[i].of] \o up
      expected == IF handshake THEN Numbers(pipeline) ELSE <<0>>
  IN  IF state = "Open"
      THEN \/ closing = "none" /\ carried = expected
           \/ closing # "none" /\ IsPrefix([i \in DOMAIN down |-> down[i].of], expected)
      ELSE carried = <<>> /\ closing = "none"

(* "This is a response to a write containing mutations and should be         *)
(* correlated to the first write in our write pipeline": the answers and     *)
(* requests under way are those of the pipeline, in its order, on every new  *)
(* stream again from the first.  And the assertions that abort the app when  *)
(* they fail hold: a result has a write to settle ("Got result for empty     *)
(* write pipeline"), the idle timer stops no stream that is needed ("Write   *)
(* stream was stopped gracefully while still needed"), no second handshake   *)
(* ("Handshake already completed"), a batch that is settled is in the queue  *)
(* ("Attempt to reject nonexistent batch!").                                 *)
InStep ==
  /\ PipelineFilled
  /\ StreamCarriesIt
  /\ state = "Open" /\ handshake /\ down # <<>> => pipeline # <<>>
  /\ idle => state = "Open" /\ pipeline = <<>>
  /\ handshake => state = "Open"
  /\ IdsOf(pipeline) \subseteq IdsOf(queue[user])

(* While writes may be sent, the token in memory is the user's on disk: a    *)
(* crash or a change of users loses none the server has given and mixes none *)
(* up (SetLastStreamToken, HandleHandshakeError).  And what the server       *)
(* applied last for a user is no older than any write confirmed to the app,  *)
(* although writes are sent again after every loss: an older write never     *)
(* comes back over a confirmed one.                                          *)
ConfirmedStays ==
  /\ handshake => token = savedToken[user] /\ token # NoToken
  /\ \A u \in Users : \A n \in confirmed[u] : latest[u] >= n

(* A callback waits under the batch id of its own write, though ids start    *)
(* anew from what the database holds at every start and change of users.     *)
(* The write's own callback is called, and waitForPendingWrites answers, in  *)
(* the very step that settles the write, or the last of all writes pending   *)
(* at the call: nobody waits for what is settled, and nobody is told before, *)
(* but by a change of user or the app's death (NotifyUser,                   *)
(* TriggerPendingWriteCallbacks and the id RegisterPendingWritesCallback     *)
(* registers the waiter under).                                              *)
Settled(u) == confirmed[u] \cup refused[u]

CallbacksMatch ==
  \A u \in Users : /\ callbacks[u] \subseteq Range(queue[u])
                    /\ \A v \in Users : u # v => IdsOf(queue[u]) \cap IdsOf(queue[v]) = {}

StillDue ==
  /\ \A u \in Users : \A c \in callbacks[u] : c.n \notin Settled(u)
  /\ \A w \in waiting : ~(w.due \subseteq Settled(user))

ToldInTime ==
  \/ \E u \in Users : CrashAndRestart(u)
  \/ /\ \A u \in Users : \A c \in callbacks[u] \ callbacks'[u] : c.n \in Settled(u)'
     /\ user' = user => \A w \in waiting \ waiting' : w.due \subseteq Settled(user)'

CallersTold == [](CallbacksMatch /\ StillDue) /\ [][ToldInTime]_vars

(* The client keeps the promise of the Outbox.                               *)
Promise == INSTANCE Outbox WITH
             pending <- [u \in Users |-> Numbers(queue[u])]

KeepsPromise == Promise!OutboxSpec

(* Every write is settled in the end if its user stays and the network is    *)
(* not switched off.                                                         *)
Settles ==
  \A u \in Users : \A n \in Writes :
    (\E i \in DOMAIN queue[u] : queue[u][i].n = n) ~>
      \/ n \in confirmed[u] \cup refused[u]
      \/ ~network
      \/ user # u
=============================================================================
