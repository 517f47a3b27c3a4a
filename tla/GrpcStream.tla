------------------------------ MODULE GrpcStream ------------------------------
(* One stream to the server, GrpcStream (grpc_stream.cc), between two        *)
(* threads.  The worker queue runs the stream's code, one operation at a     *)
(* time.  The other thread polls gRPC's completion queue, and for each       *)
(* operation that comes off it GrpcCompletion::Complete (grpc_completion.cc) *)
(* puts the callback on the worker queue.  To finish, the worker blocks      *)
(* until its completions are off gRPC's queue, so the other thread goes on   *)
(* in the midst of a step: the places where it blocks are the values of      *)
(* worker.  Then the observer (Stream, stream.cc) destroys the GrpcStream.   *)
(*                                                                           *)
(* The module begins after Start.  Messages are numbered in each direction.  *)
(* Assumed of gRPC: operations of a call that has failed or was cancelled    *)
(* come back soon, the others when they please; an operation fails only on   *)
(* such a call, and the call's status comes only from one.                   *)
EXTENDS Naturals, Sequences, FiniteSets

CONSTANTS
  MaxWrites,  \* bound: messages of the user
  MaxReads    \* bound: messages of the server

ASSUME GrpcAssumption == MaxWrites \in Nat /\ MaxReads \in Nat

VARIABLES
  open,         \* the stream exists and observer_ is set
  worker,       \* what the worker does: Idle, or where it blocks
  notify,       \* FinishAndNotify runs rather than FinishImmediately
  completions,  \* completions_, by id
  cancelled,    \* ids of completions whose callback_ was taken away
  issued,       \* ids given so far
  buffer,       \* BufferedWriter::queue_
  active,       \* BufferedWriter::has_active_write_
  finished,     \* is_grpc_call_finished_
  grpc,         \* the operations with gRPC
  passing,      \* what the polling thread is about to enqueue: at most one reply
  inbox,        \* the worker queue: operations that came back, and how
  restricted,   \* AsyncQueue's mode: nothing is enqueued any more
  dead,         \* the call has failed or was cancelled
  written, handed, received, seen, told,  \* history, see Wire
  finishes      \* history: calls of FinishGrpcCall

countVars  == <<written, handed, received, seen, told>>
writerVars == <<buffer, active>>
vars == <<open, worker, notify, completions, cancelled, issued, writerVars, finished,
          grpc, passing, inbox, restricted, dead, countVars, finishes>>

Idle == "idle"
Blocked == {"failing", "stopping", "ending", "last write"}
Kinds == {"Read", "Write", "Finish"}
Op == [id : Nat, kind : Kinds, msg : Nat]
Reply == [op : Op, ok : BOOLEAN]

-----------------------------------------------------------------------------
(* NewCompletion: an operation joins completions_ and goes to gRPC.          *)
NewId == issued + 1
Issue(kind, msg) ==
  /\ grpc' = grpc \cup {[id |-> NewId, kind |-> kind, msg |-> msg]}
  /\ issued' = NewId

NoIssue == UNCHANGED <<grpc, issued>>

(* Mutants: a write is started beside an active one; the newest goes first.  *)
MutMayStart(queue, busy) == queue # <<>>
MutFirst(queue) == queue[Len(queue)]

MayStart(queue, busy) == queue # <<>> /\ ~busy
First(queue) == Head(queue)
Rest(queue) == Tail(queue)

(* BufferedWriter::TryStartWrite and MaybeWrite, with the completions c of   *)
(* before.                                                                   *)
TryStartWrite(queue, busy, c) ==
  IF MayStart(queue, busy)
  THEN /\ Issue("Write", First(queue))
       /\ completions' = c \cup {NewId}
       /\ handed' = Append(handed, First(queue))
       /\ buffer' = Rest(queue)
       /\ active' = TRUE
  ELSE /\ NoIssue
       /\ completions' = c
       /\ buffer' = queue
       /\ active' = busy
       /\ UNCHANGED handed

(* FastFinishCompletionsBlocking for the completions c: their callbacks are  *)
(* taken away, then the worker waits in place.                               *)
CancelAndWait(c, place) ==
  /\ cancelled' = cancelled \cup c
  /\ worker' = place

(* Mutant: the worker does not wait.                                         *)
MutOffQueue == TRUE
OffQueue == \A op \in grpc : op.id \notin completions

(* Mutant: the context is not cancelled.                                     *)
MutTryCancel == dead' = dead
TryCancel == dead' = TRUE

(* Shutdown of a stream with completions c.  One that has not finished is    *)
(* cancelled first, for its read would not come back.                        *)
Shutdown(c, telling) ==
  /\ notify' = telling
  /\ IF c # {} /\ ~finished
     THEN /\ TryCancel
          /\ finished' = TRUE
          /\ finishes' = finishes + 1
          /\ CancelAndWait(c, "stopping")
     ELSE /\ CancelAndWait(c, "ending")
          /\ UNCHANGED <<dead, finished, finishes>>

-----------------------------------------------------------------------------
(* The observer's calls, operations of the worker queue.                     *)

(* Stream::Write while the stream is open for all the observer knows.        *)
Write ==
  /\ worker = Idle /\ open
  /\ written < MaxWrites
  /\ written' = written + 1
  /\ TryStartWrite(Append(buffer, written + 1), active, completions)
  /\ UNCHANGED <<open, worker, notify, cancelled, finished, passing, inbox, restricted, dead,
                 received, seen, told, finishes>>

(* Stream::Close by the client: FinishImmediately; FinishAndNotify when the  *)
(* connectivity has changed (grpc_connection.cc).                            *)
Stop ==
  /\ worker = Idle /\ open
  /\ Shutdown(completions, FALSE)
  /\ UNCHANGED <<open, completions, issued, writerVars, grpc, passing, inbox, restricted, countVars>>

ConnectivityChanges ==
  /\ worker = Idle /\ open
  /\ Shutdown(completions, TRUE)
  /\ UNCHANGED <<open, completions, issued, writerVars, grpc, passing, inbox, restricted, countVars>>

(* WriteAndFinish: a last message, if no write is under way, and half a      *)
(* second at most for it to be sent.                                         *)
WriteAndFinish ==
  /\ worker = Idle /\ open
  /\ written < MaxWrites
  /\ written' = written + 1
  /\ IF ~finished /\ ~active
     THEN /\ TryStartWrite(Append(buffer, written + 1), FALSE, completions)
          /\ worker' = "last write"
          /\ UNCHANGED <<notify, cancelled, finished, dead, finishes>>
     ELSE /\ Shutdown(completions, FALSE)
          /\ buffer' = IF finished THEN buffer ELSE Append(buffer, written + 1)
          /\ NoIssue
          /\ UNCHANGED <<completions, active, handed>>
  /\ UNCHANGED <<open, passing, inbox, restricted, received, seen, told>>

(* The rest of WriteAndFinish, when the write is off the queue or the time   *)
(* is over.                                                                  *)
LastWriteOver ==
  /\ worker = "last write"
  /\ Shutdown(completions, FALSE)
  /\ UNCHANGED <<open, completions, issued, writerVars, grpc, passing, inbox, restricted, countVars>>

-----------------------------------------------------------------------------
(* The callbacks, operations of the worker queue.                            *)
Reply1 == Head(inbox)
MayRun(kind, ok) ==
  /\ worker = Idle
  /\ inbox # <<>>
  /\ Reply1.op.id \notin cancelled
  /\ Reply1.op.kind = kind /\ Reply1.ok = ok

(* A completion whose callback was taken away is let go.                     *)
RunCancelled ==
  /\ worker = Idle
  /\ inbox # <<>>
  /\ Reply1.op.id \in cancelled
  /\ inbox' = Tail(inbox)
  /\ UNCHANGED <<open, worker, notify, completions, cancelled, issued, writerVars, finished,
                 grpc, passing, restricted, dead, countVars, finishes>>

RemoveCompletion == completions \ {Reply1.op.id}

(* OnRead: the next read is issued before the observer sees the message.     *)
OnRead ==
  /\ MayRun("Read", TRUE)
  /\ inbox' = Tail(inbox)
  /\ Issue("Read", 0)
  /\ completions' = RemoveCompletion \cup {NewId}
  /\ seen' = Append(seen, Reply1.op.msg)
  /\ \/ UNCHANGED <<worker, notify, cancelled, dead, finished, finishes>>
     \/ Shutdown(completions', FALSE)   \* Stream::OnStreamRead cannot parse it
  /\ UNCHANGED <<open, writerVars, passing, restricted, written, handed, received, told>>

(* OnWrite: DequeueNextWrite.                                                *)
OnWrite ==
  /\ MayRun("Write", TRUE)
  /\ inbox' = Tail(inbox)
  /\ TryStartWrite(buffer, FALSE, RemoveCompletion)
  /\ UNCHANGED <<open, worker, notify, cancelled, finished, passing, restricted, dead,
                 written, received, seen, told, finishes>>

(* The call's status has come: FinishAndNotify.                              *)
OnFinish ==
  /\ MayRun("Finish", TRUE)
  /\ inbox' = Tail(inbox)
  /\ completions' = RemoveCompletion
  /\ Shutdown(completions', TRUE)
  /\ UNCHANGED <<open, issued, writerVars, grpc, passing, restricted, countVars>>

(* OnOperationFailed: the first failure finishes the call, and FinishGrpcCall*)
(* waits for the other operations.                                           *)
OnOperationFailed ==
  /\ \E kind \in {"Read", "Write"} : MayRun(kind, FALSE)
  /\ inbox' = Tail(inbox)
  /\ completions' = RemoveCompletion
  /\ IF finished
     THEN UNCHANGED <<worker, cancelled, finished, finishes>>
     ELSE /\ finished' = TRUE
          /\ finishes' = finishes + 1
          /\ CancelAndWait(completions', "failing")
  /\ UNCHANGED <<open, notify, issued, writerVars, grpc, passing, restricted, dead,
                 countVars>>

-----------------------------------------------------------------------------
(* The worker goes on once its completions are off gRPC's queue.             *)

(* Mutant: the status asked for after a failure has no callback.             *)
MutStatusAsked ==
  /\ worker = "failing" /\ OffQueue
  /\ Issue("Finish", 0)
  /\ completions' = {NewId}
  /\ CancelAndWait({NewId}, Idle)
  /\ UNCHANGED <<open, notify, writerVars, finished, passing, inbox, restricted, dead,
                 countVars, finishes>>

(* FinishGrpcCall after a failure asks for the status and ends the operation.*)
StatusAsked ==
  /\ worker = "failing" /\ OffQueue
  /\ Issue("Finish", 0)
  /\ completions' = {NewId}
  /\ worker' = Idle
  /\ UNCHANGED <<open, notify, cancelled, writerVars, finished, passing, inbox, restricted, dead,
                 countVars, finishes>>

(* FinishGrpcCall in Shutdown does, and Shutdown drains that as well.        *)
StopGoesOn ==
  /\ worker = "stopping" /\ OffQueue
  /\ Issue("Finish", 0)
  /\ completions' = {NewId}
  /\ CancelAndWait({NewId}, "ending")
  /\ UNCHANGED <<open, notify, writerVars, finished, passing, inbox, restricted, dead, countVars, finishes>>

(* Shutdown is done: the observer is unset, told if it was not its own       *)
(* doing, and the stream destroyed.                                          *)
Ended ==
  /\ worker = "ending" /\ OffQueue
  /\ completions' = {}
  /\ open' = FALSE
  /\ told' = notify
  /\ worker' = Idle
  /\ UNCHANGED <<notify, cancelled, issued, writerVars, finished, grpc, passing, inbox, restricted, dead,
                 written, handed, received, seen, finishes>>

-----------------------------------------------------------------------------
(* gRPC and the polling thread; the app that terminates the client.          *)

(* GrpcCompletion::Complete: the operation is off gRPC's queue, for the      *)
(* worker to see, before its callback is on the worker queue.                *)
Complete(op, result, ok) ==
  /\ passing = <<>>
  /\ grpc' = grpc \ {op}
  /\ passing' = <<[op |-> result, ok |-> ok]>>
  /\ UNCHANGED <<open, worker, notify, completions, cancelled, issued, writerVars, finished,
                 inbox, restricted, dead, written, handed, seen, told, finishes>>

Enqueue ==
  /\ passing # <<>>
  /\ passing' = <<>>
  /\ inbox' = IF restricted THEN inbox ELSE inbox \o passing
  /\ UNCHANGED <<open, worker, notify, completions, cancelled, issued, writerVars, finished,
                 grpc, restricted, dead, countVars, finishes>>

ReadComes(op) ==
  /\ op.kind = "Read"
  /\ received < MaxReads
  /\ received' = received + 1
  /\ Complete(op, [op EXCEPT !.msg = received + 1], TRUE)

WriteComes(op) ==
  /\ op.kind = "Write"
  /\ Complete(op, op, TRUE)
  /\ UNCHANGED received

StatusComes(op) ==
  /\ dead
  /\ op.kind = "Finish"
  /\ Complete(op, op, TRUE)
  /\ UNCHANGED received

OperationFails(op) ==
  /\ dead
  /\ op.kind # "Finish"
  /\ Complete(op, op, FALSE)
  /\ UNCHANGED received

CallFails ==
  /\ ~dead
  /\ dead' = TRUE
  /\ UNCHANGED <<open, worker, notify, completions, cancelled, issued, writerVars, finished,
                 grpc, passing, inbox, restricted, countVars, finishes>>

EnterRestrictedMode ==
  /\ ~restricted
  /\ restricted' = TRUE
  /\ UNCHANGED <<open, worker, notify, completions, cancelled, issued, writerVars, finished,
                 grpc, passing, inbox, dead, countVars, finishes>>

-----------------------------------------------------------------------------
Init ==
  /\ open = TRUE /\ worker = Idle /\ notify = FALSE
  /\ grpc = {[id |-> 1, kind |-> "Read", msg |-> 0]}
  /\ issued = 1 /\ completions = {1} /\ cancelled = {}
  /\ buffer = <<>> /\ active = FALSE /\ finished = FALSE
  /\ passing = <<>> /\ inbox = <<>> /\ restricted = FALSE /\ dead = FALSE
  /\ written = 0 /\ handed = <<>> /\ received = 0 /\ seen = <<>>
  /\ told = FALSE /\ finishes = 0

WorkerGoesOn ==
  \/ RunCancelled \/ OnRead \/ OnWrite \/ OnFinish \/ OnOperationFailed
  \/ StatusAsked \/ StopGoesOn \/ Ended \/ LastWriteOver

ComesBack(op) == ReadComes(op) \/ WriteComes(op) \/ StatusComes(op) \/ OperationFails(op)

Next ==
  \/ Write \/ Stop \/ ConnectivityChanges \/ WriteAndFinish
  \/ WorkerGoesOn
  \/ \E op \in grpc : ComesBack(op)
  \/ Enqueue
  \/ CallFails
  \/ EnterRestrictedMode

Spec == Init /\ [][Next]_vars

(* Both threads run what they have; a dead call's operations come back;      *)
(* the client that terminates stops the stream.                              *)
Fairness ==
  /\ WF_vars(WorkerGoesOn)
  /\ WF_vars(\E op \in grpc : dead /\ ComesBack(op))
  /\ WF_vars(Enqueue)
  /\ WF_vars(restricted /\ Stop)

FairSpec == Spec /\ Fairness

-----------------------------------------------------------------------------
TypeOK ==
  /\ open \in BOOLEAN /\ notify \in BOOLEAN /\ active \in BOOLEAN
  /\ finished \in BOOLEAN /\ restricted \in BOOLEAN /\ dead \in BOOLEAN /\ told \in BOOLEAN
  /\ worker \in Blocked \cup {Idle}
  /\ issued \in Nat /\ completions \subseteq 1 .. issued /\ cancelled \subseteq 1 .. issued
  /\ grpc \subseteq Op /\ inbox \in Seq(Reply) /\ passing \in Seq(Reply)
  /\ buffer \in Seq(1 .. MaxWrites) /\ handed \in Seq(1 .. MaxWrites)
  /\ written \in 0 .. MaxWrites /\ received \in 0 .. MaxReads
  /\ seen \in Seq(1 .. MaxReads)
  /\ finishes \in Nat

Pending(kind) == {op \in grpc : op.kind = kind}

(* What is off gRPC's queue and has not run.                                 *)
Back == inbox \o passing

Returning(kind) ==
  Pending(kind) \cup {Back[i].op : i \in {j \in DOMAIN Back : Back[j].op.kind = kind}}

(* gRPC's rules, which it enforces by aborting: one read and one write at a  *)
(* time, the call finished once (grpc_stream.h: "gRPC asserts that a call is *)
(* finished exactly once"), and no read is left when the status is asked for.*)
(* A message waits in the buffer only behind a write whose end will send it  *)
(* on, until the call or the client ends.                                    *)
OneAtATime ==
  /\ TypeOK
  /\ Cardinality(Pending("Read")) <= 1
  /\ Cardinality(Pending("Write")) <= 1
  /\ finishes <= 1
  /\ Pending("Finish") # {} => Pending("Read") = {}
  /\ buffer # <<>> => \/ active /\ \E op \in Returning("Write") : op.id \notin cancelled
                      \/ finished \/ restricted

(* No operation is with gRPC, and no callback waits to run, after the stream *)
(* they point to was destroyed; a callback that will run finds its           *)
(* completion ("Missing GrpcCompletion"), whichever thread was faster.       *)
NothingDangles ==
  /\ ~open => grpc = {} /\ completions = {}
  /\ \A i \in DOMAIN Back :
       Back[i].op.id \notin cancelled => open /\ Back[i].op.id \in completions

(* The stream keeps the promise of Wire: messages in order in both           *)
(* directions, none after the end.                                           *)
Promise == INSTANCE Wire
KeepsPromise == Promise!WireSpec

(* The worker, and with it all of the client, never blocks for good: what it *)
(* waits for comes back, because the call is dead by then.                   *)
NeverStuck == (worker # Idle) ~> (worker = Idle)

(* A call that died is noticed: the observer is told, or has stopped the     *)
(* stream itself.                                                            *)
FailureNoticed == dead ~> ~open
=============================================================================
