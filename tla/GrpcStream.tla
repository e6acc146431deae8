------------------------------ MODULE GrpcStream ------------------------------
(***************************************************************************)
(* GrpcStream: one call to the backend, between Firestore's worker queue   *)
(* and gRPC's completion queue, which a thread of its own drains.  Every   *)
(* operation given to gRPC (a read, a write, the finish of the call) is a  *)
(* completion that comes back from that queue and then runs as a task of   *)
(* the worker queue.  The stream may be finished between the two, by its   *)
(* owner, by a change of connectivity or by a failure, and then must not   *)
(* be destroyed while gRPC still holds any of its operations: so finishing *)
(* cancels the callbacks and blocks the worker until they are all back.    *)
(*                                                                         *)
(* What gRPC does (Complete, Break) is modelled from how the stream uses   *)
(* it: operations on a call that failed or was cancelled come back soon.   *)
(***************************************************************************)
EXTENDS Naturals, FiniteSetsExt, SequencesExt

CONSTANTS
  MaxReads,             \* bound on the messages the backend sends
  MaxWrites             \* bound on the messages the owner writes

ASSUME BoundsAssumption == MaxReads \in Nat /\ MaxWrites \in Nat

VARIABLES
  \* the stream
  stage,                \* "new", "started", "finished" or "destroyed"
  observer,             \* observer_ is set
  registered,           \* with the GrpcConnection: grpc_connection_ is set
  finished,             \* is_grpc_call_finished_
  completions,          \* completions_
  cancelled,            \* completions whose callback has been emptied
  buffer,               \* BufferedWriter::queue_
  activeWrite,          \* BufferedWriter::has_active_write_
  \* the worker
  blocked,              \* what the worker's current task is waiting in
  tasks,                \* completed operations queued on the worker
  \* gRPC
  queue,                \* operations on the completion queue
  broken,               \* the call has failed or been cancelled
  received,             \* messages the backend has sent
  \* history
  written,              \* messages given to Write, in order
  sent,                 \* messages given to gRPC, in order
  told,                 \* how often OnStreamFinish was called
  finishes              \* how often the call was finished

streamVars  == <<stage, observer, registered, finished>>
opVars      == <<completions, cancelled, queue>>
writeVars   == <<buffer, activeWrite, written, sent>>
vars == <<streamVars, opVars, writeVars, blocked, tasks, broken, received, told, finishes>>

(***************************************************************************)
(* Where a task of the worker blocks: for the last write; in               *)
(* FinishGrpcCall, before the call is finished; in Shutdown, after that.   *)
(* The last part says what happens next.                                   *)
(***************************************************************************)
Idle == [in |-> "nothing", next |-> "nothing"]

Blocked == {Idle} \union [in : {"lastWrite"}, next : {"silent"}]
             \union [in : {"finish"}, next : {"report", "silent", "notify"}]
             \union [in : {"shutdown"}, next : {"silent", "notify"}]

Init ==
  /\ stage = "new" /\ observer = TRUE /\ registered = TRUE /\ finished = FALSE
  /\ completions = {} /\ cancelled = {} /\ queue = {}
  /\ buffer = <<>> /\ activeWrite = FALSE /\ written = <<>> /\ sent = <<>>
  /\ blocked = Idle /\ tasks = <<>>
  /\ broken = FALSE /\ received = 0
  /\ told = 0 /\ finishes = 0

\* NewCompletion, apart from the operations still in use anywhere.
NewOp(type) ==
  LET used == {o.id : o \in completions \union queue \union {tasks[i].op : i \in DOMAIN tasks}}
  IN [id |-> Min((1 .. Cardinality(used) + 1) \ used), type |-> type]

\* An operation is given to gRPC, in place of the completion left, if any.
Issue(type, left) ==
  /\ completions' = left \union {NewOp(type)}
  /\ queue' = queue \union {NewOp(type)}

-----------------------------------------------------------------------------
(* Writing *)

\* A slip: a write is given to gRPC whatever is active.
SlipTryStartWrite(pending, active, left) ==
  IF pending = <<>>
  THEN /\ buffer' = pending /\ activeWrite' = active
       /\ completions' = left
       /\ UNCHANGED <<queue, sent>>
  ELSE /\ buffer' = Tail(pending) /\ activeWrite' = TRUE
       /\ sent' = Append(sent, Head(pending))
       /\ Issue("write", left)

\* A slip: the buffer is a stack.
SlipLastWriteFirst(pending, active, left) ==
  IF pending = <<>> \/ active
  THEN /\ buffer' = pending /\ activeWrite' = active
       /\ completions' = left
       /\ UNCHANGED <<queue, sent>>
  ELSE /\ buffer' = Front(pending) /\ activeWrite' = TRUE
       /\ sent' = Append(sent, Last(pending))
       /\ Issue("write", left)

(***************************************************************************)
(* BufferedWriter::TryStartWrite on what the buffer will be, with the      *)
(* write that becomes active, if any, given to gRPC.                       *)
(***************************************************************************)
TryStartWrite(pending, active, left) ==
  IF pending = <<>> \/ active
  THEN /\ buffer' = pending /\ activeWrite' = active
       /\ completions' = left
       /\ UNCHANGED <<queue, sent>>
  ELSE /\ buffer' = Tail(pending) /\ activeWrite' = TRUE
       /\ sent' = Append(sent, Head(pending))
       /\ Issue("write", left)

Ready == blocked = Idle /\ stage = "started"

\* Write: EnqueueWrite, which starts it if no other is active.
Write ==
  /\ Ready /\ observer
  /\ Len(written) < MaxWrites
  /\ written' = Append(written, Len(written) + 1)
  /\ TryStartWrite(Append(buffer, Len(written) + 1), activeWrite, completions)
  /\ UNCHANGED <<streamVars, cancelled, blocked, tasks, broken, received, told, finishes>>

-----------------------------------------------------------------------------
(* Finishing *)

\* The worker waits, with every callback emptied: FastFinishCompletionsBlocking.
BlockIn(place, next) ==
  /\ cancelled' = cancelled \union completions
  /\ blocked' = [in |-> place, next |-> next]

\* A slip: the call is finished without being cancelled.
SlipShutdown(next) ==
  /\ registered' = FALSE
  /\ IF completions # {} /\ ~finished
     THEN finished' = TRUE /\ BlockIn("finish", next)
     ELSE BlockIn("shutdown", next) /\ UNCHANGED finished
  /\ UNCHANGED <<stage, observer, completions, queue, broken>>

(***************************************************************************)
(* Shutdown.  A call that was started and not finished is cancelled, so    *)
(* that its read comes back, and finished; then everything is drained.     *)
(***************************************************************************)
Shutdown(next) ==
  /\ registered' = FALSE
  /\ IF completions # {} /\ ~finished
     THEN /\ broken' = TRUE
          /\ finished' = TRUE
          /\ BlockIn("finish", next)
     ELSE /\ BlockIn("shutdown", next)
          /\ UNCHANGED <<broken, finished>>
  /\ UNCHANGED <<stage, observer, completions, queue>>

\* FinishImmediately: the owner is done with the stream and is not told.
FinishImmediately ==
  /\ blocked = Idle /\ stage \in {"new", "started"}
  /\ Shutdown("silent")
  /\ UNCHANGED <<writeVars, tasks, received, told, finishes>>

\* FinishAndNotify, of the calls still registered when connectivity changes.
ConnectivityChanges ==
  /\ blocked = Idle /\ registered
  /\ Shutdown("notify")
  /\ UNCHANGED <<writeVars, tasks, received, told, finishes>>

(***************************************************************************)
(* WriteAndFinish: if the call is not finished and no write is active, a   *)
(* last message is written and given some time before the stream is        *)
(* finished; a message put in the buffer instead never leaves it.          *)
(***************************************************************************)
WriteAndFinish ==
  /\ Ready /\ observer
  /\ Len(written) < MaxWrites
  /\ IF ~finished
     THEN /\ written' = Append(written, Len(written) + 1)
          /\ TryStartWrite(Append(buffer, Len(written) + 1), activeWrite, completions)
          /\ blocked' = [in |-> "lastWrite", next |-> "silent"]
          /\ UNCHANGED <<streamVars, cancelled, broken>>
     ELSE Shutdown("silent") /\ UNCHANGED writeVars
  /\ UNCHANGED <<tasks, received, told, finishes>>

\* The last write is back, or 500 milliseconds have passed, or there was none.
LastWriteWaited ==
  /\ blocked.in = "lastWrite"
  /\ Shutdown(blocked.next)
  /\ UNCHANGED <<writeVars, tasks, received, told, finishes>>

\* A slip: the stream does not wait for its operations to come back.
SlipBack == TRUE

\* WaitUntilOffQueue returns for every completion of the stream.
Back == completions \intersect queue = {}

(***************************************************************************)
(* The rest of FinishGrpcCall: with every operation back, the finish is    *)
(* given to gRPC.  After a failure the task ends here and the finish will  *)
(* report the status; a shutdown goes on to drain it.                      *)
(***************************************************************************)
FinishCall ==
  /\ blocked.in = "finish" /\ Back
  /\ Issue("finish", {})
  /\ IF blocked.next = "report"
     THEN blocked' = Idle /\ UNCHANGED cancelled
     ELSE /\ blocked' = [blocked EXCEPT !.in = "shutdown"]
          /\ cancelled' = cancelled \union completions'
  /\ finishes' = finishes + 1
  /\ UNCHANGED <<streamVars, writeVars, tasks, broken, received, told>>

\* A slip: the observer is told whether or not it has been unset.
SlipFinishShutdown ==
  /\ blocked.in = "shutdown" /\ Back
  /\ completions' = {}
  /\ blocked' = Idle
  /\ told' = told + 1
  /\ UNCHANGED finishes
  /\ stage' = "started"
  /\ UNCHANGED <<observer, registered, finished, cancelled, queue, writeVars, tasks, broken, received>>

\* The rest of Shutdown and of its caller: the observer is unset, and told or not.
FinishShutdown ==
  /\ blocked.in = "shutdown" /\ Back
  /\ completions' = {}
  /\ blocked' = Idle
  /\ observer' = FALSE
  /\ told' = IF blocked.next = "notify" /\ observer THEN told + 1 ELSE told
  /\ UNCHANGED finishes
  /\ stage' = "finished"
  /\ UNCHANGED <<registered, finished, cancelled, queue, writeVars, tasks, broken, received>>

\* The owner lets go of a finished stream.
Destroy ==
  /\ blocked = Idle /\ stage = "finished"
  /\ stage' = "destroyed"
  /\ UNCHANGED <<observer, registered, finished, opVars, writeVars, blocked, tasks, broken,
                 received, told, finishes>>

-----------------------------------------------------------------------------
(* Starting, and the tasks of completed operations *)

\* Start: a read is given to gRPC at once; the first write starts the stream there.
Start ==
  /\ blocked = Idle /\ stage = "new"
  /\ stage' = "started"
  /\ Issue("read", completions)
  /\ UNCHANGED <<observer, registered, finished, cancelled, writeVars, blocked, tasks, broken,
                 received, told, finishes>>

\* A slip: the stream does not go on reading.
SlipOnRead(left) ==
  /\ completions' = left
  /\ UNCHANGED <<queue, streamVars, cancelled, writeVars, blocked, broken>>

\* OnRead: the next read is given to gRPC before the observer sees the message.
OnRead(left) ==
  /\ IF observer THEN Issue("read", left) ELSE completions' = left /\ UNCHANGED queue
  /\ UNCHANGED <<streamVars, cancelled, writeVars, blocked, broken>>

\* OnWrite: DequeueNextWrite.
OnWrite(left) ==
  /\ IF observer THEN TryStartWrite(buffer, FALSE, left)
     ELSE completions' = left /\ UNCHANGED <<queue, buffer, activeWrite, sent>>
  /\ UNCHANGED <<streamVars, cancelled, written, blocked, broken>>

\* A slip: every failure finishes the call.
SlipOnOperationFailed(left) ==
  /\ completions' = left
  /\ finished' = TRUE
  /\ cancelled' = cancelled \union left
  /\ blocked' = [in |-> "finish", next |-> "report"]
  /\ UNCHANGED <<stage, observer, registered, queue, writeVars, broken>>

\* OnOperationFailed: the first failure finishes the call, to learn its status.
OnOperationFailed(left) ==
  /\ completions' = left
  /\ IF finished THEN UNCHANGED <<finished, cancelled, blocked>>
     ELSE /\ finished' = TRUE
          /\ cancelled' = cancelled \union left
          /\ blocked' = [in |-> "finish", next |-> "report"]
  /\ UNCHANGED <<stage, observer, registered, queue, writeVars, broken>>

\* The status of the call is here: FinishAndNotify.
OnFinish(left) ==
  /\ registered' = FALSE
  /\ cancelled' = cancelled \union left
  /\ blocked' = [in |-> "shutdown", next |-> "notify"]
  /\ completions' = left
  /\ UNCHANGED <<stage, observer, finished, queue, writeVars, broken>>

(***************************************************************************)
(* The callback of a completion, run by the worker: nothing if it has been *)
(* emptied; otherwise the completion leaves the stream's list first.       *)
(***************************************************************************)
RunTask ==
  /\ blocked = Idle /\ tasks # <<>>
  /\ tasks' = Tail(tasks)
  /\ LET op   == Head(tasks).op
         left == completions \ {op}
     IN IF op \in cancelled
        THEN /\ cancelled' = cancelled \ {op}
             /\ UNCHANGED <<streamVars, completions, queue, writeVars, blocked, broken>>
        ELSE CASE ~Head(tasks).ok                             -> OnOperationFailed(left)
               [] Head(tasks).ok /\ op.type = "read"   -> OnRead(left)
               [] Head(tasks).ok /\ op.type = "write"  -> OnWrite(left)
               [] Head(tasks).ok /\ op.type = "finish" -> OnFinish(left)
  /\ UNCHANGED <<received, told, finishes>>

-----------------------------------------------------------------------------
(* gRPC *)

(***************************************************************************)
(* GrpcCompletion::Complete on gRPC's thread: the operation is off the     *)
(* queue, and its callback is a task of the worker.  A read needs a        *)
(* message; a read or write of a broken call fails; a finish succeeds.     *)
(***************************************************************************)
Complete(op, ok) ==
  /\ op \in queue
  /\ ok <=> (op.type = "finish" \/ ~broken)
  /\ op.type = "read" /\ ok => received < MaxReads
  /\ queue' = queue \ {op}
  /\ tasks' = Append(tasks, [op |-> op, ok |-> ok])
  /\ received' = IF op.type = "read" /\ ok THEN received + 1 ELSE received
  /\ UNCHANGED <<streamVars, completions, cancelled, writeVars, blocked, broken, told, finishes>>

Break ==
  /\ ~broken /\ stage = "started"
  /\ broken' = TRUE
  /\ UNCHANGED <<streamVars, opVars, writeVars, blocked, tasks, received, told, finishes>>

Next ==
  \/ Start \/ Write \/ WriteAndFinish \/ LastWriteWaited
  \/ FinishImmediately \/ ConnectivityChanges \/ FinishCall \/ FinishShutdown \/ Destroy
  \/ RunTask
  \/ \E op \in queue, ok \in BOOLEAN : Complete(op, ok)
  \/ Break

Spec == Init /\ [][Next]_vars

(***************************************************************************)
(* The worker runs its tasks.  gRPC gives back the operations of a call    *)
(* that is broken; a read of a call that is not may wait for ever.         *)
(***************************************************************************)
Returns == broken /\ \E op \in queue, ok \in BOOLEAN : Complete(op, ok)

Fairness ==
  /\ WF_vars(RunTask) /\ WF_vars(FinishCall) /\ WF_vars(FinishShutdown)
  /\ WF_vars(LastWriteWaited) /\ WF_vars(Returns)

FairSpec == Spec /\ Fairness

-----------------------------------------------------------------------------
Op == [id : Nat, type : {"read", "write", "finish"}]

GrpcTypeOK ==
  /\ stage \in {"new", "started", "finished", "destroyed"}
  /\ observer \in BOOLEAN /\ registered \in BOOLEAN /\ finished \in BOOLEAN
  /\ completions \subseteq Op /\ cancelled \subseteq Op /\ queue \subseteq Op
  /\ buffer \in Seq(1..MaxWrites) /\ activeWrite \in BOOLEAN
  /\ written \in Seq(1..MaxWrites) /\ sent \in Seq(1..MaxWrites)
  /\ blocked \in Blocked /\ tasks \in Seq([op : Op, ok : BOOLEAN])
  /\ broken \in BOOLEAN /\ received \in 0..MaxReads /\ told \in 0..1
  /\ finishes \in Nat

(***************************************************************************)
(* What gRPC requires of its caller: at no time two reads or two writes of *)
(* the call on the completion queue.                                       *)
(***************************************************************************)
OneOfAKind == \A a, b \in queue : a.type = b.type => a = b

(***************************************************************************)
(* A call is finished once, and only when gRPC has given back every other  *)
(* operation ("All completions issued by this call must be taken off the   *)
(* queue before finish operation can be enqueued").                        *)
(***************************************************************************)
FinishGivenAlone ==
  [][(\E o \in queue' \ queue : o.type = "finish") => queue = {} /\ finishes = 0]_vars

(***************************************************************************)
(* A finished stream can be destroyed: gRPC holds none of its operations,  *)
(* and the callbacks still queued on the worker have been emptied, so that *)
(* they will not touch it.                                                 *)
(***************************************************************************)
SafeToDestroy ==
  stage \in {"finished", "destroyed"} =>
    /\ queue = {} /\ completions = {} /\ ~registered
    /\ \A i \in DOMAIN tasks : tasks[i].op \in cancelled

\* Messages go out one by one, in the order they were written, none left out.
WritesInOrder == sent \o buffer = written

(***************************************************************************)
(* The worker never hangs in a shutdown, and a stream whose call breaks    *)
(* comes to its end: the observer is told, or has finished it itself.      *)
(***************************************************************************)
WorkerReturns == (blocked # Idle) ~> (blocked = Idle)

BreakIsNoticed == (broken /\ stage = "started") ~> (stage = "finished")

\* What holds of a call at every moment: gRPC's rules are kept, nothing is written
\* out of order, and a stream that has finished can be destroyed.
StreamSafety == GrpcTypeOK /\ OneOfAKind /\ WritesInOrder /\ SafeToDestroy

\* Nobody is left waiting: neither the worker in a shutdown, nor the observer of a
\* call that breaks.
StreamEnds == WorkerReturns /\ BreakIsNoticed
=============================================================================
