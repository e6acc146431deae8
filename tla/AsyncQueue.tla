------------------------------ MODULE AsyncQueue -------------------------------
(***************************************************************************)
(* The worker queue of a Firestore client (AsyncQueue) on a serial         *)
(* libdispatch queue (ExecutorLibdispatch).  The other Firestore modules   *)
(* rest on it: they take an operation of the queue as one step, and a      *)
(* timer that has been cancelled as one that does not fire.                *)
(*                                                                         *)
(* An Enqueue method is two steps under shut_down_mutex_, the look at      *)
(* is_shutting_down_ and the call of the executor, because other threads   *)
(* call it at the same time.  What runs on the queue is serial.  Work      *)
(* given to libdispatch cannot be taken back, so that a cancelled delayed  *)
(* operation still comes, as a time slot that is done.                     *)
(***************************************************************************)
EXTENDS Naturals, FiniteSets, SequencesExt

CONSTANTS
  Users,            \* threads other than the queue's own
  Tags,             \* timer ids
  MaxOperations,    \* bound: operations made
  MaxForced         \* bound: calls that run operations early

Worker == "worker"
Threads == Users \union {Worker}

VARIABLES
  calls,       \* per thread, the Enqueue call in which it holds the mutex
  isShuttingDown,
  queue,       \* what libdispatch has to run now, in order
  slots,       \* the time slots libdispatch owns
  schedule,    \* schedule_, by slot id
  nextId,      \* current_id_
  handles,     \* the DelayedOperations that clients hold
  running,     \* the operation in progress, 0 if none
  kinds,       \* history: how each operation made was enqueued
  ran,         \* history: the operations that have run, in order
  cancelled,   \* history: those cancelled before they had run
  forced       \* number of calls to run operations early

vars == <<calls, isShuttingDown, queue, slots, schedule, nextId, handles,
          running, kinds, ran, cancelled, forced>>

\* Enqueue and EnqueueRelaxed; EnqueueEvenAfterShutdown; EnqueueAndInitiateShutdown.
Call == {"now", "even", "shutdown"}
Operation == 1..MaxOperations
Slot == [id : Nat, op : Operation, tag : Tags, done : BOOLEAN]

Init ==
  /\ calls = [u \in Threads |-> "none"]
  /\ isShuttingDown = FALSE
  /\ queue = <<>> /\ slots = {} /\ schedule = {} /\ nextId = 0
  /\ handles = {} /\ running = 0
  /\ kinds = <<>> /\ ran = <<>> /\ cancelled = {} /\ forced = 0

QueueTypeOK ==
  /\ calls \in [Threads -> Call \union {"none"}]
  /\ isShuttingDown \in BOOLEAN
  /\ \A i \in DOMAIN queue :
       queue[i] \in [kind : {"op"}, id : Operation] \union
                    [kind : {"slot", "force"}, id : Nat]
  /\ slots \subseteq Slot
  /\ schedule \subseteq 0..(nextId - 1)
  /\ handles \subseteq [op : Operation, id : Nat]
  /\ running \in Operation \union {0}
  /\ Len(kinds) <= MaxOperations /\ ToSet(kinds) \subseteq Call \union {"delayed"}
  /\ ToSet(ran) \subseteq 1..Len(kinds)
  /\ cancelled \subseteq 1..Len(kinds)
  /\ Cardinality({u \in Threads : calls[u] # "none"}) <= 1
-----------------------------------------------------------------------------
(***************************************************************************)
(* The Enqueue methods                                                     *)
(***************************************************************************)

MutexIsFree == \A u \in Threads : calls[u] = "none"

\* Room for one more operation, the calls under way counted.
RoomLeft == Len(kinds) + Cardinality({u \in Threads : calls[u] # "none"}) < MaxOperations

\* Slip: the mutex is not held between the two steps.
SlipBeginEnqueue(u, kind) ==
  /\ calls[u] = "none" /\ RoomLeft
  /\ u = Worker => running # 0 /\ kind = "now"
  /\ kind = "now" => ~isShuttingDown
  /\ calls' = [calls EXCEPT ![u] = kind]
  /\ isShuttingDown' = (isShuttingDown \/ kind = "shutdown")
  /\ UNCHANGED <<queue, slots, schedule, nextId, handles, running, kinds, ran,
                 cancelled, forced>>

\* An operation under way may only use EnqueueRelaxed (VerifySequentialOrder).
BeginEnqueue(u, kind) ==
  /\ MutexIsFree /\ RoomLeft
  /\ u = Worker => running # 0 /\ kind = "now"
  /\ kind = "now" => ~isShuttingDown
  /\ calls' = [calls EXCEPT ![u] = kind]
  /\ isShuttingDown' = (isShuttingDown \/ kind = "shutdown")
  /\ UNCHANGED <<queue, slots, schedule, nextId, handles, running, kinds, ran,
                 cancelled, forced>>

\* Execute, and the end of the lock.
EndEnqueue(u) ==
  /\ calls[u] # "none"
  /\ calls' = [calls EXCEPT ![u] = "none"]
  /\ kinds' = Append(kinds, calls[u])
  /\ queue' = Append(queue, [kind |-> "op", id |-> Len(kinds) + 1])
  /\ UNCHANGED <<isShuttingDown, slots, schedule, nextId, handles, running, ran,
                 cancelled, forced>>

\* Slip: ids are taken by position, so that they come again.
SlipNextId == Cardinality(schedule)

NextId == nextId

\* On the queue only, and in one step: the mutex is free and nobody else
\* touches the schedule.
EnqueueAfterDelay(tag) ==
  /\ running # 0 /\ MutexIsFree /\ RoomLeft
  /\ ~isShuttingDown
  /\ kinds' = Append(kinds, "delayed")
  /\ slots' = slots \union
       {[id |-> NextId, op |-> Len(kinds'), tag |-> tag, done |-> FALSE]}
  /\ schedule' = schedule \union {NextId}
  /\ handles' = handles \union {[op |-> Len(kinds'), id |-> NextId]}
  /\ nextId' = nextId + 1
  /\ UNCHANGED <<calls, isShuttingDown, queue, running, ran, cancelled, forced>>
-----------------------------------------------------------------------------
(***************************************************************************)
(* Time slots and the serial queue                                         *)
(***************************************************************************)

MarkedDone(id) ==
  {IF s.id = id THEN [s EXCEPT !.done = TRUE] ELSE s : s \in slots}

\* Slip: the slot is taken off the schedule, but would still run.
SlipRemoveFromSchedule(id) == schedule' = schedule \ {id} /\ UNCHANGED slots

\* Nothing is done for a slot no longer on the schedule.
RemoveFromSchedule(id) ==
  /\ schedule' = schedule \ {id}
  /\ slots' = IF id \in schedule THEN MarkedDone(id) ELSE slots

\* DelayedOperation::Cancel, by the operation in progress.  The handle may be
\* that of an operation that has run long ago.
Cancel(h) ==
  /\ running # 0 /\ calls[Worker] = "none"
  /\ h \in handles
  /\ handles' = handles \ {h}
  /\ RemoveFromSchedule(h.id)
  /\ cancelled' = cancelled \union ({h.op} \ ToSet(ran))
  /\ UNCHANGED <<calls, isShuttingDown, queue, nextId, running, kinds, ran, forced>>

Queued(kind) == {queue[i].id : i \in {j \in DOMAIN queue : queue[j].kind = kind}}

\* The delay is past: libdispatch puts the slot behind what it has to run now.
SlotIsDue(s) ==
  /\ s.id \notin Queued("slot")
  /\ queue' = Append(queue, [kind |-> "slot", id |-> s.id])
  /\ UNCHANGED <<calls, isShuttingDown, slots, schedule, nextId, handles, running,
                 kinds, ran, cancelled, forced>>

\* RunScheduledOperationsUntil, from another thread.
RunScheduledOperations ==
  /\ forced < MaxForced /\ forced' = forced + 1
  /\ queue' = Append(queue, [kind |-> "force", id |-> 0])
  /\ UNCHANGED <<calls, isShuttingDown, slots, schedule, nextId, handles, running,
                 kinds, ran, cancelled>>

Begins(op) == running' = op /\ ran' = Append(ran, op)

\* ExecuteBlocking of an operation for now.
ExecuteNow ==
  /\ running = 0 /\ queue # <<>> /\ Head(queue).kind = "op"
  /\ queue' = Tail(queue)
  /\ Begins(Head(queue).id)
  /\ UNCHANGED <<calls, isShuttingDown, slots, schedule, nextId, handles, kinds,
                 cancelled, forced>>

\* Slip: a slot that is done runs like any other.
SlipExecuteSlot(s) ==
  /\ running = 0 /\ queue # <<>> /\ Head(queue) = [kind |-> "slot", id |-> s.id]
  /\ queue' = Tail(queue)
  /\ slots' = slots \ {s}
  /\ schedule' = schedule \ {s.id} /\ Begins(s.op)
  /\ UNCHANGED <<calls, isShuttingDown, nextId, handles, kinds, cancelled, forced>>

\* TimeSlot::InvokedByLibdispatch: Execute, and the slot is deleted.
ExecuteSlot(s) ==
  /\ running = 0 /\ queue # <<>> /\ Head(queue) = [kind |-> "slot", id |-> s.id]
  /\ queue' = Tail(queue)
  /\ slots' = slots \ {s}
  /\ IF s.done THEN UNCHANGED <<schedule, running, ran>>
               ELSE schedule' = schedule \ {s.id} /\ Begins(s.op)
  /\ UNCHANGED <<calls, isShuttingDown, nextId, handles, kinds, cancelled, forced>>

\* A round of the loop of RunScheduledOperationsUntil, which keeps the queue until
\* nothing is left or the operation was the last one asked for: PopFromSchedule and
\* the operation it gives, the nearest being any.
ExecuteForced ==
  /\ running = 0 /\ queue # <<>> /\ Head(queue).kind = "force"
  /\ \/ /\ schedule = {} /\ queue' = Tail(queue)
        /\ UNCHANGED <<slots, schedule, running, ran>>
     \/ /\ queue' \in {queue, Tail(queue)}
        /\ \E s \in slots :
             s.id \in schedule /\ RemoveFromSchedule(s.id) /\ Begins(s.op)
  /\ UNCHANGED <<calls, isShuttingDown, nextId, handles, kinds, cancelled, forced>>

Finish ==
  /\ running # 0 /\ calls[Worker] = "none"
  /\ running' = 0
  /\ UNCHANGED <<calls, isShuttingDown, queue, slots, schedule, nextId, handles,
                 kinds, ran, cancelled, forced>>

Execute == ExecuteNow \/ (\E s \in slots : ExecuteSlot(s)) \/ ExecuteForced

Next ==
  \/ \E u \in Threads : EndEnqueue(u) \/ \E kind \in Call : BeginEnqueue(u, kind)
  \/ \E tag \in Tags : EnqueueAfterDelay(tag)
  \/ \E h \in handles : Cancel(h)
  \/ \E s \in slots : SlotIsDue(s)
  \/ RunScheduledOperations
  \/ Execute \/ Finish

Spec == Init /\ [][Next]_vars

\* Threads are scheduled, operations return, delays pass and libdispatch runs
\* what it has; nobody has to enqueue or cancel anything.
Fairness ==
  /\ \A u \in Threads : WF_vars(EndEnqueue(u))
  /\ \A id \in 0..MaxOperations : WF_vars(\E s \in slots : s.id = id /\ SlotIsDue(s))
  /\ WF_vars(Execute) /\ WF_vars(Finish)

FairSpec == Spec /\ Fairness
-----------------------------------------------------------------------------
(***************************************************************************)
(* Properties                                                              *)
(***************************************************************************)

\* The invariant executor_libdispatch.mm states for TimeSlot: the schedule points
\* to slots that exist, namely to those that are not done.
ScheduleIsPending ==
  /\ schedule = {s.id : s \in {x \in slots : ~x.done}}
  /\ \A s, t \in slots : s.id = t.id => s = t

\* What stream.cc relies on when it closes ("cancel any outstanding timers
\* (they're guaranteed not to execute)"): a cancelled operation does not run,
\* though libdispatch still comes with its slot; and no operation runs twice,
\* though one run early comes again.
CancelledNeverRuns ==
  /\ cancelled \intersect ToSet(ran) = {}
  /\ Cardinality(ToSet(ran)) = Len(ran)

\* Behind the operation that shuts down comes nothing enqueued in the ordinary
\* way, from whatever thread and however close the calls were.
ShutdownIsLast ==
  \A i, j \in DOMAIN ran :
    i < j /\ kinds[ran[i]] = "shutdown" => kinds[ran[j]] # "now"

\* An operation that was accepted runs unless it is cancelled itself, whatever
\* other handles are cancelled, run or forgotten, and after a shutdown too.
EveryOperationRuns ==
  \A op \in Operation :
    (op \in DOMAIN kinds) ~> (op \in ToSet(ran) \/ op \in cancelled)

\* What the other modules take for granted of the queue: its schedule is exact, a
\* cancelled operation does not run, and a shutdown is the last ordinary one.
QueueSafety == QueueTypeOK /\ ScheduleIsPending /\ CancelledNeverRuns /\ ShutdownIsLast
=============================================================================
