----------------------------- MODULE GetDocuments -----------------------------
(***************************************************************************)
(* getDocuments, from the call to its answer, on the two queues it crosses.*)
(* The main queue makes the call and runs the completion; the worker queue *)
(* owns the event manager and the sync engine.  A call is a listener that  *)
(* removes itself with its first snapshot, so what makes it a single       *)
(* answer is spread over both: events already posted to the main queue     *)
(* when the listener is removed are dropped there because it is muted, and *)
(* the removal itself is one more task of the worker queue.                *)
(*                                                                         *)
(* Calls for the same query share one listen and one view.  Of a view only *)
(* its sync state is kept: "cache" until the backend has confirmed it and  *)
(* again when the client goes offline, "server" in between.  How the view  *)
(* is confirmed is the business of WatchTargets and LimboDocuments; here   *)
(* the backend does it, or rejects the query, in one step.                 *)
(***************************************************************************)
EXTENDS FiniteSets, SequencesExt

CONSTANTS
  Call,                 \* calls of getDocuments
  Query,                \* the queries they are made for
  QueryOf,              \* the query of each call
  ServerCalls,          \* calls made with Source::Server
  MaxPending            \* bound on the events the main queue may be behind

ASSUME CallAssumption == /\ QueryOf \in [Call -> Query]
                         /\ ServerCalls \subseteq Call
                         /\ MaxPending \in Nat

VARIABLES
  called,               \* calls made
  answers,              \* answers each completion was given, in order
  muted,                \* AsyncEventListener::muted_
  worker,               \* tasks of the worker queue
  main,                 \* events posted to the user executor
  listeners,            \* EventManager::queries_: the listeners of each query
  stored,               \* QueryListenersInfo::snapshot_ of each query
  raised,               \* QueryListener::raised_initial_event_
  seen,                 \* QueryListener::snapshot_
  view,                 \* SyncEngine::query_views_by_query_, its sync state
  online,               \* the online state the sync engine was last told
  wasOffline            \* calls during which the client was offline (history)

mainVars   == <<called, answers, muted>>
eventVars  == <<listeners, stored, raised, seen>>
vars == <<mainVars, worker, main, eventVars, view, online, wasOffline>>

SyncState   == {"none", "cache", "server"}
OnlineState == {"Unknown", "Online", "Offline"}
Event       == {"cache", "server", "error"}
Reply       == {"documents", "cached", "unavailable", "error"}

Init ==
  /\ called = {} /\ answers = [c \in Call |-> <<>>] /\ muted = {}
  /\ worker = <<>> /\ main = <<>>
  /\ listeners = [q \in Query |-> {}] /\ stored = [q \in Query |-> "none"]
  /\ raised = {} /\ seen = [c \in Call |-> "none"]
  /\ view = [q \in Query |-> "none"]
  /\ online = "Unknown"
  /\ wasOffline = {}

(***************************************************************************)
(* The events one worker task posts.  They are for different calls, whose  *)
(* completions share nothing, so their order does not matter.              *)
(***************************************************************************)
Post(events) == main' = main \o SetToSeq(events)

EventFor(c, event) == [call |-> c, event |-> event]

\* A slip: a state that is still unknown is taken for offline.
SlipShouldRaiseInitialEvent(snapshot, state) == snapshot = "server" \/ state # "Online"

(***************************************************************************)
(* The listener of a call waits for a synced snapshot unless the client is *)
(* offline; after its first event every snapshot is raised, since the call *)
(* asked for all metadata changes.                                         *)
(***************************************************************************)
ShouldRaiseInitialEvent(snapshot, state) == snapshot = "server" \/ state = "Offline"

Raises(c, snapshot) == c \in raised \/ ShouldRaiseInitialEvent(snapshot, online)

(***************************************************************************)
(* EventManager::OnViewSnapshots for new snapshots of the queries in qs:   *)
(* each listener is offered its query's, and the last one is kept for the  *)
(* listeners that will join.                                               *)
(***************************************************************************)
OnViewSnapshots(qs, states) ==
  LET offered == UNION {listeners[q] : q \in qs}
      told    == {c \in offered : Raises(c, states[QueryOf[c]])}
  IN /\ raised' = raised \union told
     /\ seen' = [c \in Call |-> IF c \in offered THEN states[QueryOf[c]] ELSE seen[c]]
     /\ stored' = [q \in Query |-> IF q \in qs /\ listeners[q] # {}
                                   THEN states[q] ELSE stored[q]]
     /\ Post({EventFor(c, states[QueryOf[c]]) : c \in told})

-----------------------------------------------------------------------------
(* The main queue *)

GetDocuments(c) ==
  /\ c \notin called
  /\ called' = called \union {c}
  /\ worker' = Append(worker, [op |-> "add", call |-> c])
  /\ wasOffline' = IF online = "Offline" THEN wasOffline \union {c} ELSE wasOffline
  /\ UNCHANGED <<answers, muted, main, eventVars, view, online>>

ReplyTo(c, event) ==
  CASE event = "server" -> "documents"
    [] event = "cache"  -> IF c \in ServerCalls THEN "unavailable" ELSE "cached"
    [] event = "error"  -> "error"

\* A slip: the listener is not muted, only taken off the books later.
SlipOnEventUnmuted ==
  /\ main # <<>>
  /\ LET c == Head(main).call
     IN /\ answers' = [answers EXCEPT ![c] = Append(@, ReplyTo(c, Head(main).event))]
        /\ worker' = Append(worker, [op |-> "remove", call |-> c])
  /\ main' = Tail(main)
  /\ UNCHANGED <<called, muted, eventVars, view, online, wasOffline>>

\* A slip: the listener is muted but stays on the books.
SlipOnEventUnremoved ==
  /\ main # <<>>
  /\ LET c == Head(main).call
     IN IF c \in muted THEN UNCHANGED <<answers, muted>>
        ELSE /\ answers' = [answers EXCEPT ![c] = Append(@, ReplyTo(c, Head(main).event))]
             /\ muted' = muted \union {c}
  /\ main' = Tail(main)
  /\ UNCHANGED <<called, worker, eventVars, view, online, wasOffline>>

(***************************************************************************)
(* The head of the main queue: dropped if its listener is muted; an error  *)
(* is passed on; a snapshot first removes the registration, which mutes    *)
(* the listener at once and takes it off the worker's books later.         *)
(***************************************************************************)
OnEvent ==
  /\ main # <<>>
  /\ LET c     == Head(main).call
         event == Head(main).event
     IN IF c \in muted THEN UNCHANGED <<answers, muted, worker>>
        ELSE /\ answers' = [answers EXCEPT ![c] = Append(@, ReplyTo(c, event))]
             /\ IF event = "error" THEN UNCHANGED <<muted, worker>>
                ELSE /\ muted' = muted \union {c}
                     /\ worker' = Append(worker, [op |-> "remove", call |-> c])
  /\ main' = Tail(main)
  /\ UNCHANGED <<called, eventVars, view, online, wasOffline>>

-----------------------------------------------------------------------------
(* The worker queue *)

\* A slip: the snapshot kept for the query is offered without asking if there is one.
SlipAddQueryListener(c) ==
  LET q    == QueryOf[c]
      told == ShouldRaiseInitialEvent(stored[q], online)
  IN /\ listeners' = [listeners EXCEPT ![q] = @ \union {c}]
     /\ seen' = [seen EXCEPT ![c] = stored[q]]
     /\ raised' = IF told THEN raised \union {c} ELSE raised
     /\ Post(IF told THEN {EventFor(c, stored[q])} ELSE {})
     /\ UNCHANGED <<view, stored>>

(***************************************************************************)
(* AddQueryListener.  The first listener of a query makes the sync engine  *)
(* listen, which computes the view from the local store and hands back its *)
(* first snapshot, always from cache; a later one is offered the snapshot  *)
(* kept for its query, if there is one.                                    *)
(***************************************************************************)
AddQueryListener(c) ==
  LET q        == QueryOf[c]
      first    == listeners[q] = {}
      snapshot == IF first THEN "cache" ELSE stored[q]
      told     == snapshot # "none" /\ ShouldRaiseInitialEvent(snapshot, online)
  IN /\ listeners' = [listeners EXCEPT ![q] = @ \union {c}]
     /\ seen' = [seen EXCEPT ![c] = snapshot]
     /\ raised' = IF told THEN raised \union {c} ELSE raised
     /\ Post(IF told THEN {EventFor(c, snapshot)} ELSE {})
     /\ IF first THEN /\ view' = [view EXCEPT ![q] = "cache"]
                      /\ stored' = [stored EXCEPT ![q] = "cache"]
                 ELSE UNCHANGED <<view, stored>>

(***************************************************************************)
(* RemoveQueryListener.  A listener that an error has already taken off is *)
(* not found; the last one makes the sync engine stop listening.           *)
(***************************************************************************)
RemoveQueryListener(c) ==
  LET q == QueryOf[c] IN
  /\ listeners' = [listeners EXCEPT ![q] = @ \ {c}]
  /\ IF listeners[q] = {c}
     THEN /\ view' = [view EXCEPT ![q] = "none"]
          /\ stored' = [stored EXCEPT ![q] = "none"]
     ELSE UNCHANGED <<view, stored>>
  /\ UNCHANGED <<raised, seen, main>>

RunWorker ==
  /\ worker # <<>>
  /\ LET task == Head(worker)
     IN IF task.op = "add" THEN AddQueryListener(task.call) ELSE RemoveQueryListener(task.call)
  /\ worker' = Tail(worker)
  /\ UNCHANGED <<mainVars, online, wasOffline>>

\* A remote event changes the view of q: its documents, its sync state, or both.
ViewChanges(q, state) ==
  /\ view[q] # "none" /\ online = "Online"
  /\ Len(main) < MaxPending
  /\ view' = [view EXCEPT ![q] = state]
  /\ OnViewSnapshots({q}, view')
  /\ UNCHANGED <<mainVars, worker, listeners, online, wasOffline>>

\* The backend has confirmed the view of q: it is in sync now.
Synced(q) == view[q] = "cache" /\ ViewChanges(q, "server")

\* Documents of q change, and may send some of them into limbo or not.
DocumentsChange(q) == \E state \in {"cache", "server"} : ViewChanges(q, state)

\* A slip: the view is dropped and the listeners told, but they stay on the books.
SlipHandleRejectedListen(q) ==
  /\ view[q] # "none" /\ online = "Online"
  /\ Len(main) < MaxPending
  /\ view' = [view EXCEPT ![q] = "none"]
  /\ Post({EventFor(c, "error") : c \in listeners[q]})
  /\ UNCHANGED <<mainVars, worker, eventVars, online, wasOffline>>

(***************************************************************************)
(* HandleRejectedListen: the view is dropped, every listener is told and   *)
(* forgotten, without asking the sync engine to stop listening.            *)
(***************************************************************************)
HandleRejectedListen(q) ==
  /\ view[q] # "none" /\ online = "Online"
  /\ Len(main) < MaxPending
  /\ view' = [view EXCEPT ![q] = "none"]
  /\ Post({EventFor(c, "error") : c \in listeners[q]})
  /\ listeners' = [listeners EXCEPT ![q] = {}]
  /\ stored' = [stored EXCEPT ![q] = "none"]
  /\ UNCHANGED <<mainVars, worker, raised, seen, online, wasOffline>>

\* A slip: a waiting listener counts as told when the state changes, told or not.
SlipHandleOnlineStateChange(state) ==
  LET waiting == UNION {listeners[q] : q \in Query} \ raised
  IN /\ state # online
     /\ Len(main) < MaxPending
     /\ online' = state
     /\ raised' = raised \union waiting
     /\ Post({EventFor(c, seen[c]) : c \in {w \in waiting : state = "Offline"}})
     /\ wasOffline' = IF state = "Offline" THEN wasOffline \union called ELSE wasOffline
     /\ UNCHANGED <<mainVars, worker, listeners, stored, seen, view>>

(***************************************************************************)
(* HandleOnlineStateChange.  Going offline, every synced view raises a     *)
(* snapshot from cache, to listeners that have had their first event; then *)
(* the listeners still waiting are told the state, and offline makes do    *)
(* with the snapshot they have seen.                                       *)
(***************************************************************************)
HandleOnlineStateChange(state) ==
  LET lost    == {q \in Query : state = "Offline" /\ view[q] = "server"}
      told    == UNION {listeners[q] : q \in lost}
      waiting == UNION {listeners[q] : q \in Query} \ raised
      giveUp  == {c \in waiting : seen[c] # "none" /\ ShouldRaiseInitialEvent(seen[c], state)}
  IN /\ state # online
     /\ Len(main) < MaxPending
     /\ online' = state
     /\ view' = [q \in Query |-> IF q \in lost THEN "cache" ELSE view[q]]
     /\ stored' = [q \in Query |-> IF q \in lost THEN "cache" ELSE stored[q]]
     /\ seen' = [c \in Call |-> IF c \in told THEN "cache" ELSE seen[c]]
     /\ raised' = raised \union giveUp
     /\ Post({EventFor(c, "cache") : c \in told \intersect raised}
               \union {EventFor(c, seen'[c]) : c \in giveUp})
     /\ wasOffline' = IF state = "Offline"
                      THEN wasOffline \union {c \in called : answers[c] = <<>>}
                      ELSE wasOffline
     /\ UNCHANGED <<mainVars, worker, listeners>>

Next ==
  \/ \E c \in Call : GetDocuments(c)
  \/ OnEvent
  \/ RunWorker
  \/ \E q \in Query : DocumentsChange(q) \/ HandleRejectedListen(q)
  \/ \E state \in OnlineState : HandleOnlineStateChange(state)

Spec == Init /\ [][Next]_vars

(***************************************************************************)
(* Both queues run their tasks.  The state does not stay Unknown for ever  *)
(* (ListenStream, UnknownResolves), and a connection that keeps coming     *)
(* back is at some point up for long enough to confirm a view that is      *)
(* still asked for (WatchTargets, EveryTargetSettles).  Nothing makes the  *)
(* client go offline, the backend reject a query, or documents change.     *)
(***************************************************************************)
UnknownResolves ==
  online = "Unknown" /\ \E state \in {"Online", "Offline"} : HandleOnlineStateChange(state)

FairSpec ==
  /\ Spec
  /\ WF_vars(OnEvent) /\ WF_vars(RunWorker)
  /\ WF_vars(UnknownResolves)
  /\ \A q \in Query : SF_vars(Synced(q))

-----------------------------------------------------------------------------
GetTypeOK ==
  /\ called \subseteq Call /\ answers \in [Call -> Seq(Reply)] /\ muted \subseteq called
  /\ worker \in Seq([op : {"add", "remove"}, call : called])
  /\ main \in Seq([call : called, event : Event])
  /\ listeners \in [Query -> SUBSET called] /\ stored \in [Query -> SyncState]
  /\ raised \subseteq called /\ seen \in [Call -> SyncState]
  /\ view \in [Query -> SyncState] /\ online \in OnlineState
  /\ wasOffline \subseteq called

(***************************************************************************)
(* The event manager and the sync engine agree on what is listened to,     *)
(* although a rejection takes listeners off without StopListening and      *)
(* removals of listeners already gone are still under way: this is what    *)
(* the assertions "We already listen to query" and "Trying to stop         *)
(* listening to a query not found" rely on.  A query with listeners keeps  *)
(* the snapshot its view gave last, so a listener that joins starts from   *)
(* the state the view is in.                                               *)
(***************************************************************************)
BooksAgree ==
  \A q \in Query : /\ (view[q] # "none") <=> (listeners[q] # {})
                   /\ stored[q] = view[q]
                   /\ \A c \in listeners[q] : seen[c] = view[q]

(***************************************************************************)
(* Every listener on the books still has an answer to give or a removal    *)
(* on its way: once the calls are answered and the queues are empty the    *)
(* client listens to nothing, whatever order errors, snapshots and         *)
(* removals came in.                                                       *)
(***************************************************************************)
ListensReleased ==
  \A q \in Query : \A c \in listeners[q] :
    \/ answers[c] = <<>>
    \/ \E i \in DOMAIN worker : worker[i] = [op |-> "remove", call |-> c]

(***************************************************************************)
(* Cached documents, or the refusal of them, are answered only to a call   *)
(* that was open while the client was offline: with a connection, or one   *)
(* still being tried, the call waits for the backend.                      *)
(***************************************************************************)
CacheOnlyOffline ==
  \A c \in Call : \A i \in DOMAIN answers[c] :
    answers[c][i] \in {"cached", "unavailable"} => c \in wasOffline

(***************************************************************************)
(* A listener that has had its first event has been answered or has that   *)
(* event still on the main queue: nothing raised is lost between the       *)
(* queues, and an unmuted listener taken off by an error has its error.    *)
(***************************************************************************)
RaisedReaches ==
  \A c \in raised : answers[c] # <<>> \/ \E i \in DOMAIN main : main[i].call = c

(***************************************************************************)
(* The books of the two queues: what is listened to is known to both, is   *)
(* let go of once answered, and no answer is lost in between.              *)
(***************************************************************************)
CallSafety == GetTypeOK /\ BooksAgree /\ ListensReleased /\ RaisedReaches

(***************************************************************************)
(* The calls are answered as OneAnswer promises: once each, and in the end *)
(* every one of them.                                                      *)
(***************************************************************************)
Promise == INSTANCE OneAnswer WITH Answer <- Reply

ImplementsOneAnswer == Promise!Spec
=============================================================================
