----------------------------- MODULE WatchTargets ------------------------------
(***************************************************************************)
(* The targets a Firestore client watches over one connection after the    *)
(* other: RemoteStore's listens, the WatchChangeAggregator that turns what *)
(* the backend sends into remote events, and what an event changes in the  *)
(* views and in the LocalStore.  A target is a query; of a document only   *)
(* whether it is in a target is modelled.                                  *)
(*                                                                         *)
(* Requests and responses travel in order, each in a queue.  The backend   *)
(* is external: it answers every request once, sends the documents of a    *)
(* target between its ADD and its CURRENT, and a global snapshot only when *)
(* all its targets are current.  A target resumed with a token gets the    *)
(* difference since the token; of the documents that left it meanwhile the *)
(* backend may tell only by an existence filter.                           *)
(***************************************************************************)
EXTENDS Integers, FiniteSets, Sequences, SequencesExt

CONSTANTS
  Target, Doc,
  MaxListens,   \* bound: how often a target is listened to
  MaxChanges,   \* bound: how often the backend's data changes or is reset
  MaxCloses     \* bound: how often the connection is lost

ASSUME BoundsAssumption ==
  /\ IsFiniteSet(Target) /\ IsFiniteSet(Doc)
  /\ MaxListens \in Nat /\ MaxChanges \in Nat /\ MaxCloses \in Nat

VARIABLES
  listens,     \* listen_targets_: the targets listened to
  token,       \* the resume token of each target, in LocalStore
  resume,      \* the resume token of each target, in listen_targets_
  synced,      \* the documents of each target that the backend has confirmed
  current,     \* the targets whose view is current
  open,        \* the watch stream is open
  states,      \* target_states_
  resets,      \* pending_target_resets_
  requests,    \* client to backend
  inbox,       \* backend to client
  matches,     \* backend: the documents of each target
  serving,     \* backend: the targets it has added
  unsettled,   \* backend: something was sent since the last global snapshot
  used,        \* how much of each bound is used
  overtaken,   \* history: targets rejected while later requests were under way
  trust        \* history: what a mismatch has left of a target

client == <<listens, token, resume, synced, current, open, states, resets>>
backend == <<matches, serving, unsettled>>
history == <<overtaken, trust>>
vars == <<client, requests, inbox, backend, used, history>>

\* A token stands for the documents at its moment.
NoToken == <<>>
Token(ds) == <<ds>>
Tokens == {NoToken} \union {Token(ds) : ds \in SUBSET Doc}

\* TargetState.  A change is kept by document; the token it also keeps is that of
\* the snapshot which raises it, and makes every active target part of the event.
TargetState == [outstanding : Int, changes : [Doc -> {"", "Added", "Modified", "Removed"}],
                current : BOOLEAN]
Fresh == [outstanding |-> 0, changes |-> [d \in Doc |-> ""], current |-> FALSE]

WatchTypeOK ==
  /\ listens \subseteq Target /\ current \subseteq listens
  /\ token \in [Target -> Tokens] /\ resume \in [Target -> Tokens]
  /\ synced \in [Target -> SUBSET Doc]
  /\ open \in BOOLEAN
  /\ DOMAIN states \subseteq Target
  /\ \A t \in DOMAIN states : states[t] \in TargetState
  /\ resets \subseteq Target
  /\ trust \in [Target -> {"sound", "mending", "misled"}]
  /\ matches \in [Target -> SUBSET Doc] /\ serving \subseteq Target

Init ==
  /\ listens = {} /\ current = {} /\ open = TRUE
  /\ token = [t \in Target |-> NoToken] /\ resume = token
  /\ synced = [t \in Target |-> {}]
  /\ states = <<>> /\ resets = {}
  /\ requests = <<>> /\ inbox = <<>>
  /\ matches \in [Target -> SUBSET Doc]
  /\ serving = {} /\ unsettled = FALSE
  /\ used = [listens |-> 0, changes |-> 0, closes |-> 0]
  /\ overtaken = {} /\ trust = [t \in Target |-> "sound"]

Use(bound) == used' = [used EXCEPT ![bound] = @ + 1]
-----------------------------------------------------------------------------
(***************************************************************************)
(* The aggregator, as operators on its map of target states                *)
(***************************************************************************)

With(s, t, state) == [u \in DOMAIN s \union {t} |-> IF u = t THEN state ELSE s[u]]
Without(s, t) == [u \in DOMAIN s \ {t} |-> s[u]]

\* EnsureTargetState.
At(s, t) == IF t \in DOMAIN s THEN s[t] ELSE Fresh

RecordPendingTargetRequest(s, t) ==
  With(s, t, [At(s, t) EXCEPT !.outstanding = @ + 1])

IsActiveTarget(t) ==
  t \in listens /\ (t \in DOMAIN states => states[t].outstanding = 0)

AddDocumentChange(s, t, d, change) == With(s, t, [At(s, t) EXCEPT !.changes[d] = change])

AddDocumentToTarget(t, d) ==
  IF ~IsActiveTarget(t) THEN states
  ELSE AddDocumentChange(states, t, d, IF d \in synced[t] THEN "Modified" ELSE "Added")

\* Slip: a document that came and went is removed from the view all the same.
SlipRemoveDocumentFromTarget(t, d) ==
  IF ~IsActiveTarget(t) THEN states ELSE AddDocumentChange(states, t, d, "Removed")

RemoveDocumentFromTarget(t, d) ==
  IF ~IsActiveTarget(t) THEN states
  ELSE AddDocumentChange(states, t, d, IF d \in synced[t] THEN "Removed" ELSE "")

\* ResetTarget: the documents known go, unless the backend sends them again.
ResetState(t) ==
  [Fresh EXCEPT !.changes = [d \in Doc |-> IF d \in synced[t] THEN "Removed" ELSE ""]]

\* Slip: a target taken back in keeps the changes of its earlier life.
SlipTargetAdded(t) == With(states, t, [At(states, t) EXCEPT !.outstanding = @ - 1])

\* HandleTargetChange, ADD: the last answer awaited makes the target new again.
TargetAdded(t) ==
  LET state == [At(states, t) EXCEPT !.outstanding = @ - 1]
  IN With(states, t,
          IF state.outstanding = 0 THEN [state EXCEPT !.changes = Fresh.changes]
          ELSE state)

\* Slip: the state goes with the first REMOVE.
SlipTargetRemoved(t) == Without(states, t)

\* HandleTargetChange, REMOVE without a cause.
TargetRemoved(t) ==
  LET state == [At(states, t) EXCEPT !.outstanding = @ - 1]
  IN IF state.outstanding = 0 THEN Without(states, t) ELSE With(states, t, state)

Changed(t, change) == {d \in Doc : states[t].changes[d] = change}
CurrentCount(t) ==
  Cardinality(synced[t]) + Cardinality(Changed(t, "Added"))
    - Cardinality(Changed(t, "Removed"))
-----------------------------------------------------------------------------
(***************************************************************************)
(* Listening: SyncEngine, RemoteStore and LocalStore                       *)
(***************************************************************************)

Watch(t, tok) == [type |-> "Watch", target |-> t, token |-> tok]
Unwatch(t) == [type |-> "Unwatch", target |-> t, token |-> NoToken]

\* Listen: the view starts from the documents and the token in the LocalStore.
Listen(t) ==
  /\ t \notin listens /\ used.listens < MaxListens
  /\ listens' = listens \union {t}
  /\ resume' = [resume EXCEPT ![t] = token[t]]
  /\ IF open THEN /\ requests' = Append(requests, Watch(t, token[t]))
                  /\ states' = RecordPendingTargetRequest(states, t)
             ELSE UNCHANGED <<requests, states>>
  /\ Use("listens")
  /\ trust' = [trust EXCEPT ![t] = IF @ = "mending" \/ t \in resets THEN "misled" ELSE @]
  /\ UNCHANGED <<token, synced, current, open, resets, inbox, backend, overtaken>>

\* Slip: the view of a query nobody listens to stays.
SlipStopListening(t) ==
  /\ t \in listens
  /\ listens' = listens \ {t}
  /\ IF open THEN /\ requests' = Append(requests, Unwatch(t))
                  /\ states' = RecordPendingTargetRequest(states, t)
             ELSE UNCHANGED <<requests, states>>
  /\ UNCHANGED <<current, token, resume, synced, open, resets, inbox, backend, used,
                 history>>

\* StopListening: the view goes, its documents and token stay in the LocalStore.
StopListening(t) ==
  /\ t \in listens
  /\ listens' = listens \ {t} /\ current' = current \ {t}
  /\ IF open THEN /\ requests' = Append(requests, Unwatch(t))
                  /\ states' = RecordPendingTargetRequest(states, t)
             ELSE UNCHANGED <<requests, states>>
  /\ UNCHANGED <<token, resume, synced, open, resets, inbox, backend, used, history>>

\* The connection is lost, with everything under way; CleanUpWatchStreamState.
StreamClosed ==
  /\ open /\ used.closes < MaxCloses
  /\ open' = FALSE
  /\ states' = <<>> /\ resets' = {}
  /\ requests' = <<>> /\ inbox' = <<>> /\ serving' = {} /\ unsettled' = FALSE
  /\ overtaken' = {}
  /\ Use("closes")
  /\ UNCHANGED <<listens, token, resume, synced, current, matches, trust>>

\* OnWatchStreamOpen.
StreamOpened ==
  /\ ~open
  /\ open' = TRUE
  /\ \E q \in SetToSeqs(listens) :
       requests' = [i \in DOMAIN q |-> Watch(q[i], resume[q[i]])]
  /\ states' = [t \in listens |-> [Fresh EXCEPT !.outstanding = 1]]
  /\ UNCHANGED <<listens, token, resume, synced, current, resets, inbox, backend,
                 used, history>>
-----------------------------------------------------------------------------
(***************************************************************************)
(* OnWatchStreamChange, one action for each kind of response               *)
(***************************************************************************)

Arrives(type) == inbox # <<>> /\ Head(inbox).type = type /\ inbox' = Tail(inbox)
Msg == Head(inbox)

Aggregate(s) ==
  /\ states' = s
  /\ UNCHANGED <<listens, token, resume, synced, current, open, resets, requests,
                 backend, used, history>>

DocumentIn == Arrives("In") /\ Aggregate(AddDocumentToTarget(Msg.target, Msg.doc))
DocumentOut == Arrives("Out") /\ Aggregate(RemoveDocumentFromTarget(Msg.target, Msg.doc))
Added == Arrives("Added") /\ Aggregate(TargetAdded(Msg.target))
Removed == Arrives("Removed") /\ Aggregate(TargetRemoved(Msg.target))

Current ==
  /\ Arrives("Current")
  /\ Aggregate(IF IsActiveTarget(Msg.target)
                 THEN With(states, Msg.target,
                           [At(states, Msg.target) EXCEPT !.current = TRUE])
                 ELSE With(states, Msg.target, At(states, Msg.target)))

Reset ==
  /\ Arrives("Reset")
  /\ Aggregate(With(states, Msg.target,
                    IF IsActiveTarget(Msg.target) THEN ResetState(Msg.target)
                    ELSE At(states, Msg.target)))

\* HandleExistenceFilter, of a query: a wrong count resets the target, which the
\* next snapshot listens to again.
ExistenceFilter ==
  /\ Arrives("Filter")
  /\ LET t == Msg.target
         wrong == IsActiveTarget(t) /\ CurrentCount(t) # Msg.count
     IN /\ states' = IF wrong THEN With(states, t, ResetState(t)) ELSE states
        /\ resets' = IF wrong THEN resets \union {t} ELSE resets
  /\ UNCHANGED <<listens, token, resume, synced, current, open, requests, backend,
                 used, history>>

\* Slip: the token is kept for the listen that follows a mismatch.
SlipRelisten(t) == <<Unwatch(t), Watch(t, Msg.tokens[t])>>

\* The unwatch and the watch without a token for a target with a wrong count.
Relisten(t) == <<Unwatch(t), Watch(t, NoToken)>>

\* A mismatched target is mended by the listen that follows, which starts from
\* nothing, unless the user listens anew before that.  What it still shows then
\* (shown), and what a target rejected too early takes, is never put right.
Trusted(t, isRaised, isAgain, shown) ==
  IF (isRaised \/ isAgain) /\ (t \in overtaken \/ (isAgain /\ shown # {})) THEN "misled"
  ELSE IF isAgain /\ trust[t] = "sound" THEN "mending"
  ELSE IF isRaised /\ ~isAgain /\ trust[t] = "mending" THEN "sound"
  ELSE trust[t]

\* RaiseWatchSnapshot and ApplyRemoteEvent: every active target takes its changes
\* and the token of the snapshot, in RemoteStore and in LocalStore; then the
\* mismatched ones are listened to again, without a token in RemoteStore only.
\* The test that the snapshot is no older than the last one stored always holds:
\* this backend's moments only go forward, also over connections.
Snapshot ==
  /\ Arrives("Snapshot")
  /\ LET raised == {t \in DOMAIN states : IsActiveTarget(t)}
         again == resets \intersect listens
     IN /\ token' = [t \in Target |-> IF t \in raised THEN Msg.tokens[t] ELSE token[t]]
        /\ resume' = [t \in Target |-> IF t \in again THEN NoToken
                                       ELSE IF t \in raised THEN Msg.tokens[t]
                                       ELSE resume[t]]
        /\ synced' = [t \in Target |->
                        IF t \in raised
                          THEN (synced[t] \union Changed(t, "Added")) \ Changed(t, "Removed")
                          ELSE synced[t]]
        /\ current' = (current \ raised) \union {t \in raised : states[t].current}
        /\ states' = [t \in DOMAIN states \union again |->
                        [At(states, t) EXCEPT
                           !.changes = IF t \in raised THEN Fresh.changes ELSE @,
                           !.outstanding = IF t \in again THEN @ + 2 ELSE @]]
        /\ \E q \in SetToSeqs(again) :
             requests' = requests \o
               [i \in 1..2 * Len(q) |-> Relisten(q[(i + 1) \div 2])[2 - (i % 2)]]
        /\ trust' = [t \in Target |-> Trusted(t, t \in raised, t \in again, synced'[t])]
  /\ resets' = {}
  /\ UNCHANGED <<listens, open, backend, used, overtaken>>

\* ProcessTargetError: a target rejected is let go, unless it already was.
Rejected ==
  /\ Arrives("Rejected")
  /\ LET t == Msg.target
     IN IF t \in listens
          THEN /\ listens' = listens \ {t} /\ current' = current \ {t}
               /\ states' = Without(states, t)
               /\ overtaken' = IF At(states, t).outstanding = 1 THEN overtaken
                               ELSE overtaken \union {t}
          ELSE /\ overtaken' = overtaken \union {t}
               /\ UNCHANGED <<listens, current, states>>
  /\ UNCHANGED <<token, resume, synced, open, resets, requests, backend, used, trust>>
-----------------------------------------------------------------------------
(***************************************************************************)
(* The backend                                                             *)
(***************************************************************************)

Response(type, t) == [type |-> type, target |-> t]
Sent(type, t, ds) ==
  LET q == SetToSeq(ds) IN [i \in DOMAIN q |-> [type |-> type, target |-> t, doc |-> q[i]]]
Filter(t) == [type |-> "Filter", target |-> t, count |-> Cardinality(matches[t])]

\* The documents of a watched target: the difference since the token.
Since(t, tok) ==
  LET known == IF tok = NoToken THEN {} ELSE tok[1]
      left == known \ matches[t]
      news == <<Response("Added", t)>> \o Sent("In", t, matches[t] \ known)
      done == <<Response("Current", t)>>
  IN IF left = {} THEN {news \o done}
     ELSE {news \o Sent("Out", t, left) \o done,
           news \o <<Filter(t)>> \o done, news \o done \o <<Filter(t)>>}

BackendAnswers ==
  /\ requests # <<>>
  /\ requests' = Tail(requests)
  /\ LET t == Head(requests).target
     IN \/ /\ Head(requests).type = "Watch"
           /\ \E reply \in Since(t, Head(requests).token) : inbox' = inbox \o reply
           /\ serving' = serving \union {t} /\ unsettled' = TRUE
        \/ /\ Head(requests).type = "Watch"
           /\ inbox' = Append(inbox, Response("Rejected", t))
           /\ UNCHANGED <<serving, unsettled>>
        \/ /\ Head(requests).type = "Unwatch"
           /\ inbox' = Append(inbox, Response("Removed", t))
           /\ serving' = serving \ {t}
           /\ UNCHANGED unsettled
  /\ UNCHANGED <<client, matches, used, history>>

\* A document enters or leaves a target.
BackendChanges(t, d) ==
  /\ used.changes < MaxChanges
  /\ LET entered == d \notin matches[t]
     IN /\ matches' = [matches EXCEPT ![t] = IF entered THEN @ \union {d} ELSE @ \ {d}]
        /\ IF t \in serving /\ open
             THEN /\ inbox' = inbox \o Sent(IF entered THEN "In" ELSE "Out", t, {d})
                  /\ unsettled' = TRUE
             ELSE UNCHANGED <<inbox, unsettled>>
  /\ Use("changes")
  /\ UNCHANGED <<client, requests, serving, history>>

\* The backend starts a target over.
BackendResets(t) ==
  /\ t \in serving /\ used.changes < MaxChanges
  /\ inbox' = inbox \o <<Response("Reset", t)>> \o Sent("In", t, matches[t])
                \o <<Response("Current", t)>>
  /\ unsettled' = TRUE
  /\ Use("changes")
  /\ UNCHANGED <<client, requests, matches, serving, history>>

BackendSettles ==
  /\ unsettled
  /\ inbox' = Append(inbox, [type |-> "Snapshot", tokens |-> [t \in Target |-> Token(matches[t])]])
  /\ unsettled' = FALSE
  /\ UNCHANGED <<client, requests, matches, serving, used, history>>

Receive ==
  \/ DocumentIn \/ DocumentOut \/ Added \/ Removed \/ Current \/ Reset
  \/ ExistenceFilter \/ Snapshot \/ Rejected

Next ==
  \/ \E t \in Target : Listen(t) \/ StopListening(t) \/ BackendResets(t)
  \/ \E t \in Target, d \in Doc : BackendChanges(t, d)
  \/ StreamClosed \/ StreamOpened
  \/ Receive
  \/ BackendAnswers \/ BackendSettles

Spec == Init /\ [][Next]_vars

\* The backend answers, the client reads, and a lost connection is made again.
FairSpec ==
  /\ Spec
  /\ WF_vars(BackendAnswers) /\ WF_vars(BackendSettles)
  /\ WF_vars(Receive) /\ WF_vars(StreamOpened)
-----------------------------------------------------------------------------
(***************************************************************************)
(* Properties                                                              *)
(***************************************************************************)

\* A view that counts as current shows the backend's documents at the moment of
\* its token, through every order of listens, answers, resets, filters and lost
\* connections: also again after a mismatch, if the user does not listen anew
\* before it is mended.
CurrentIsBackendState ==
  \A t \in current : trust[t] = "sound" => token[t] = Token(synced[t])

\* The answers a target waits for are exactly those on their way, so that no
\* response of an earlier listen is taken for one of the present listen.
Count(s, M) == Cardinality({i \in DOMAIN s : s[i] \in M})
Asked(t) == [type : {"Watch", "Unwatch"}, target : {t}, token : Tokens]
Answered(t) == [type : {"Added", "Removed", "Rejected"}, target : {t}]
Answers(t) == Count(requests, Asked(t)) + Count(inbox, Answered(t))
OutstandingIsOwed ==
  \A t \in Target \ overtaken : open => At(states, t).outstanding = Answers(t)

\* What is about to be applied fits the view it goes to: the assertion of view.cc
\* on modified documents, and that a removal removes something.
ChangesFitView ==
  \A t \in DOMAIN states : IsActiveTarget(t) => \A d \in Doc :
    /\ states[t].changes[d] \in {"Modified", "Removed"} => d \in synced[t]
    /\ states[t].changes[d] = "Added" => d \notin synced[t]

\* A target that is listened to for good is brought up to date or rejected.
Settled(t) == t \in current /\ synced[t] = matches[t]
EveryTargetSettles ==
  \A t \in Target :
    (t \in listens) ~> (Settled(t) \/ t \notin listens \/ t \in overtaken \/ trust[t] = "misled")

\* What the aggregator's books must be for the views to be right: the answers it
\* waits for are those to come, and what it raises fits the view.
AggregatorSafety == WatchTypeOK /\ OutstandingIsOwed /\ ChangesFitView
=============================================================================
