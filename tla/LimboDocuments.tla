---------------------------- MODULE LimboDocuments ----------------------------
(***************************************************************************)
(* How SyncEngine and View decide that what a query shows is what the      *)
(* backend says.  A document the local cache holds for a query although    *)
(* the backend does not list it there is in limbo: it is asked for by a    *)
(* listen of its own, and until it is settled the view is not synced and   *)
(* getDocuments waits.  All views share one cache, so what one target or   *)
(* one limbo listen brings changes the others.                             *)
(*                                                                         *)
(* A document is what matters of its contents, the targets whose query it  *)
(* matches; the empty set is a document deleted, or matching none.  The    *)
(* app never writes, so documents have no local mutations.  The messages   *)
(* of the watch stream are those WatchTargets lets through: each brings    *)
(* one target some of what the backend owes it, and may mark it current    *)
(* when nothing is owed.                                                   *)
(***************************************************************************)
EXTENDS Naturals, FiniteSets

CONSTANTS
  Target,               \* query targets, one query each
  Doc,                  \* document keys
  MaxEvents             \* bound: changes on the backend, and documents it refuses

ASSUME BoundsAssumption == MaxEvents \in Nat

VARIABLES
  backend,              \* the targets each document matches on the backend
  cache,                \* and according to the local copy
  owed,                 \* per target, the documents the backend has news of
  listened,             \* targets of SyncEngine::query_views_by_query_
  synced,               \* View::synced_documents_, and the persisted keys
  limbo,                \* View::limbo_documents_
  current,              \* the targets whose View::current_ is set
  refs,                 \* SyncEngine::limbo_document_refs_
  sought,               \* the keys of SyncEngine::limbo_targets_by_key_
  online,               \* whether the watch stream is up
  changes,              \* how often the backend has changed
  refused               \* documents whose limbo listen was refused (history)

serverVars == <<backend, changes>>
viewVars   == <<cache, synced, limbo, current, refs, sought>>
vars == <<serverVars, owed, viewVars, listened, online, refused>>

RoomLeft == changes + Cardinality(refused) < MaxEvents

(***************************************************************************)
(* The documents of the view of t, View::document_set_: every change of    *)
(* the cache is passed to every view, so they are those of the cache.      *)
(***************************************************************************)
Documents(t, docs) == {d \in Doc : t \in docs[d]}

\* View::sync_state_: synced, the view's snapshots say from_cache = false.
Synced(t) == t \in listened /\ t \in current /\ limbo[t] = {}

(***************************************************************************)
(* An earlier run of the app has left some documents and, for each target, *)
(* the keys it had; the backend has moved on and owes each target what     *)
(* changed since.                                                          *)
(***************************************************************************)
Init ==
  /\ backend \in [Doc -> SUBSET Target]
  /\ cache \in [Doc -> SUBSET Target]
  /\ synced \in [Target -> SUBSET Doc]
  /\ \A t \in Target : synced[t] \subseteq Documents(t, cache)
  /\ owed = [t \in Target |-> {d \in Doc : \/ (d \in synced[t]) # (t \in backend[d])
                                           \/ d \in synced[t] /\ cache[d] # backend[d]}]
  /\ listened = {} /\ limbo = [t \in Target |-> {}] /\ current = {}
  /\ refs = {} /\ sought = {}
  /\ online = TRUE
  /\ changes = 0 /\ refused = {}

-----------------------------------------------------------------------------
\* A slip: the keys of any target take a document out of limbo.
SlipLimboAfter(t, docs, keys, curr) ==
  IF t \in listened /\ t \in curr
  THEN Documents(t, docs) \ UNION {keys[u] : u \in Target} ELSE limbo[t]

(***************************************************************************)
(* View::UpdateLimboDocuments: only a view that is current can tell what   *)
(* is in limbo; one that is not keeps the set it had.                      *)
(***************************************************************************)
LimboAfter(t, docs, keys, curr) ==
  IF t \in listened /\ t \in curr THEN Documents(t, docs) \ keys[t] ELSE limbo[t]

\* A slip: a listen is left running when its last reference goes.
SlipEmitNewSnapshots(docs, keys, curr, listens) ==
  LET after == [t \in Target |-> LimboAfter(t, docs, keys, curr)]
      now   == {r \in Doc \X Target : r[1] \in after[r[2]]}
  IN /\ cache' = docs /\ synced' = keys /\ current' = curr
     /\ limbo' = after
     /\ refs' = now
     /\ sought' = listens \union {r[1] : r \in now \ refs}

(***************************************************************************)
(* SyncEngine::EmitNewSnapshotsAndNotifyLocalStore: every view takes the   *)
(* new documents, keys and flag, and the limbo documents it gains and      *)
(* loses are tracked.  A listen is made for a key that gets a reference    *)
(* and has no listen, and stopped when the last reference goes; listens    *)
(* are those under way.                                                    *)
(***************************************************************************)
EmitNewSnapshots(docs, keys, curr, listens) ==
  LET after   == [t \in Target |-> LimboAfter(t, docs, keys, curr)]
      added   == {r \in Doc \X Target : r[1] \in after[r[2]] \ limbo[r[2]]}
      removed == {r \in Doc \X Target : r[1] \in limbo[r[2]] \ after[r[2]]}
      left    == (refs \union added) \ removed
      settled == {r[1] : r \in removed} \ {r[1] : r \in left}
  IN /\ cache' = docs /\ synced' = keys /\ current' = curr
     /\ limbo' = after
     /\ refs' = left
     /\ sought' = (listens \union {r[1] : r \in added}) \ settled

\* A slip: every limbo listen of the target is stopped, shared or not.
SlipRemoveAndCleanupTarget(t) ==
  /\ listened' = listened \ {t}
  /\ current' = current \ {t}
  /\ limbo' = [limbo EXCEPT ![t] = {}]
  /\ refs' = {r \in refs : r[2] # t}
  /\ sought' = sought \ {r[1] : r \in {r \in refs : r[2] = t}}
  /\ UNCHANGED <<serverVars, cache, owed, synced, online, refused>>

\* A slip: the target's references are forgotten about.
SlipKeepReferences(t) ==
  /\ listened' = listened \ {t}
  /\ current' = current \ {t}
  /\ limbo' = [limbo EXCEPT ![t] = {}]
  /\ UNCHANGED <<serverVars, cache, owed, synced, refs, sought, online, refused>>

(***************************************************************************)
(* SyncEngine::RemoveAndCleanupTarget, for a target no longer listened to  *)
(* or rejected: its references go, and the listens nobody refers to.  The  *)
(* target's keys stay in the local store for the next listen.              *)
(***************************************************************************)
RemoveAndCleanupTarget(t) ==
  LET left == {r \in refs : r[2] # t}
  IN /\ listened' = listened \ {t}
     /\ current' = current \ {t}
     /\ limbo' = [limbo EXCEPT ![t] = {}]
     /\ refs' = left
     /\ sought' = sought \ ({r[1] : r \in refs \ left} \ {r[1] : r \in left})
     /\ UNCHANGED <<serverVars, cache, owed, synced, online, refused>>

\* Listen: a new view over the cache and the keys of the local store.
Listen(t) ==
  /\ t \notin listened
  /\ listened' = listened \union {t}
  /\ UNCHANGED <<serverVars, owed, viewVars, online, refused>>

StopListening(t) == t \in listened /\ RemoveAndCleanupTarget(t)

\* HandleRejectedListen of a query's target; its listeners get the error.
RejectQuery(t) == t \in listened /\ online /\ RemoveAndCleanupTarget(t)

(***************************************************************************)
(* ApplyRemoteEvent for a query's target.  The backend brings the news of  *)
(* the documents in ds: it sends those that match, and removes the others  *)
(* it had sent, those in silent without saying what became of them.        *)
(***************************************************************************)
ApplyRemoteEvent(t, ds, silent, mark) ==
  LET sent == ds \intersect Documents(t, backend)
      gone == (ds \ sent) \intersect synced[t]
      told == sent \union (gone \ silent)
  IN /\ t \in listened /\ online
     /\ owed' = [owed EXCEPT ![t] = @ \ ds]
     /\ EmitNewSnapshots([d \in Doc |-> IF d \in told THEN backend[d] ELSE cache[d]],
                         [synced EXCEPT ![t] = (@ \union sent) \ gone],
                         IF mark THEN current \union {t} ELSE current, sought)
     /\ UNCHANGED <<serverVars, listened, online, refused>>

RemoteEvent(t) ==
  \E ds \in SUBSET owed[t] :
    \E silent \in SUBSET ((ds \intersect synced[t]) \ Documents(t, backend)),
       mark \in IF ds = owed[t] /\ t \notin current THEN BOOLEAN ELSE {FALSE} :
      /\ ds # {} \/ mark
      /\ ApplyRemoteEvent(t, ds, silent, mark)

\* All that is owed at once, which makes the view current.
CatchUp(t) ==
  /\ t \notin current \/ owed[t] # {}
  /\ ApplyRemoteEvent(t, owed[t], {}, TRUE)

(***************************************************************************)
(* An existence filter that does not match: the target's keys, if it has   *)
(* any, are reset, the view is not current and the backend sends           *)
(* everything again.                                                       *)
(***************************************************************************)
ExistenceFilterMismatch(t) ==
  /\ t \in listened /\ online
  /\ owed' = [owed EXCEPT ![t] = Doc]
  /\ EmitNewSnapshots(cache, [synced EXCEPT ![t] = {}], current \ {t}, sought)
  /\ UNCHANGED <<serverVars, listened, online, refused>>

(***************************************************************************)
(* The answer to a limbo listen: the document as it is, or its target      *)
(* current without it, for which CreateRemoteEvent makes up a delete.      *)
(***************************************************************************)
LimboAnswered(d) ==
  /\ d \in sought /\ online
  /\ cache[d] # backend[d]
  /\ EmitNewSnapshots([cache EXCEPT ![d] = backend[d]], synced, current, sought)
  /\ UNCHANGED <<serverVars, owed, listened, online, refused>>

(***************************************************************************)
(* HandleRejectedListen of a limbo target: it is taken off the books and   *)
(* a delete is made up, which drops the document from the cache and from   *)
(* every view, its reference with it where the view is current.            *)
(***************************************************************************)
HandleRejectedLimbo(d) ==
  /\ d \in sought /\ online
  /\ d \in refused \/ RoomLeft
  /\ refused' = refused \union {d}
  /\ EmitNewSnapshots([cache EXCEPT ![d] = {}], synced, current, sought \ {d})
  /\ UNCHANGED <<serverVars, owed, listened, online>>

-----------------------------------------------------------------------------
(***************************************************************************)
(* HandleOnlineStateChange: offline, no view is current any more; the      *)
(* limbo documents are left as they are.                                   *)
(***************************************************************************)
GoesOffline ==
  /\ online
  /\ online' = FALSE
  /\ current' = {}
  /\ UNCHANGED <<serverVars, cache, owed, listened, synced, limbo, refs, sought, refused>>

ComesOnline ==
  /\ ~online
  /\ online' = TRUE
  /\ UNCHANGED <<serverVars, owed, viewVars, listened, refused>>

\* A document changes on the backend, which owes the news to the targets it is of.
BackendChanges(d) ==
  /\ RoomLeft
  /\ changes' = changes + 1
  /\ \E matches \in SUBSET Target \ {backend[d]} :
       /\ backend' = [backend EXCEPT ![d] = matches]
       /\ owed' = [t \in Target |-> IF t \in backend[d] \union matches
                                    THEN owed[t] \union {d} ELSE owed[t]]
  /\ UNCHANGED <<viewVars, listened, online, refused>>

Next ==
  \/ \E t \in Target : \/ Listen(t) \/ StopListening(t) \/ RejectQuery(t)
                       \/ RemoteEvent(t) \/ ExistenceFilterMismatch(t)
  \/ \E d \in Doc : LimboAnswered(d) \/ HandleRejectedLimbo(d) \/ BackendChanges(d)
  \/ GoesOffline \/ ComesOnline

Spec == Init /\ [][Next]_vars

(***************************************************************************)
(* The connection comes back, and one that keeps coming back is up for     *)
(* long enough that the backend brings a target up to date and answers a   *)
(* limbo listen (WatchTargets, EveryTargetSettles).                        *)
(***************************************************************************)
FairSpec ==
  /\ Spec
  /\ WF_vars(ComesOnline)
  /\ \A t \in Target : SF_vars(CatchUp(t))
  /\ \A d \in Doc : SF_vars(LimboAnswered(d))

-----------------------------------------------------------------------------
LimboTypeOK ==
  /\ backend \in [Doc -> SUBSET Target] /\ cache \in [Doc -> SUBSET Target]
  /\ owed \in [Target -> SUBSET Doc] /\ synced \in [Target -> SUBSET Doc]
  /\ limbo \in [Target -> SUBSET Doc]
  /\ current \subseteq listened /\ listened \subseteq Target
  /\ refs \subseteq Doc \X listened /\ sought \subseteq Doc
  /\ online \in BOOLEAN /\ changes \in 0..MaxEvents /\ refused \subseteq Doc

(***************************************************************************)
(* The references are exactly the limbo documents of the views, and no     *)
(* limbo listen outlives the last of them: views that share a document     *)
(* share its listen, whichever of them leaves first.                       *)
(***************************************************************************)
ListensAreReferenced ==
  /\ refs = {r \in Doc \X listened : r[1] \in limbo[r[2]]}
  /\ sought \subseteq {r[1] : r \in refs}

(***************************************************************************)
(* A document in limbo is being asked for, unless the backend has refused  *)
(* to tell: without a listen nothing would ever settle it, and its view    *)
(* would never be synced.                                                  *)
(***************************************************************************)
LimboIsSought == \A r \in refs : r[1] \in sought \union refused

(***************************************************************************)
(* A synced view shows what the backend lists for its query: it differs    *)
(* only in documents the backend has yet to tell its target about, or      *)
(* whose limbo listen was refused and which are gone from the shared       *)
(* cache.  It is what an answer that is not from cache relies on.          *)
(***************************************************************************)
SyncedIsTrue ==
  \A t \in Target : Synced(t) =>
    \A d \in Doc \ (owed[t] \union refused) : t \in cache[d] <=> t \in backend[d]

(***************************************************************************)
(* A view that is listened to is synced in the end, unless it is left      *)
(* before, or holds in limbo a document the backend has refused: such a    *)
(* document may be left without a listen for good (see LimboIsSought).     *)
(***************************************************************************)
EveryViewSyncs ==
  \A t \in Target :
    (t \in listened) ~> (Synced(t) \/ t \notin listened \/ limbo[t] \intersect refused # {})

\* The books of the limbo documents: views that share a document share its listen,
\* none is without one unless refused, and none outlives its views.
LimboSafety == LimboTypeOK /\ ListensAreReferenced /\ LimboIsSought
=============================================================================
