-------------------------- MODULE LimboDocumentsProofs --------------------------
(***************************************************************************)
(* Proofs about LimboDocuments, for any targets and documents and any      *)
(* number of changes: the books of the limbo documents agree, and a synced *)
(* view shows what the backend lists.                                      *)
(***************************************************************************)
EXTENDS LimboDocuments, FiniteSetTheorems, TLAPS

Types ==
  /\ backend \in [Doc -> SUBSET Target] /\ cache \in [Doc -> SUBSET Target]
  /\ owed \in [Target -> SUBSET Doc] /\ synced \in [Target -> SUBSET Doc]
  /\ limbo \in [Target -> SUBSET Doc]
  /\ current \subseteq listened /\ listened \subseteq Target
  /\ online \in BOOLEAN /\ changes \in 0..MaxEvents
  /\ refused \subseteq Doc /\ IsFiniteSet(refused)

\* The references are the limbo documents of all views; a target nothing listens
\* to has none.
Books ==
  /\ \A t \in Target \ listened : limbo[t] = {}
  /\ refs = {r \in Doc \X Target : r[1] \in limbo[r[2]]}
  /\ \A d \in sought : d \in Doc /\ \E t \in Target : d \in limbo[t]
  /\ \A t \in Target : limbo[t] \subseteq sought \union refused

\* A current view knows exactly what is in limbo.
CurrentKnowsLimbo == \A t \in current : limbo[t] = Documents(t, cache) \ synced[t]

(***************************************************************************)
(* The keys of a target, listened to or not, are what the backend lists    *)
(* for it, and the shared cache holds their documents, but for those the   *)
(* backend owes it news of, and in the cache those that were refused.      *)
(***************************************************************************)
KeysAreListed ==
  \A t \in Target : \A d \in Doc \ owed[t] :
    /\ d \in synced[t] <=> t \in backend[d]
    /\ d \in synced[t] /\ d \notin refused => t \in cache[d]

IInv == Types /\ Books /\ CurrentKnowsLimbo /\ KeysAreListed
-----------------------------------------------------------------------------
(***************************************************************************)
(* EmitNewSnapshots, with a listen taken off the books or not              *)
(***************************************************************************)

\* The documents of a set of references.
LEMMA FirstOfReferences ==
  ASSUME NEW R, R \subseteq Doc \X Target, NEW d
  PROVE  d \in {r[1] : r \in R} <=> \E t \in Target : <<d, t>> \in R
<1>1. ASSUME NEW r \in R, r[1] = d PROVE \E t \in Target : <<d, t>> \in R
  <2>1. r = <<d, r[2]>> /\ r[2] \in Target
    BY <1>1
  <2> QED
    BY <2>1
<1>2. ASSUME NEW t \in Target, <<d, t>> \in R PROVE d \in {r[1] : r \in R}
  <2>1. <<d, t>>[1] = d
    OBVIOUS
  <2> QED
    BY <1>2, <2>1
<1> QED
  BY <1>1, <1>2

\* The limbo documents of every view are tracked.
LEMMA EmitKeepsBooks ==
  ASSUME IInv, NEW docs \in [Doc -> SUBSET Target], NEW keys \in [Target -> SUBSET Doc],
         NEW curr \in SUBSET listened, NEW listens \in SUBSET sought,
         listened' = listened, refused \subseteq refused', sought \ listens \subseteq refused',
         EmitNewSnapshots(docs, keys, curr, listens)
  PROVE  /\ cache' = docs /\ synced' = keys /\ current' = curr
         /\ limbo' \in [Target -> SUBSET Doc]
         /\ Books' /\ CurrentKnowsLimbo'
<1> DEFINE after   == [t \in Target |-> LimboAfter(t, docs, keys, curr)]
           added   == {r \in Doc \X Target : r[1] \in after[r[2]] \ limbo[r[2]]}
           removed == {r \in Doc \X Target : r[1] \in limbo[r[2]] \ after[r[2]]}
           left    == (refs \union added) \ removed
           settled == {r[1] : r \in removed} \ {r[1] : r \in left}
<1>1. /\ cache' = docs /\ synced' = keys /\ current' = curr
      /\ limbo' = after /\ refs' = left
      /\ sought' = (listens \union {r[1] : r \in added}) \ settled
  BY DEF EmitNewSnapshots
<1>2. /\ limbo' \in [Target -> SUBSET Doc]
      /\ \A t \in Target : limbo'[t] = LimboAfter(t, docs, keys, curr)
  BY <1>1 DEF IInv, Types, LimboAfter, Documents
<1>3. \A t \in Target \ listened' : limbo'[t] = {}
  BY <1>2 DEF LimboAfter, IInv, Books
<1>4. CurrentKnowsLimbo'
  BY <1>1, <1>2 DEF CurrentKnowsLimbo, LimboAfter, IInv, Types
<1> HIDE DEF after
<1>5. refs' = {r \in Doc \X Target : r[1] \in limbo'[r[2]]}
  BY <1>1 DEF IInv, Books
<1>6. /\ \A d : d \in {r[1] : r \in added} <=> \E t \in Target : d \in after[t] \ limbo[t] /\ d \in Doc
      /\ \A d : d \in {r[1] : r \in removed} <=> \E t \in Target : d \in limbo[t] \ after[t] /\ d \in Doc
  <2>1. added \subseteq Doc \X Target /\ removed \subseteq Doc \X Target
    OBVIOUS
  <2>2. \A d, t : <<d, t>> \in added <=> d \in Doc /\ t \in Target /\ d \in after[t] \ limbo[t]
    OBVIOUS
  <2>3. \A d, t : <<d, t>> \in removed <=> d \in Doc /\ t \in Target /\ d \in limbo[t] \ after[t]
    OBVIOUS
  <2> HIDE DEF added, removed, after
  <2>4. ASSUME NEW d
        PROVE  d \in {r[1] : r \in added} <=> \E t \in Target : d \in after[t] \ limbo[t] /\ d \in Doc
    <3>1. d \in {r[1] : r \in added} <=> \E t \in Target : <<d, t>> \in added
      BY <2>1, FirstOfReferences
    <3>2. (\E t \in Target : <<d, t>> \in added) <=> \E t \in Target : d \in after[t] \ limbo[t] /\ d \in Doc
      BY ONLY <2>2
    <3> QED
      BY ONLY <3>1, <3>2
  <2>5. ASSUME NEW d
        PROVE  d \in {r[1] : r \in removed} <=> \E t \in Target : d \in limbo[t] \ after[t] /\ d \in Doc
    <3>1. d \in {r[1] : r \in removed} <=> \E t \in Target : <<d, t>> \in removed
      BY <2>1, FirstOfReferences
    <3>2. (\E t \in Target : <<d, t>> \in removed) <=> \E t \in Target : d \in limbo[t] \ after[t] /\ d \in Doc
      BY ONLY <2>3
    <3> QED
      BY ONLY <3>1, <3>2
  <2> QED
    BY <2>4, <2>5
<1>7. \A d : d \in {r[1] : r \in left} <=> \E t \in Target : d \in after[t] /\ d \in Doc
  <2>1. left \subseteq Doc \X Target
    BY <1>1, <1>5
  <2>2. \A d, t : <<d, t>> \in left <=> d \in Doc /\ t \in Target /\ d \in after[t]
    BY <1>1, <1>5
  <2> HIDE DEF left
  <2> QED
    BY <2>1, <2>2, FirstOfReferences
<1> HIDE DEF added, removed, left
<1>8. \A d \in sought' : d \in Doc /\ \E t \in Target : d \in limbo'[t]
  <2> SUFFICES ASSUME NEW d \in sought' PROVE d \in Doc /\ \E t \in Target : d \in after[t]
    BY <1>1
  <2>1. CASE d \in listens
    <3>1. PICK t \in Target : d \in limbo[t] /\ d \in Doc
      BY <2>1 DEF IInv, Books
    <3>2. d \notin after[t] => d \in {r[1] : r \in removed}
      BY <1>6, <3>1
    <3> QED
      BY <1>1, <1>7, <3>1, <3>2
  <2>2. CASE d \notin listens
    BY <1>1, <1>6, <2>2
  <2> QED
    BY <2>1, <2>2
<1>9. ASSUME NEW t \in Target, NEW d \in limbo'[t], d \notin refused' PROVE d \in sought'
  <2>1. d \in Doc /\ d \in after[t] /\ d \notin settled
    BY <1>1, <1>2, <1>7, <1>9
  <2>2. CASE d \in limbo[t]
    BY <1>1, <1>9, <2>1, <2>2 DEF IInv, Books
  <2>3. CASE d \notin limbo[t]
    BY <1>1, <1>6, <2>1, <2>3
  <2> QED
    BY <2>2, <2>3
<1> QED
  BY <1>1, <1>2, <1>3, <1>4, <1>5, <1>8, <1>9 DEF Books

\* A step that emits snapshots: what is left to show is what it makes of the keys.
LEMMA EmitKeepsIInv ==
  ASSUME IInv, NEW docs \in [Doc -> SUBSET Target], NEW keys \in [Target -> SUBSET Doc],
         NEW curr \in SUBSET listened, NEW listens \in SUBSET sought,
         EmitNewSnapshots(docs, keys, curr, listens),
         UNCHANGED <<backend, changes, listened, online>>,
         refused \subseteq refused', sought \ listens \subseteq refused',
         refused' \subseteq Doc, IsFiniteSet(refused'), owed' \in [Target -> SUBSET Doc],
         \A t \in Target : \A d \in Doc \ owed'[t] :
           /\ d \in keys[t] <=> t \in backend[d]
           /\ d \in keys[t] /\ d \notin refused' => t \in docs[d]
  PROVE  IInv'
<1>1. /\ cache' = docs /\ synced' = keys /\ current' = curr
      /\ limbo' \in [Target -> SUBSET Doc]
      /\ Books' /\ CurrentKnowsLimbo'
  BY EmitKeepsBooks
<1>2. Types'
  BY <1>1 DEF IInv, Types
<1>3. KeysAreListed'
  BY <1>1 DEF KeysAreListed
<1> QED
  BY <1>1, <1>2, <1>3 DEF IInv
-----------------------------------------------------------------------------
(***************************************************************************)
(* The steps                                                               *)
(***************************************************************************)

\* What an earlier run left agrees with the invariant: the backend owes every
\* target what its keys and their documents lack.
LEMMA InitIInv == Init => IInv
<1> SUFFICES ASSUME Init PROVE IInv
  OBVIOUS
<1>1. Types
  BY FS_EmptySet, BoundsAssumption DEF Init, Types
<1>2. Books /\ CurrentKnowsLimbo
  BY DEF Init, Books, CurrentKnowsLimbo
<1>3. KeysAreListed
  <2> SUFFICES ASSUME NEW t \in Target, NEW d \in Doc, d \notin owed[t]
               PROVE  /\ d \in synced[t] <=> t \in backend[d]
                      /\ d \in synced[t] => t \in cache[d]
    BY DEF KeysAreListed
  <2>1. (d \in synced[t]) = (t \in backend[d])
    BY DEF Init
  <2>2. d \in synced[t] => d \in Documents(t, cache)
    BY DEF Init
  <2> QED
    BY <2>1, <2>2 DEF Documents
<1> QED
  BY <1>1, <1>2, <1>3 DEF IInv

\* A target that goes takes its references along, and only the listens no other
\* view refers to.
LEMMA RemoveAndCleanupTargetStep ==
  ASSUME IInv, NEW t \in listened, RemoveAndCleanupTarget(t)
  PROVE  IInv'
<1> DEFINE left == {r \in refs : r[2] # t}
<1>1. /\ listened' = listened \ {t} /\ current' = current \ {t}
      /\ limbo' = [limbo EXCEPT ![t] = {}] /\ refs' = left
      /\ sought' = sought \ ({r[1] : r \in refs \ left} \ {r[1] : r \in left})
      /\ UNCHANGED <<backend, changes, cache, owed, synced, online, refused>>
      /\ t \in Target
  BY DEF RemoveAndCleanupTarget, serverVars, IInv, Types
<1>2. limbo' \in [Target -> SUBSET Doc] /\ limbo'[t] = {}
      /\ \A u \in Target : u # t => limbo'[u] = limbo[u]
  BY <1>1 DEF IInv, Types
<1>3. refs = {r \in Doc \X Target : r[1] \in limbo[r[2]]}
  BY DEF IInv, Books
<1>4. refs' = {r \in Doc \X Target : r[1] \in limbo'[r[2]]}
  <2>1. \A r \in Doc \X Target : r \in left <=> r[1] \in limbo'[r[2]]
    BY <1>2, <1>3
  <2> QED
    BY <1>1, <1>3, <2>1
<1>5. \A d :
         /\ d \in {r[1] : r \in left} <=> d \in Doc /\ \E u \in Target : d \in limbo'[u]
         /\ d \in {r[1] : r \in refs \ left} <=> d \in Doc /\ d \in limbo[t]
  <2>1. left \subseteq Doc \X Target /\ (refs \ left) \subseteq Doc \X Target
    BY <1>3
  <2>2. \A d, u : <<d, u>> \in left <=> d \in Doc /\ u \in Target /\ d \in limbo'[u]
    BY <1>1, <1>4
  <2>3. \A d, u : <<d, u>> \in refs \ left <=> d \in Doc /\ u \in Target /\ d \in limbo[u] /\ u = t
    BY <1>3
  <2> HIDE DEF left
  <2>4. ASSUME NEW d PROVE d \in {r[1] : r \in left} <=> d \in Doc /\ \E u \in Target : d \in limbo'[u]
    <3>1. d \in {r[1] : r \in left} <=> \E u \in Target : <<d, u>> \in left
      BY <2>1, FirstOfReferences
    <3> QED
      BY <2>2, <3>1
  <2>5. ASSUME NEW d PROVE d \in {r[1] : r \in refs \ left} <=> d \in Doc /\ d \in limbo[t]
    <3>1. d \in {r[1] : r \in refs \ left} <=> \E u \in Target : <<d, u>> \in refs \ left
      BY <2>1, FirstOfReferences
    <3> QED
      BY <1>1, <2>3, <3>1
  <2> QED
    BY <2>4, <2>5
<1> HIDE DEF left
<1>6. \A d \in sought' : d \in Doc /\ \E u \in Target : d \in limbo'[u]
  BY <1>1, <1>2, <1>5 DEF IInv, Books
<1>7. \A u \in Target : limbo'[u] \subseteq sought' \union refused'
  <2> SUFFICES ASSUME NEW u \in Target, NEW d \in limbo'[u], d \notin refused PROVE d \in sought'
    BY <1>1
  <2>1. u # t /\ d \in limbo[u] /\ d \in sought /\ d \in Doc
    BY <1>2 DEF IInv, Books, Types
  <2> QED
    BY <1>1, <1>5, <2>1
<1>8. Books'
  BY <1>1, <1>2, <1>4, <1>6, <1>7 DEF IInv, Books
<1>9. Types' /\ KeysAreListed'
  BY <1>1, <1>2 DEF IInv, Types, KeysAreListed
<1>10. CurrentKnowsLimbo'
  BY <1>1, <1>2 DEF IInv, Types, CurrentKnowsLimbo
<1> QED
  BY <1>8, <1>9, <1>10 DEF IInv

\* A new view has nothing in limbo yet.
LEMMA ListenStep ==
  ASSUME IInv, NEW t \in Target, Listen(t)
  PROVE  IInv'
BY DEF IInv, Types, Books, CurrentKnowsLimbo, KeysAreListed, Listen, serverVars, viewVars

\* What the backend brings makes the keys right for the documents it is about; a
\* document removed in silence is no longer a key, whatever the cache says of it.
LEMMA ApplyRemoteEventStep ==
  ASSUME IInv, NEW t \in Target, NEW ds \in SUBSET owed[t],
         NEW silent \in SUBSET ((ds \intersect synced[t]) \ Documents(t, backend)),
         NEW mark \in BOOLEAN, ApplyRemoteEvent(t, ds, silent, mark)
  PROVE  IInv'
<1> DEFINE sent == ds \intersect Documents(t, backend)
           gone == (ds \ sent) \intersect synced[t]
           told == sent \union (gone \ silent)
           docs == [d \in Doc |-> IF d \in told THEN backend[d] ELSE cache[d]]
           keys == [synced EXCEPT ![t] = (@ \union sent) \ gone]
           curr == IF mark THEN current \union {t} ELSE current
<1>1. /\ t \in listened
      /\ owed' = [owed EXCEPT ![t] = @ \ ds]
      /\ EmitNewSnapshots(docs, keys, curr, sought)
      /\ UNCHANGED <<backend, changes, listened, online, refused>>
  BY DEF ApplyRemoteEvent, serverVars
<1>2. /\ docs \in [Doc -> SUBSET Target] /\ curr \in SUBSET listened
      /\ keys \in [Target -> SUBSET Doc] /\ owed' \in [Target -> SUBSET Doc]
      /\ refused' \subseteq Doc /\ IsFiniteSet(refused')
  BY <1>1 DEF IInv, Types, Documents
<1>3. ASSUME NEW u \in Target, NEW d \in Doc, d \notin owed'[u]
      PROVE  /\ d \in keys[u] <=> u \in backend[d]
             /\ d \in keys[u] /\ d \notin refused' => u \in docs[d]
  <2>1. d \in keys[u] <=> u \in backend[d]
    <3>1. CASE u = t /\ d \in ds
      BY <3>1 DEF IInv, Types, Documents
    <3>2. CASE u # t \/ d \notin ds
      BY <1>1, <1>3, <3>2 DEF IInv, Types, KeysAreListed, Documents
    <3> QED
      BY <3>1, <3>2
  <2>2. CASE d \in told
    BY <2>1, <2>2
  <2>3. CASE d \notin told
    <3>1. d \in keys[u] => d \in synced[u] /\ d \notin owed[u]
      BY <1>1, <1>3, <2>3 DEF IInv, Types
    <3> QED
      BY <1>1, <2>1, <2>3, <3>1 DEF IInv, KeysAreListed
  <2> QED
    BY <2>1, <2>2, <2>3
<1> HIDE DEF docs, keys, curr
<1> QED
  BY <1>1, <1>2, <1>3, EmitKeepsIInv

\* A mismatch drops the keys, and the backend owes everything again.
LEMMA ExistenceFilterMismatchStep ==
  ASSUME IInv, NEW t \in Target, ExistenceFilterMismatch(t)
  PROVE  IInv'
<1> DEFINE keys == [synced EXCEPT ![t] = {}]
<1>1. /\ owed' = [owed EXCEPT ![t] = Doc]
      /\ EmitNewSnapshots(cache, keys, current \ {t}, sought)
      /\ UNCHANGED <<backend, changes, listened, online, refused>>
  BY DEF ExistenceFilterMismatch, serverVars
<1>2. /\ cache \in [Doc -> SUBSET Target] /\ (current \ {t}) \in SUBSET listened
      /\ keys \in [Target -> SUBSET Doc] /\ owed' \in [Target -> SUBSET Doc]
      /\ refused' \subseteq Doc /\ IsFiniteSet(refused')
  BY <1>1 DEF IInv, Types
<1>3. \A u \in Target : \A d \in Doc \ owed'[u] :
        /\ d \in keys[u] <=> u \in backend[d]
        /\ d \in keys[u] /\ d \notin refused' => u \in cache[d]
  BY <1>1 DEF IInv, Types, KeysAreListed
<1> HIDE DEF keys
<1> QED
  BY <1>1, <1>2, <1>3, EmitKeepsIInv

\* The answer to a limbo listen makes the cache right for the document.
LEMMA LimboAnsweredStep ==
  ASSUME IInv, NEW d \in Doc, LimboAnswered(d)
  PROVE  IInv'
<1> DEFINE docs == [cache EXCEPT ![d] = backend[d]]
<1>1. /\ EmitNewSnapshots(docs, synced, current, sought)
      /\ UNCHANGED <<backend, changes, owed, listened, online, refused>>
  BY DEF LimboAnswered, serverVars
<1>2. docs \in [Doc -> SUBSET Target] /\ current \in SUBSET listened
      /\ synced \in [Target -> SUBSET Doc] /\ owed' \in [Target -> SUBSET Doc]
      /\ refused' \subseteq Doc /\ IsFiniteSet(refused')
  BY <1>1 DEF IInv, Types
<1>3. \A u \in Target : \A e \in Doc \ owed'[u] :
        /\ e \in synced[u] <=> u \in backend[e]
        /\ e \in synced[u] /\ e \notin refused' => u \in docs[e]
  BY <1>1 DEF IInv, Types, KeysAreListed
<1> HIDE DEF docs
<1> QED
  BY <1>1, <1>2, <1>3, EmitKeepsIInv

\* A refused document leaves the cache, and its listen the books: of all that is
\* said of it, the invariant excepts it from now on.
LEMMA HandleRejectedLimboStep ==
  ASSUME IInv, NEW d \in Doc, HandleRejectedLimbo(d)
  PROVE  IInv'
<1> DEFINE docs == [cache EXCEPT ![d] = {}]
<1>1. /\ EmitNewSnapshots(docs, synced, current, sought \ {d})
      /\ refused' = refused \union {d}
      /\ UNCHANGED <<backend, changes, owed, listened, online>>
  BY DEF HandleRejectedLimbo, serverVars
<1>2. docs \in [Doc -> SUBSET Target] /\ current \in SUBSET listened
      /\ synced \in [Target -> SUBSET Doc] /\ owed' \in [Target -> SUBSET Doc]
      /\ refused' \subseteq Doc /\ IsFiniteSet(refused')
  BY <1>1, FS_AddElement DEF IInv, Types
<1>3. \A u \in Target : \A e \in Doc \ owed'[u] :
        /\ e \in synced[u] <=> u \in backend[e]
        /\ e \in synced[u] /\ e \notin refused' => u \in docs[e]
  BY <1>1 DEF IInv, Types, KeysAreListed
<1>4. /\ (sought \ {d}) \in SUBSET sought
      /\ refused \subseteq refused' /\ sought \ (sought \ {d}) \subseteq refused'
  BY <1>1
<1> HIDE DEF docs
<1> QED
  BY <1>1, <1>2, <1>3, <1>4, EmitKeepsIInv

\* The news of a change is owed to every target it is for.
LEMMA BackendChangesStep ==
  ASSUME IInv, NEW d \in Doc, BackendChanges(d)
  PROVE  IInv'
<1>1. PICK matches \in SUBSET Target \ {backend[d]} :
        /\ backend' = [backend EXCEPT ![d] = matches]
        /\ owed' = [t \in Target |-> IF t \in backend[d] \union matches
                                     THEN owed[t] \union {d} ELSE owed[t]]
  BY DEF BackendChanges
<1>2. RoomLeft /\ changes' = changes + 1
      /\ UNCHANGED <<cache, synced, limbo, current, refs, sought, listened, online, refused>>
  BY DEF BackendChanges, viewVars
<1>3. changes' \in 0..MaxEvents
  <2>1. Cardinality(refused) \in Nat
    BY FS_CardinalityType DEF IInv, Types
  <2> QED
    BY <1>2, <2>1, BoundsAssumption DEF RoomLeft, IInv, Types
<1>4. Types'
  BY <1>1, <1>2, <1>3 DEF IInv, Types
<1>5. KeysAreListed'
  BY <1>1, <1>2 DEF IInv, Types, KeysAreListed
<1>6. Books' /\ CurrentKnowsLimbo'
  BY <1>2 DEF IInv, Books, CurrentKnowsLimbo
<1> QED
  BY <1>4, <1>5, <1>6 DEF IInv
-----------------------------------------------------------------------------
(***************************************************************************)
(* The theorems                                                            *)
(***************************************************************************)

\* Every step keeps the invariant.
LEMMA StepIInv == IInv /\ [Next]_vars => IInv'
<1> SUFFICES ASSUME IInv, [Next]_vars PROVE IInv'
  OBVIOUS
<1>1. ASSUME NEW t \in Target, Listen(t) PROVE IInv'
  BY <1>1, ListenStep
<1>2. ASSUME NEW t \in Target, StopListening(t) \/ RejectQuery(t) PROVE IInv'
  BY <1>2, RemoveAndCleanupTargetStep DEF StopListening, RejectQuery
<1>3. ASSUME NEW t \in Target, RemoteEvent(t) PROVE IInv'
  BY <1>3, ApplyRemoteEventStep DEF RemoteEvent
<1>4. ASSUME NEW t \in Target, ExistenceFilterMismatch(t) PROVE IInv'
  BY <1>4, ExistenceFilterMismatchStep
<1>5. ASSUME NEW d \in Doc, LimboAnswered(d) \/ HandleRejectedLimbo(d) \/ BackendChanges(d)
      PROVE  IInv'
  BY <1>5, LimboAnsweredStep, HandleRejectedLimboStep, BackendChangesStep
<1>6. CASE GoesOffline
  BY <1>6 DEF IInv, Types, Books, CurrentKnowsLimbo, KeysAreListed, GoesOffline, serverVars
<1>7. CASE ComesOnline
  BY <1>7 DEF IInv, Types, Books, CurrentKnowsLimbo, KeysAreListed, ComesOnline, serverVars, viewVars
<1>8. CASE UNCHANGED vars
  BY <1>8 DEF IInv, Types, Books, CurrentKnowsLimbo, KeysAreListed, vars, serverVars, viewVars
<1> QED
  BY <1>1, <1>2, <1>3, <1>4, <1>5, <1>6, <1>7, <1>8 DEF Next

\* The invariant holds throughout.
THEOREM Inductive == Spec => []IInv
BY InitIInv, StepIInv, PTL DEF Spec

\* The invariant implies the properties.
LEMMA IInvIsSafe == IInv => LimboSafety /\ SyncedIsTrue
<1> SUFFICES ASSUME IInv PROVE LimboSafety /\ SyncedIsTrue
  OBVIOUS
<1>1. refs = {r \in Doc \X listened : r[1] \in limbo[r[2]]}
  BY DEF IInv, Books, Types
<1>2. sought \subseteq {r[1] : r \in refs}
  <2> SUFFICES ASSUME NEW d \in sought PROVE d \in {r[1] : r \in refs}
    OBVIOUS
  <2>1. PICK t \in Target : d \in limbo[t] /\ d \in Doc
    BY DEF IInv, Books
  <2>2. <<d, t>> \in refs /\ refs \subseteq Doc \X Target
    BY <2>1 DEF IInv, Books
  <2> QED
    BY <2>2, FirstOfReferences
<1>3. LimboTypeOK
  BY <1>1 DEF IInv, Types, Books, LimboTypeOK
<1>4. LimboIsSought
  BY DEF IInv, Books, LimboIsSought
<1>5. SyncedIsTrue
  BY DEF SyncedIsTrue, Synced, Documents, IInv, CurrentKnowsLimbo, KeysAreListed
<1> QED
  BY <1>1, <1>2, <1>3, <1>4, <1>5 DEF LimboSafety, ListensAreReferenced

\* Whatever views come and go and share documents, the references are the limbo
\* documents of the views (SyncEngine's limbo_document_refs_), each that was not
\* refused has its listen, and no listen outlives its last reference.
THEOREM Safety == Spec => []LimboSafety
BY Inductive, IInvIsSafe, PTL

\* A view that is synced (View::sync_state_, from_cache false) shows what the
\* backend lists, but for news still owed and documents whose listen was refused.
THEOREM SyncedShowsTruth == Spec => []SyncedIsTrue
BY Inductive, IInvIsSafe, PTL
-----------------------------------------------------------------------------
=============================================================================
