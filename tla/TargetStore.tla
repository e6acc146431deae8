----------------------------- MODULE TargetStore ------------------------------
(***************************************************************************)
(* What LocalStore keeps of one target, in memory and on disk.  Documents' *)
(* keys are on disk only.  The resume token is in memory, and on disk when *)
(* something else has changed or the last one is old, so that a crash      *)
(* brings back an older token next to keys that may be newer.  A token is  *)
(* the moment at which the backend gave it; a transaction of the store is  *)
(* one step.                                                               *)
(*                                                                         *)
(* The backend is external: it tells a target every document that has      *)
(* changed since the token it is resumed from, or all of the target's      *)
(* documents without a token; of those that have left it may tell by an    *)
(* existence filter instead.                                               *)
(***************************************************************************)
EXTENDS Naturals, Sequences, FiniteSets

CONSTANTS
  Doc,
  MaxAge,      \* kResumeTokenMaxAgeSeconds, in moments
  MaxTime      \* bound on the moments

VARIABLES
  past,        \* backend: the documents of the target at each moment so far
  active,      \* target_data_by_target_ has the target
  target,      \* its TargetData in memory
  stored,      \* its TargetData on disk
  keys,        \* its matching keys on disk
  resume,      \* the token RemoteStore listens with
  trust        \* history: what an existence filter mismatch has left

vars == <<past, active, target, stored, keys, resume, trust>>

Now == Len(past)
NoToken == 0
NoData == [token |-> NoToken, version |-> 0]
TargetData == [token : 0..MaxTime, version : 0..MaxTime]

StoreTypeOK ==
  /\ past \in Seq(SUBSET Doc) /\ Now \in 1..MaxTime
  /\ active \in BOOLEAN
  /\ target \in TargetData /\ stored \in TargetData
  /\ keys \subseteq Doc /\ resume \in 0..Now
  /\ trust \in {"sound", "mending", "misled"}

Init ==
  /\ past \in {<<ds>> : ds \in SUBSET Doc}
  /\ active = FALSE /\ target = NoData /\ stored = NoData
  /\ keys = {} /\ resume = NoToken /\ trust = "sound"
-----------------------------------------------------------------------------
\* The documents the backend speaks of to a target resumed from a token.
ToldSince(token) ==
  IF token = NoToken THEN past[Now]
  ELSE {d \in Doc : \E n \in token..Now : (d \in past[n]) # (d \in past[Now])}

BackendChanges ==
  /\ Now < MaxTime
  /\ \E ds \in SUBSET Doc : past' = Append(past, ds)
  /\ UNCHANGED <<active, target, stored, keys, resume, trust>>

\* Slip: the target is resumed from the last snapshot of any target.
SlipAllocateTarget ==
  /\ ~active
  /\ active' = TRUE
  /\ target' = [stored EXCEPT !.token = Now] /\ resume' = Now
  /\ UNCHANGED <<past, stored, keys, trust>>

AllocateTarget ==
  /\ ~active
  /\ active' = TRUE
  /\ target' = stored /\ resume' = stored.token
  /\ UNCHANGED <<past, stored, keys, trust>>

ShouldPersistTargetData(new, old, changed) ==
  \/ old.token = NoToken
  \/ new.version - old.version >= MaxAge
  \/ changed

\* ApplyRemoteEvent: the keys become ks; changed, if a document of the target has.
Apply(ks, token, changed) ==
  LET new == [token |-> token, version |-> Now]
  IN /\ keys' = ks
     /\ IF token = NoToken THEN UNCHANGED <<target, stored>>
        ELSE /\ target' = new
             /\ stored' = IF ShouldPersistTargetData(new, target, changed) THEN new
                          ELSE stored
  /\ UNCHANGED <<past, active>>

\* A snapshot with the token of this moment, with the one before, or with none:
\* the first answer to a listen has a token.
RemoteEvent(token) ==
  /\ active
  /\ token \in {Now} \union (IF resume = NoToken THEN {} ELSE {NoToken, resume})
  /\ LET told == ToldSince(resume)
         ks == (keys \ told) \union (told \intersect past[Now])
     IN \E modified \in BOOLEAN : Apply(ks, token, ks # keys \/ modified)
  /\ resume' = IF token = NoToken THEN resume ELSE token
  /\ trust' = IF trust = "mending" THEN "sound" ELSE trust

\* A filter whose count is not that of the keys with the new documents: every key
\* goes, with the token of this moment; RemoteStore listens again without one.
FilterMismatch ==
  /\ active /\ resume # NoToken
  /\ Cardinality(keys \union (ToldSince(resume) \intersect past[Now]))
       # Cardinality(past[Now])
  /\ Apply({}, Now, keys # {})
  /\ resume' = NoToken
  /\ trust' = "mending"

Misled == IF trust = "mending" THEN "misled" ELSE trust

\* ReleaseTarget: the reference delegate stores the target as it is in memory.
ReleaseTarget ==
  /\ active
  /\ active' = FALSE
  /\ stored' = target
  /\ target' = NoData /\ resume' = NoToken
  /\ trust' = Misled
  /\ UNCHANGED <<past, keys>>

\* The app is killed: what is in memory is gone.
Crash ==
  /\ active
  /\ active' = FALSE
  /\ target' = NoData /\ resume' = NoToken
  /\ trust' = Misled
  /\ UNCHANGED <<past, stored, keys>>

Next ==
  \/ BackendChanges
  \/ AllocateTarget \/ ReleaseTarget \/ Crash
  \/ \E token \in 0..MaxTime : RemoteEvent(token)
  \/ FilterMismatch

Spec == Init /\ [][Next]_vars
-----------------------------------------------------------------------------
(***************************************************************************)
(* Properties                                                              *)
(***************************************************************************)

\* A run that resumes from the token on disk, whenever the one before it ended,
\* misses nothing: the keys are right about every document it is not told of.
ResumeIsSafe ==
  trust = "sound" /\ stored.token # NoToken =>
    \A d \in Doc \ ToldSince(stored.token) : d \in keys <=> d \in past[Now]

\* After a snapshot the keys are the backend's documents, in a run that resumed
\* from whatever an earlier one has left.
KeysFollow == active /\ trust = "sound" /\ target.version = Now => keys = past[Now]

\* What LocalStore keeps is enough to go on from after a release or a crash.  A
\* mismatch is the exception until it is mended, and for good if the target is
\* released, or the app killed, before that: the token is on disk and the keys
\* are not.
StoreSafety == StoreTypeOK /\ ResumeIsSafe /\ KeysFollow
=============================================================================
