--------------------------- MODULE ClientPartsProofs ---------------------------
(***************************************************************************)
(* Proofs about the three parts of the Firestore client in MCClientParts,  *)
(* for any bounds, documents, threads and timers: what the table of        *)
(* targets keeps is enough to go on from, the worker queue keeps its       *)
(* promises, and gRPC's rules are kept by a call.                          *)
(***************************************************************************)
EXTENDS MCClientParts, SequenceTheorems, FiniteSetTheorems, WellFoundedInduction,
        TLAPS

(***************************************************************************)
(* The table of targets (TargetStore)                                      *)
(***************************************************************************)

StoreTypes ==
  /\ past \in Seq(SUBSET Doc) /\ Len(past) \in 1..MaxTime
  /\ active \in BOOLEAN
  /\ target \in [token : 0..Len(past), version : 0..Len(past)]
  /\ stored \in [token : 0..Len(past), version : 0..Len(past)]
  /\ keys \subseteq Doc /\ resume \in 0..Len(past)
  /\ trust \in {"sound", "mending", "misled"}

\* The keys are right about every document the backend does not speak of to a
\* target resumed from the token.
RightSince(token) ==
  token # 0 => \A d \in Doc \ Store!ToldSince(token) : d \in keys <=> d \in past[Len(past)]

\* Data of this moment says that the keys are those of this moment.
KeysOf(data) == data.version = Len(past) => keys = past[Len(past)]

\* Whichever of the three tokens the target goes on from, nothing is missed; it
\* goes on from none with no keys only.
StoreSound ==
  /\ RightSince(stored.token) /\ KeysOf(stored)
  /\ stored.token = 0 => keys = {}
  /\ active =>
       /\ RightSince(resume) /\ RightSince(target.token) /\ KeysOf(target)
       /\ resume = 0 => keys = {}

StoreInv ==
  /\ StoreTypes
  /\ active => /\ target.token = 0 <=> stored.token = 0
               /\ resume # 0 => stored.token # 0
  /\ trust = "sound" => StoreSound
  /\ trust = "mending" => active /\ resume = 0 /\ keys = {}

\* What has happened so far stays as it was when the backend changes.
LEMMA AppendMoment ==
  ASSUME StoreTypes, NEW ds \in SUBSET Doc, past' = Append(past, ds)
  PROVE  /\ past' \in Seq(SUBSET Doc) /\ Len(past') = Len(past) + 1
         /\ \A n \in 1..Len(past) : past'[n] = past[n]
         /\ Len(past) \in Nat
BY AppendProperties DEF StoreTypes

\* What the backend does not speak of now, it did not speak of a moment ago.
LEMMA BackendChangesStep ==
  ASSUME StoreInv, Store!BackendChanges
  PROVE  StoreInv'
<1>1. PICK ds \in SUBSET Doc : past' = Append(past, ds)
  BY DEF Store!BackendChanges
<1>2. /\ Len(past) < MaxTime
      /\ UNCHANGED <<active, target, stored, keys, resume, trust>>
  BY DEF Store!BackendChanges, Store!Now
<1>3. /\ past' \in Seq(SUBSET Doc) /\ Len(past') = Len(past) + 1
      /\ \A n \in 1..Len(past) : past'[n] = past[n]
      /\ Len(past) \in Nat
  BY <1>1, AppendMoment DEF StoreInv
<1>4. StoreTypes'
  BY <1>2, <1>3, PartsAssumption DEF StoreInv, StoreTypes
<1>5. ASSUME NEW n \in 0..Len(past), RightSince(n) PROVE RightSince(n)'
  <2> SUFFICES ASSUME n # 0, NEW d \in Doc, d \notin Store!ToldSince(n)'
               PROVE  d \in keys' <=> d \in past'[Len(past')]
    BY DEF RightSince
  <2>1. \A k \in n..Len(past') : (d \in past'[k]) = (d \in past'[Len(past')])
    BY <1>3 DEF Store!ToldSince, Store!NoToken, Store!Now
  <2>2. Len(past) \in n..Len(past') /\ Len(past) \in 1..Len(past) /\ Len(past) \in n..Len(past)
    BY <1>3
  <2>3. \A k \in n..Len(past) : k \in 1..Len(past) /\ k \in n..Len(past')
    BY <1>3
  <2>4. \A k \in n..Len(past) : (d \in past[k]) = (d \in past[Len(past)])
    BY <1>3, <2>1, <2>2, <2>3
  <2>5. d \notin Store!ToldSince(n)
    BY <2>4 DEF Store!ToldSince, Store!NoToken, Store!Now
  <2> QED
    BY <1>2, <1>3, <1>5, <2>1, <2>2, <2>5 DEF RightSince
<1>6. (trust = "sound" => StoreSound)'
  <2> SUFFICES ASSUME trust = "sound" PROVE StoreSound'
    BY <1>2
  <2>1. StoreSound
    BY DEF StoreInv
  <2>2. stored.token \in 0..Len(past) /\ target.token \in 0..Len(past) /\ resume \in 0..Len(past)
        /\ stored.version \in 0..Len(past) /\ target.version \in 0..Len(past)
    BY DEF StoreInv, StoreTypes
  <2>3. KeysOf(stored)' /\ KeysOf(target)'
    BY <1>2, <1>3, <2>2 DEF KeysOf
  <2>4. RightSince(stored.token)' /\ (active => RightSince(resume)' /\ RightSince(target.token)')
    BY <1>2, <1>5, <2>1, <2>2 DEF StoreSound, RightSince
  <2> QED
    BY <1>2, <2>1, <2>3, <2>4 DEF StoreSound
<1> QED
  BY <1>2, <1>4, <1>6 DEF StoreInv

\* What Apply leaves in memory and on disk.
LEMMA ApplyLeaves ==
  ASSUME StoreInv, NEW ks \in SUBSET Doc, NEW token \in 0..Len(past), NEW changed \in BOOLEAN,
         active, token = 0 => resume # 0, Store!Apply(ks, token, changed)
  PROVE  LET new == [token |-> token, version |-> Len(past)]
         IN /\ keys' = ks /\ UNCHANGED <<past, active>>
            /\ target' \in {target, new} /\ stored' \in {stored, new}
            /\ stored' = target' \/ stored' = stored
            /\ target'.token # 0 /\ stored'.token # 0
            /\ target' \in [token : 0..Len(past), version : 0..Len(past)]
            /\ stored' \in [token : 0..Len(past), version : 0..Len(past)]
<1> DEFINE new == [token |-> token, version |-> Len(past)]
<1>1. /\ keys' = ks /\ UNCHANGED <<past, active>>
      /\ IF token = 0 THEN UNCHANGED <<target, stored>>
         ELSE /\ target' = new
              /\ stored' = IF Store!ShouldPersistTargetData(new, target, changed) THEN new
                           ELSE stored
  BY DEF Store!Apply, Store!NoToken, Store!Now
<1>2. /\ stored.token = 0 <=> target.token = 0
      /\ resume # 0 => stored.token # 0
      /\ StoreTypes /\ Len(past) \in Nat
  BY DEF StoreInv, StoreTypes
<1>3. CASE token = 0
  BY <1>1, <1>2, <1>3 DEF StoreTypes
<1>4. CASE token # 0
  <2>1. new \in [token : 0..Len(past), version : 0..Len(past)] /\ new.token # 0
    BY <1>2, <1>4
  <2>2. target' = new /\ (stored' = new \/ stored' = stored)
    BY <1>1, <1>4
  <2>3. target.token = 0 => stored' = new
    BY <1>1, <1>4 DEF Store!ShouldPersistTargetData, Store!NoToken
  <2> HIDE DEF new
  <2>4. CASE stored' = new
    BY <1>1, <2>1, <2>2, <2>4 DEF new
  <2>5. CASE stored' = stored /\ stored' # new
    BY <1>1, <1>2, <2>1, <2>2, <2>3, <2>5 DEF StoreTypes, new
  <2> QED
    BY <2>2, <2>4, <2>5
<1> QED
  BY <1>3, <1>4

\* A snapshot makes the keys those of the moment, where they were right since the
\* token the target was resumed from.
LEMMA RemoteEventStep ==
  ASSUME StoreInv, NEW token \in 0..MaxTime, Store!RemoteEvent(token)
  PROVE  StoreInv'
<1> DEFINE since == Store!ToldSince(resume)
           ks == (keys \ since) \union (since \intersect past[Len(past)])
<1>1. /\ active
      /\ token = Len(past) \/ (resume # 0 /\ (token = 0 \/ token = resume))
      /\ resume' = IF token = 0 THEN resume ELSE token
      /\ trust' = IF trust = "mending" THEN "sound" ELSE trust
  BY DEF Store!RemoteEvent, Store!NoToken, Store!Now
<1>2. PICK modified \in BOOLEAN : Store!Apply(ks, token, ks # keys \/ modified)
  BY DEF Store!RemoteEvent, Store!Now
<1>3. past[Len(past)] \in SUBSET Doc /\ Len(past) \in Nat \ {0}
      /\ resume \in 0..Len(past) /\ keys \subseteq Doc
  BY DEF StoreInv, StoreTypes
<1>4. ks \in SUBSET Doc /\ token \in 0..Len(past) /\ (token = 0 => resume # 0)
      /\ (ks # keys \/ modified) \in BOOLEAN
  BY <1>1, <1>3
<1>5. CASE trust \in {"sound", "mending"}
  <2>1. ks = past[Len(past)]
    <3>1. CASE resume = 0
      <4>1. keys = {} /\ since = past[Len(past)]
        BY <1>1, <1>5, <3>1 DEF StoreInv, StoreSound, Store!ToldSince, Store!NoToken, Store!Now
      <4> QED
        BY <4>1
    <3>2. CASE resume # 0
      <4>1. \A d \in Doc \ since : d \in keys <=> d \in past[Len(past)]
        BY <1>1, <1>5, <3>2 DEF StoreInv, StoreSound, RightSince
      <4> HIDE DEF since
      <4> QED
        BY <1>3, <4>1
    <3> QED
      BY <3>1, <3>2
  <2>2. keys' = past'[Len(past')] /\ trust' = "sound"
    <3> HIDE DEF ks
    <3> QED
      BY <1>1, <1>2, <1>4, <1>5, <2>1, ApplyLeaves
  <2> HIDE DEF ks
  <2>3. /\ UNCHANGED <<past, active>>
        /\ target'.token # 0 /\ stored'.token # 0
        /\ target' \in [token : 0..Len(past), version : 0..Len(past)]
        /\ stored' \in [token : 0..Len(past), version : 0..Len(past)]
    BY <1>1, <1>2, <1>4, ApplyLeaves
  <2>4. resume' \in 0..Len(past) /\ resume' # 0
    BY <1>1, <1>3, <1>4
  <2>5. StoreTypes'
    BY <2>2, <2>3, <2>4, <1>2, <1>4, ApplyLeaves DEF StoreInv, StoreTypes
  <2>6. \A n : RightSince(n)'
    BY <2>2 DEF RightSince
  <2>7. StoreSound'
    BY <2>2, <2>3, <2>4, <2>6 DEF StoreSound, KeysOf
  <2> QED
    BY <2>2, <2>3, <2>4, <2>5, <2>7 DEF StoreInv
<1>6. CASE trust = "misled"
  <2> HIDE DEF ks
  <2>1. /\ keys' = ks /\ UNCHANGED <<past, active>>
        /\ target'.token # 0 /\ stored'.token # 0
        /\ target' \in [token : 0..Len(past), version : 0..Len(past)]
        /\ stored' \in [token : 0..Len(past), version : 0..Len(past)]
    BY <1>1, <1>2, <1>4, ApplyLeaves
  <2>2. resume' \in 0..Len(past) /\ trust' = "misled"
    BY <1>1, <1>3, <1>4, <1>6
  <2> QED
    BY <1>4, <2>1, <2>2 DEF StoreInv, StoreTypes
<1> QED
  BY <1>5, <1>6 DEF StoreInv, StoreTypes

\* Of a mismatch nothing is promised until it is mended.
LEMMA FilterMismatchStep ==
  ASSUME StoreInv, Store!FilterMismatch
  PROVE  StoreInv'
<1>1. /\ active /\ resume # 0 /\ resume' = 0 /\ trust' = "mending"
      /\ Store!Apply({}, Len(past), keys # {})
  BY DEF Store!FilterMismatch, Store!NoToken, Store!Now
<1>2. Len(past) \in Nat \ {0} /\ {} \in SUBSET Doc /\ (keys # {}) \in BOOLEAN
      /\ Len(past) \in 0..Len(past)
  BY DEF StoreInv, StoreTypes
<1>3. /\ keys' = {} /\ UNCHANGED <<past, active>>
      /\ target'.token # 0 /\ stored'.token # 0
      /\ target' \in [token : 0..Len(past), version : 0..Len(past)]
      /\ stored' \in [token : 0..Len(past), version : 0..Len(past)]
  BY <1>1, <1>2, ApplyLeaves
<1> QED
  BY <1>1, <1>2, <1>3 DEF StoreInv, StoreTypes

\* The target goes on from what is on disk.
LEMMA AllocateTargetStep ==
  ASSUME StoreInv, Store!AllocateTarget
  PROVE  StoreInv'
<1>1. /\ ~active /\ active' = TRUE /\ target' = stored /\ resume' = stored.token
      /\ UNCHANGED <<past, stored, keys, trust>>
  BY DEF Store!AllocateTarget
<1>2. StoreTypes' /\ trust # "mending"
  BY <1>1 DEF StoreInv, StoreTypes
<1>3. trust = "sound" => StoreSound'
  BY <1>1 DEF StoreInv, StoreSound, RightSince, KeysOf, Store!ToldSince, Store!Now
<1> QED
  BY <1>1, <1>2, <1>3 DEF StoreInv

\* What was in memory is on disk now, or gone.
LEMMA ReleaseOrCrashStep ==
  ASSUME StoreInv, Store!ReleaseTarget \/ Store!Crash
  PROVE  StoreInv'
<1>1. /\ active /\ active' = FALSE /\ stored' \in {stored, target}
      /\ target' = [token |-> 0, version |-> 0] /\ resume' = 0
      /\ trust' = IF trust = "mending" THEN "misled" ELSE trust
      /\ UNCHANGED <<past, keys>>
  BY DEF Store!ReleaseTarget, Store!Crash, Store!NoData, Store!NoToken, Store!Misled
<1>2. StoreTypes'
  <2>1. [token |-> 0, version |-> 0] \in [token : 0..Len(past), version : 0..Len(past)]
    BY DEF StoreInv, StoreTypes
  <2> QED
    BY <1>1, <2>1 DEF StoreInv, StoreTypes
<1>3. trust' = "sound" => StoreSound'
  <2> SUFFICES ASSUME trust = "sound" PROVE StoreSound'
    BY <1>1
  <2>1. CASE stored' = stored
    BY <1>1, <2>1 DEF StoreInv, StoreSound, RightSince, KeysOf, Store!ToldSince, Store!Now
  <2>2. CASE stored' = target
    BY <1>1, <2>2 DEF StoreInv, StoreSound, RightSince, KeysOf, Store!ToldSince, Store!Now
  <2> QED
    BY <1>1, <2>1, <2>2
<1> QED
  BY <1>1, <1>2, <1>3 DEF StoreInv

\* The invariant of the table of targets.
LEMMA StoreStep ==
  ASSUME StoreInv, Store!Next \/ UNCHANGED storeVars
  PROVE  StoreInv'
<1>1. CASE UNCHANGED storeVars
  BY <1>1 DEF storeVars, StoreInv, StoreTypes, StoreSound, RightSince, KeysOf,
              Store!ToldSince, Store!Now
<1> QED
  BY <1>1, BackendChangesStep, AllocateTargetStep, ReleaseOrCrashStep, RemoteEventStep,
     FilterMismatchStep DEF Store!Next

\* The table starts empty, and the one state of the backend is the latest.
LEMMA StoreInit ==
  ASSUME Store!Init
  PROVE  StoreInv
<1>1. PICK ds \in SUBSET Doc : past = <<ds>>
  BY DEF Store!Init
<1>2. /\ active = FALSE /\ target = [token |-> 0, version |-> 0]
      /\ stored = [token |-> 0, version |-> 0]
      /\ keys = {} /\ resume = 0 /\ trust = "sound"
  BY DEF Store!Init, Store!NoData, Store!NoToken
<1>3. past \in Seq(SUBSET Doc) /\ Len(past) = 1
  BY <1>1
<1>4. [token |-> 0, version |-> 0] \in [token : 0..Len(past), version : 0..Len(past)]
  BY <1>3
<1>5. StoreTypes
  <2>1. Len(past) \in 1..MaxTime /\ resume \in 0..Len(past)
    BY <1>2, <1>3, PartsAssumption
  <2>2. target \in [token : 0..Len(past), version : 0..Len(past)]
        /\ stored \in [token : 0..Len(past), version : 0..Len(past)]
    BY <1>2, <1>4
  <2>3. active \in BOOLEAN /\ keys \subseteq Doc /\ trust \in {"sound", "mending", "misled"}
    BY <1>2
  <2> QED
    BY <1>3, <2>1, <2>2, <2>3 DEF StoreTypes
<1>6. stored.token = 0 /\ stored.version = 0
  BY <1>2
<1>7. StoreSound
  BY <1>2, <1>3, <1>6 DEF StoreSound, RightSince, KeysOf
<1> QED
  BY <1>2, <1>5, <1>7 DEF StoreInv

\* What the table promises follows from what is kept about it.
LEMMA StoreInvIsSafe ==
  ASSUME StoreInv
  PROVE  StoreSafety
<1>1. Store!StoreTypeOK
  <2>1. Len(past) \in 0..MaxTime
    BY DEF StoreInv, StoreTypes
  <2>2. [token : 0..Len(past), version : 0..Len(past)] \subseteq [token : 0..MaxTime, version : 0..MaxTime]
    BY <2>1, PartsAssumption
  <2> QED
    BY <2>1, <2>2 DEF StoreInv, StoreTypes, Store!StoreTypeOK, Store!Now, Store!TargetData
<1> QED
  BY <1>1 DEF StoreSafety, Store!StoreSafety, Store!ResumeIsSafe, Store!KeysFollow, StoreInv,
              StoreSound, RightSince, KeysOf, Store!Now, Store!NoToken
-----------------------------------------------------------------------------
(***************************************************************************)
(* The worker queue (AsyncQueue)                                           *)
(***************************************************************************)

Entry == [kind : {"op"}, id : 1..MaxOperations] \union [kind : {"slot", "force"}, id : Nat]

Ran(op) == \E i \in 1..Len(ran) : ran[i] = op

WorkerTypes ==
  /\ calls \in [Worker!Threads -> {"now", "even", "shutdown", "none"}]
  /\ isShuttingDown \in BOOLEAN
  /\ workerQueue \in Seq(Entry)
  /\ nextId \in Nat
  /\ slots \subseteq [id : Nat, op : 1..MaxOperations, tag : Tags, done : BOOLEAN]
  /\ handles \subseteq [op : 1..MaxOperations, id : Nat]
  /\ running \in 0..MaxOperations
  /\ kinds \in Seq({"now", "even", "shutdown", "delayed"}) /\ Len(kinds) <= MaxOperations
  /\ ran \in Seq(1..MaxOperations)

\* One call at a time, for which there is room.
MutexHolds ==
  \A u \in Worker!Threads : calls[u] # "none" =>
    /\ Len(kinds) < MaxOperations
    /\ \A v \in Worker!Threads : calls[v] # "none" => u = v

\* The schedule has the slots that are not done, which are of delayed operations
\* that have neither run nor been cancelled, each of one slot.
SlotsFit ==
  /\ \A i : i \in schedule <=> \E s \in slots : s.id = i /\ ~s.done
  /\ \A s, t \in slots : s.id = t.id \/ s.op = t.op => s = t
  /\ \A s \in slots :
       /\ s.op \in 1..Len(kinds) /\ kinds[s.op] = "delayed" /\ s.id < nextId
       /\ ~s.done => s.op \notin withdrawn /\ ~Ran(s.op)

\* A handle, however old, is of the slot of its operation or of none.
HandlesFit ==
  \A h \in handles :
    /\ h.op \in 1..Len(kinds) /\ kinds[h.op] = "delayed" /\ h.id < nextId
    /\ \A s \in slots : h.id = s.id <=> h.op = s.op

\* Operations for now wait in the order in which they were made.
QueueFits ==
  \A i \in 1..Len(workerQueue) : workerQueue[i].kind = "op" =>
    /\ workerQueue[i].id \in 1..Len(kinds) /\ kinds[workerQueue[i].id] # "delayed"
    /\ \A j \in 1..Len(workerQueue) :
         workerQueue[j].kind = "op" /\ i < j => workerQueue[i].id < workerQueue[j].id
    /\ \A k \in 1..Len(ran) : kinds[ran[k]] # "delayed" => ran[k] < workerQueue[i].id

\* They have run in that order, and nothing has run twice or was cancelled.
RanFits ==
  /\ \A i \in 1..Len(ran) : ran[i] \in 1..Len(kinds)
  /\ \A i, j \in 1..Len(ran) : i < j =>
       /\ ran[i] # ran[j]
       /\ kinds[ran[i]] # "delayed" /\ kinds[ran[j]] # "delayed" => ran[i] < ran[j]
  /\ \A c \in withdrawn : c \in 1..Len(kinds) /\ kinds[c] = "delayed" /\ ~Ran(c)

\* Nothing ordinary is made behind a shutdown.
KindsFit ==
  /\ \A i, j \in 1..Len(kinds) : kinds[i] = "shutdown" /\ i < j => kinds[j] # "now"
  /\ \A i \in 1..Len(kinds) : kinds[i] = "shutdown" => isShuttingDown
  /\ \A u \in Worker!Threads : /\ calls[u] = "shutdown" => isShuttingDown
                               /\ calls[u] = "now" => ~isShuttingDown

WorkerInv ==
  WorkerTypes /\ MutexHolds /\ SlotsFit /\ HandlesFit /\ QueueFits /\ RanFits /\ KindsFit

\* The operators of the standard modules are the same wherever they come from.
LEMMA SameOperators ==
  /\ \A S : Worker!Cardinality(S) = Cardinality(S)
  /\ \A s : Worker!ToSet(s) = ToSet(s)
BY DEF Worker!Cardinality, Cardinality, Worker!IsFiniteSet, IsFiniteSet, Worker!ToSet, ToSet

\* An operation is made: those before it stay what they were.
LEMMA KindsGrow ==
  ASSUME WorkerTypes, NEW k \in {"now", "even", "shutdown", "delayed"}, kinds' = Append(kinds, k)
  PROVE  /\ kinds' \in Seq({"now", "even", "shutdown", "delayed"})
         /\ Len(kinds) \in Nat /\ Len(kinds') = Len(kinds) + 1
         /\ \A i \in 1..Len(kinds) : i \in 1..Len(kinds') /\ kinds'[i] = kinds[i]
         /\ kinds'[Len(kinds')] = k
         /\ \A i \in 1..Len(kinds') : i \in 1..Len(kinds) \/ i = Len(kinds')
BY AppendProperties DEF WorkerTypes

\* Something is put behind what libdispatch has to run.
LEMMA QueueGrows ==
  ASSUME WorkerTypes, NEW e \in Entry, workerQueue' = Append(workerQueue, e)
  PROVE  /\ workerQueue' \in Seq(Entry)
         /\ Len(workerQueue) \in Nat /\ Len(workerQueue') = Len(workerQueue) + 1
         /\ \A i \in 1..Len(workerQueue) : workerQueue'[i] = workerQueue[i]
         /\ workerQueue'[Len(workerQueue')] = e
         /\ \A i \in 1..Len(workerQueue') : i \in 1..Len(workerQueue) \/ i = Len(workerQueue')
BY AppendProperties DEF WorkerTypes

\* An entry that is not an operation for now leaves the order alone.
LEMMA OtherEntryFits ==
  ASSUME WorkerInv, NEW e \in Entry, e.kind # "op", workerQueue' = Append(workerQueue, e),
         UNCHANGED <<kinds, ran>>
  PROVE  QueueFits'
BY QueueGrows DEF WorkerInv, QueueFits

\* The first of the queue is taken off it.
LEMMA QueueShrinks ==
  ASSUME WorkerTypes, workerQueue # <<>>, workerQueue' = Tail(workerQueue)
  PROVE  /\ workerQueue' \in Seq(Entry) /\ Head(workerQueue) = workerQueue[1]
         /\ Len(workerQueue) \in Nat \ {0} /\ Len(workerQueue') = Len(workerQueue) - 1
         /\ \A i \in 1..Len(workerQueue') : i + 1 \in 1..Len(workerQueue)
                                            /\ workerQueue'[i] = workerQueue[i + 1]
         /\ Head(workerQueue) \in Entry
<1>1. /\ Tail(workerQueue) \in Seq(Entry)
      /\ Len(workerQueue) \in Nat \ {0} /\ Len(Tail(workerQueue)) = Len(workerQueue) - 1
      /\ \A i \in 1..Len(Tail(workerQueue)) : Tail(workerQueue)[i] = workerQueue[i + 1]
      /\ Head(workerQueue) = workerQueue[1] /\ Head(workerQueue) \in Entry
  BY HeadTailProperties, EmptySeq DEF WorkerTypes
<1> QED
  BY <1>1

\* An operation that has not run begins.
LEMMA RanGrows ==
  ASSUME WorkerInv, NEW op \in 1..Len(kinds), ~Ran(op), op \notin withdrawn,
         kinds[op] # "delayed" =>
           \A k \in 1..Len(ran) : kinds[ran[k]] # "delayed" => ran[k] < op,
         running' = op, ran' = Append(ran, op), UNCHANGED <<kinds, withdrawn>>
  PROVE  /\ ran' \in Seq(1..MaxOperations) /\ running' \in 0..MaxOperations
         /\ \A o : Ran(o)' <=> Ran(o) \/ o = op
         /\ RanFits'
         /\ Len(ran) \in Nat /\ Len(ran') = Len(ran) + 1
         /\ \A i \in 1..Len(ran) : ran'[i] = ran[i]
         /\ ran'[Len(ran')] = op
         /\ \A i \in 1..Len(ran') : i \in 1..Len(ran) \/ i = Len(ran')
<1>1. op \in 1..MaxOperations /\ Len(kinds) \in Nat
  BY PartsAssumption DEF WorkerInv, WorkerTypes
<1>2. /\ ran' \in Seq(1..MaxOperations)
      /\ Len(ran) \in Nat /\ Len(ran') = Len(ran) + 1
      /\ \A i \in 1..Len(ran) : ran'[i] = ran[i]
      /\ ran'[Len(ran')] = op
      /\ \A i \in 1..Len(ran') : i \in 1..Len(ran) \/ i = Len(ran')
  BY <1>1, AppendProperties DEF WorkerInv, WorkerTypes
<1>3. \A o : Ran(o)' <=> Ran(o) \/ o = op
  BY <1>2 DEF Ran
<1>4. RanFits'
  BY <1>2, <1>3 DEF WorkerInv, RanFits, Ran
<1> QED
  BY <1>1, <1>2, <1>3, <1>4, PartsAssumption

\* A slot taken off the schedule is done, or was.
LEMMA RemoveFromScheduleMarks ==
  ASSUME WorkerInv, NEW id, Worker!RemoveFromSchedule(id)
  PROVE  /\ slots' \subseteq [id : Nat, op : 1..MaxOperations, tag : Tags, done : BOOLEAN]
         /\ \A s \in slots' : \E t \in slots :
              /\ t.id = s.id /\ t.op = s.op
              /\ IF t.id = id THEN s.done ELSE s = t
         /\ \A t \in slots : t.id # id => t \in slots'
         /\ \A i : i \in schedule' <=> \E s \in slots' : s.id = i /\ ~s.done
         /\ \A s, t \in slots' : s.id = t.id \/ s.op = t.op => s = t
<1> DEFINE Done(s) == [s EXCEPT !.done = TRUE]
<1>1. ASSUME NEW s \in slots
      PROVE  /\ Done(s).id = s.id /\ Done(s).op = s.op /\ Done(s).tag = s.tag /\ Done(s).done = TRUE
             /\ Done(s) \in [id : Nat, op : 1..MaxOperations, tag : Tags, done : BOOLEAN]
  BY DEF WorkerInv, WorkerTypes
<1>2. CASE id \notin schedule
  <2>1. UNCHANGED slots /\ schedule' = schedule
    BY <1>2 DEF Worker!RemoveFromSchedule
  <2>2. \A t \in slots : t.id = id => t.done
    BY <1>2 DEF WorkerInv, SlotsFit
  <2> QED
    BY <2>1, <2>2 DEF WorkerInv, WorkerTypes, SlotsFit
<1>3. CASE id \in schedule
  <2>1. schedule' = schedule \ {id} /\ slots' = {IF s.id = id THEN Done(s) ELSE s : s \in slots}
    BY <1>3 DEF Worker!RemoveFromSchedule, Worker!MarkedDone
  <2> HIDE DEF Done
  <2>2. \A s \in slots' : \E t \in slots :
          /\ t.id = s.id /\ t.op = s.op
          /\ IF t.id = id THEN s = Done(t) /\ s.done ELSE s = t
    BY <1>1, <2>1
  <2>3. \A t \in slots : t.id # id => t \in slots'
    BY <2>1
  <2>4. \A i : i \in schedule' <=> \E s \in slots' : s.id = i /\ ~s.done
    BY <2>1, <2>2, <2>3 DEF WorkerInv, SlotsFit
  <2>5. \A s, t \in slots' : s.id = t.id \/ s.op = t.op => s = t
    BY <2>2 DEF WorkerInv, SlotsFit
  <2>6. slots' \subseteq [id : Nat, op : 1..MaxOperations, tag : Tags, done : BOOLEAN]
    <3>1. slots \subseteq [id : Nat, op : 1..MaxOperations, tag : Tags, done : BOOLEAN]
      BY DEF WorkerInv, WorkerTypes
    <3> QED
      BY ONLY <1>1, <2>1, <3>1
  <2> QED
    BY <2>2, <2>3, <2>4, <2>5, <2>6
<1> QED
  BY <1>2, <1>3

\* BeginEnqueue: the look at the flag, with the mutex.
LEMMA BeginEnqueueStep ==
  ASSUME WorkerInv, NEW u \in Worker!Threads, NEW kind \in Worker!Call,
         Worker!BeginEnqueue(u, kind)
  PROVE  WorkerInv'
<1>1. /\ \A v \in Worker!Threads : calls[v] = "none"
      /\ kind = "now" => ~isShuttingDown
      /\ calls' = [calls EXCEPT ![u] = kind]
      /\ isShuttingDown' = (isShuttingDown \/ kind = "shutdown")
      /\ UNCHANGED <<workerQueue, slots, schedule, nextId, handles, running, kinds, ran, withdrawn>>
      /\ kind \in {"now", "even", "shutdown"}
  BY DEF Worker!BeginEnqueue, Worker!MutexIsFree, Worker!Call
<1>2. Len(kinds) < MaxOperations
  <2> DEFINE C == {v \in Worker!Threads : calls[v] # "none"}
  <2>1. C = {}
    BY <1>1
  <2>2. Len(kinds) + Cardinality(C) < MaxOperations
    BY SameOperators DEF Worker!BeginEnqueue, Worker!RoomLeft
  <2> HIDE DEF C
  <2> QED
    BY <2>1, <2>2, FS_EmptySet, LenProperties DEF WorkerInv, WorkerTypes
<1>3. \A v \in Worker!Threads : calls'[v] = IF v = u THEN kind ELSE "none"
  BY <1>1 DEF WorkerInv, WorkerTypes
<1>4. MutexHolds'
  BY <1>1, <1>2, <1>3 DEF MutexHolds
<1>5. KindsFit'
  BY <1>1, <1>3 DEF WorkerInv, KindsFit
<1>6. WorkerTypes'
  BY <1>1 DEF WorkerInv, WorkerTypes
<1>7. SlotsFit' /\ HandlesFit' /\ QueueFits' /\ RanFits'
  BY <1>1 DEF WorkerInv, SlotsFit, HandlesFit, QueueFits, RanFits, Ran
<1> QED
  BY <1>4, <1>5, <1>6, <1>7 DEF WorkerInv

\* EndEnqueue: the operation is made and put behind what there is.
LEMMA EndEnqueueStep ==
  ASSUME WorkerInv, NEW u \in Worker!Threads, Worker!EndEnqueue(u)
  PROVE  WorkerInv'
<1> DEFINE op == [kind |-> "op", id |-> Len(kinds) + 1]
<1>1. /\ calls[u] # "none" /\ calls' = [calls EXCEPT ![u] = "none"]
      /\ kinds' = Append(kinds, calls[u])
      /\ workerQueue' = Append(workerQueue, op)
      /\ UNCHANGED <<isShuttingDown, slots, schedule, nextId, handles, running, ran, withdrawn>>
  BY DEF Worker!EndEnqueue
<1>2. calls[u] \in {"now", "even", "shutdown"}
  BY <1>1 DEF WorkerInv, WorkerTypes
<1>3. /\ kinds' \in Seq({"now", "even", "shutdown", "delayed"})
      /\ Len(kinds) \in Nat /\ Len(kinds') = Len(kinds) + 1
      /\ \A i \in 1..Len(kinds) : i \in 1..Len(kinds') /\ kinds'[i] = kinds[i]
      /\ kinds'[Len(kinds')] = calls[u]
      /\ \A i \in 1..Len(kinds') : i \in 1..Len(kinds) \/ i = Len(kinds')
  BY <1>1, <1>2, KindsGrow DEF WorkerInv
<1>4. Len(kinds) < MaxOperations /\ Len(kinds') <= MaxOperations
  BY <1>1, <1>3, PartsAssumption DEF WorkerInv, MutexHolds
<1>5. op \in Entry /\ op.kind = "op" /\ op.id = Len(kinds')
  BY <1>3, <1>4, PartsAssumption DEF Entry
<1> HIDE DEF op
<1>6. /\ workerQueue' \in Seq(Entry)
      /\ Len(workerQueue) \in Nat /\ Len(workerQueue') = Len(workerQueue) + 1
      /\ \A i \in 1..Len(workerQueue) : workerQueue'[i] = workerQueue[i]
      /\ workerQueue'[Len(workerQueue')] = op
      /\ \A i \in 1..Len(workerQueue') : i \in 1..Len(workerQueue) \/ i = Len(workerQueue')
  BY <1>1, <1>5, QueueGrows DEF WorkerInv
<1>7. \A v \in Worker!Threads : calls'[v] = "none"
  BY <1>1 DEF WorkerInv, WorkerTypes, MutexHolds
<1>8. WorkerTypes'
  BY <1>1, <1>3, <1>4, <1>6 DEF WorkerInv, WorkerTypes
<1>9. SlotsFit' /\ HandlesFit' /\ RanFits'
  BY <1>1, <1>3 DEF WorkerInv, SlotsFit, HandlesFit, RanFits, Ran
<1>10. QueueFits'
  <2> SUFFICES ASSUME NEW i \in 1..Len(workerQueue'), workerQueue'[i].kind = "op"
               PROVE  /\ workerQueue'[i].id \in 1..Len(kinds') /\ kinds'[workerQueue'[i].id] # "delayed"
                      /\ \A j \in 1..Len(workerQueue') :
                           workerQueue'[j].kind = "op" /\ i < j => workerQueue'[i].id < workerQueue'[j].id
                      /\ \A k \in 1..Len(ran') : kinds'[ran'[k]] # "delayed" => ran'[k] < workerQueue'[i].id
    BY DEF QueueFits
  <2>1. CASE i \in 1..Len(workerQueue)
    <3>1. /\ workerQueue'[i] = workerQueue[i]
          /\ workerQueue[i].id \in 1..Len(kinds) /\ kinds[workerQueue[i].id] # "delayed"
      BY <1>6, <2>1 DEF WorkerInv, QueueFits
    <3>2. ASSUME NEW j \in 1..Len(workerQueue'), workerQueue'[j].kind = "op", i < j
          PROVE  workerQueue'[i].id < workerQueue'[j].id
      <4>1. CASE j \in 1..Len(workerQueue)
        BY <1>6, <2>1, <3>1, <3>2, <4>1 DEF WorkerInv, QueueFits
      <4>2. CASE j = Len(workerQueue')
        BY <1>3, <1>5, <1>6, <3>1, <4>2
      <4> QED
        BY <1>6, <4>1, <4>2
    <3>3. ASSUME NEW k \in 1..Len(ran'), kinds'[ran'[k]] # "delayed"
          PROVE  ran'[k] < workerQueue'[i].id
      BY <1>1, <1>3, <2>1, <3>1, <3>3 DEF WorkerInv, QueueFits, RanFits
    <3> QED
      BY <1>3, <3>1, <3>2, <3>3
  <2>2. CASE i = Len(workerQueue')
    BY <1>1, <1>2, <1>3, <1>5, <1>6, <2>2 DEF WorkerInv, RanFits
  <2> QED
    BY <1>6, <2>1, <2>2
<1>11. KindsFit'
  BY <1>1, <1>3, <1>7 DEF WorkerInv, KindsFit
<1> QED
  BY <1>7, <1>8, <1>9, <1>10, <1>11 DEF WorkerInv, MutexHolds

\* EnqueueAfterDelay: a slot with a new id, on the schedule, and its handle.
LEMMA EnqueueAfterDelayStep ==
  ASSUME WorkerInv, NEW tag \in Tags, Worker!EnqueueAfterDelay(tag)
  PROVE  WorkerInv'
<1> DEFINE slot   == [id |-> nextId, op |-> Len(kinds'), tag |-> tag, done |-> FALSE]
           handle == [op |-> Len(kinds'), id |-> nextId]
<1>1. /\ \A v \in Worker!Threads : calls[v] = "none"
      /\ ~isShuttingDown
      /\ kinds' = Append(kinds, "delayed")
      /\ slots' = slots \union {slot} /\ handles' = handles \union {handle}
      /\ schedule' = schedule \union {nextId} /\ nextId' = nextId + 1
      /\ UNCHANGED <<calls, isShuttingDown, workerQueue, running, ran, withdrawn>>
  BY DEF Worker!EnqueueAfterDelay, Worker!NextId, Worker!MutexIsFree
<1>2. Len(kinds) < MaxOperations
  <2> DEFINE C == {v \in Worker!Threads : calls[v] # "none"}
  <2>1. C = {}
    BY <1>1
  <2>2. Len(kinds) + Cardinality(C) < MaxOperations
    BY SameOperators DEF Worker!EnqueueAfterDelay, Worker!RoomLeft
  <2> HIDE DEF C
  <2> QED
    BY <2>1, <2>2, FS_EmptySet, LenProperties DEF WorkerInv, WorkerTypes
<1>3. /\ kinds' \in Seq({"now", "even", "shutdown", "delayed"})
      /\ Len(kinds) \in Nat /\ Len(kinds') = Len(kinds) + 1
      /\ \A i \in 1..Len(kinds) : i \in 1..Len(kinds') /\ kinds'[i] = kinds[i]
      /\ kinds'[Len(kinds')] = "delayed"
      /\ \A i \in 1..Len(kinds') : i \in 1..Len(kinds) \/ i = Len(kinds')
  BY <1>1, KindsGrow DEF WorkerInv
<1>4. /\ slot \in [id : Nat, op : 1..MaxOperations, tag : Tags, done : BOOLEAN]
      /\ slot.id = nextId /\ slot.op = Len(kinds') /\ ~slot.done
      /\ handle \in [op : 1..MaxOperations, id : Nat]
      /\ handle.id = nextId /\ handle.op = Len(kinds')
      /\ Len(kinds') \in 1..MaxOperations /\ Len(kinds') \notin 1..Len(kinds)
      /\ nextId \in Nat
  BY <1>2, <1>3, PartsAssumption DEF WorkerInv, WorkerTypes
<1> HIDE DEF slot, handle
<1>5. WorkerTypes'
  BY <1>1, <1>2, <1>3, <1>4, PartsAssumption DEF WorkerInv, WorkerTypes
<1>6. ~Ran(Len(kinds')) /\ Len(kinds') \notin withdrawn
  BY <1>4 DEF WorkerInv, RanFits, Ran
<1>7. SlotsFit'
  <2>1. \A i : i \in schedule' <=> \E s \in slots' : s.id = i /\ ~s.done
    BY <1>1, <1>4 DEF WorkerInv, SlotsFit
  <2>2. \A s \in slots : s.id < nextId /\ s.op \in 1..Len(kinds) /\ s.id \in Nat
    BY DEF WorkerInv, SlotsFit, WorkerTypes
  <2>3. \A s, t \in slots' : s.id = t.id \/ s.op = t.op => s = t
    BY <1>1, <1>4, <2>2 DEF WorkerInv, SlotsFit
  <2>4. ASSUME NEW s \in slots'
        PROVE  /\ s.op \in 1..Len(kinds') /\ kinds'[s.op] = "delayed" /\ s.id < nextId'
               /\ ~s.done => s.op \notin withdrawn' /\ ~Ran(s.op)'
    <3>1. CASE s \in slots
      BY <1>1, <1>3, <2>2, <3>1 DEF WorkerInv, SlotsFit, WorkerTypes, Ran
    <3>2. CASE s = slot
      BY <1>1, <1>3, <1>4, <1>6, <3>2 DEF Ran
    <3> QED
      BY <1>1, <3>1, <3>2
  <2> QED
    BY <2>1, <2>3, <2>4 DEF SlotsFit
<1>8. HandlesFit'
  <2>1. \A s \in slots : s.id < nextId /\ s.op \in 1..Len(kinds) /\ s.id \in Nat
    BY DEF WorkerInv, SlotsFit, WorkerTypes
  <2>2. \A h \in handles : h.id < nextId /\ h.op \in 1..Len(kinds) /\ h.id \in Nat
    BY DEF WorkerInv, HandlesFit, WorkerTypes
  <2>3. ASSUME NEW h \in handles', NEW s \in slots' PROVE h.id = s.id <=> h.op = s.op
    BY <1>1, <1>4, <2>1, <2>2 DEF WorkerInv, HandlesFit
  <2>4. ASSUME NEW h \in handles'
        PROVE  h.op \in 1..Len(kinds') /\ kinds'[h.op] = "delayed" /\ h.id < nextId'
    BY <1>1, <1>3, <1>4, <2>2 DEF WorkerInv, HandlesFit
  <2> QED
    BY <2>3, <2>4 DEF HandlesFit
<1>9. QueueFits' /\ RanFits'
  BY <1>1, <1>3 DEF WorkerInv, QueueFits, RanFits, Ran
<1>10. KindsFit'
  BY <1>1, <1>3 DEF WorkerInv, KindsFit
<1>11. MutexHolds'
  BY <1>1 DEF MutexHolds
<1> QED
  BY <1>5, <1>7, <1>8, <1>9, <1>10, <1>11 DEF WorkerInv

\* DelayedOperation::Cancel: what has not run is not on the schedule any more.
LEMMA CancelStep ==
  ASSUME WorkerInv, NEW h \in handles, Worker!Cancel(h)
  PROVE  WorkerInv'
<1>1. /\ handles' = handles \ {h} /\ Worker!RemoveFromSchedule(h.id)
      /\ withdrawn' = withdrawn \union ({h.op} \ ToSet(ran))
      /\ UNCHANGED <<calls, isShuttingDown, workerQueue, nextId, running, kinds, ran>>
  BY SameOperators DEF Worker!Cancel
<1>2. /\ slots' \subseteq [id : Nat, op : 1..MaxOperations, tag : Tags, done : BOOLEAN]
      /\ \A s \in slots' : \E t \in slots :
           /\ t.id = s.id /\ t.op = s.op
           /\ IF t.id = h.id THEN s.done ELSE s = t
      /\ \A i : i \in schedule' <=> \E s \in slots' : s.id = i /\ ~s.done
      /\ \A s, t \in slots' : s.id = t.id \/ s.op = t.op => s = t
  BY <1>1, RemoveFromScheduleMarks
<1>3. \A c : c \in ToSet(ran) <=> Ran(c)
  BY DEF ToSet, Ran, WorkerInv, WorkerTypes
<1>4. /\ h.op \in 1..Len(kinds) /\ kinds[h.op] = "delayed"
      /\ \A s \in slots : h.id = s.id <=> h.op = s.op
  BY DEF WorkerInv, HandlesFit
<1>5. WorkerTypes'
  BY <1>1, <1>2 DEF WorkerInv, WorkerTypes
<1>6. RanFits'
  BY <1>1, <1>3, <1>4 DEF WorkerInv, RanFits, Ran
<1>7. SlotsFit'
  <2>1. ASSUME NEW s \in slots'
        PROVE  /\ s.op \in 1..Len(kinds) /\ kinds[s.op] = "delayed" /\ s.id < nextId
               /\ ~s.done => s.op \notin withdrawn' /\ ~Ran(s.op)
    <3> PICK t \in slots : /\ t.id = s.id /\ t.op = s.op
                           /\ IF t.id = h.id THEN s.done ELSE s = t
      BY <1>2
    <3>1. ~s.done => s = t /\ s.op # h.op
      BY <1>4
    <3> QED
      BY <1>1, <3>1 DEF WorkerInv, SlotsFit
  <2> QED
    BY <1>1, <1>2, <2>1 DEF SlotsFit, Ran
<1>8. HandlesFit'
  BY <1>1, <1>2 DEF WorkerInv, HandlesFit
<1>9. QueueFits' /\ KindsFit' /\ MutexHolds'
  BY <1>1 DEF WorkerInv, QueueFits, KindsFit, MutexHolds
<1> QED
  BY <1>5, <1>6, <1>7, <1>8, <1>9 DEF WorkerInv

\* A delay is past, or operations are asked to run early.
LEMMA OtherEntryStep ==
  ASSUME WorkerInv, \/ Worker!RunScheduledOperations
                    \/ \E s \in slots : Worker!SlotIsDue(s)
  PROVE  WorkerInv'
<1>1. PICK e \in Entry : e.kind # "op" /\ workerQueue' = Append(workerQueue, e)
  <2>1. CASE Worker!RunScheduledOperations
    <3> DEFINE e == [kind |-> "force", id |-> 0]
    <3>1. e \in Entry /\ e.kind # "op" /\ workerQueue' = Append(workerQueue, e)
      BY <2>1 DEF Worker!RunScheduledOperations, Entry
    <3> HIDE DEF e
    <3> QED
      BY <3>1
  <2>2. ASSUME NEW s \in slots, Worker!SlotIsDue(s)
        PROVE  \E e \in Entry : e.kind # "op" /\ workerQueue' = Append(workerQueue, e)
    <3> DEFINE e == [kind |-> "slot", id |-> s.id]
    <3>1. e \in Entry /\ e.kind # "op" /\ workerQueue' = Append(workerQueue, e)
      BY <2>2 DEF Worker!SlotIsDue, Entry, WorkerInv, WorkerTypes
    <3> HIDE DEF e
    <3> QED
      BY <3>1
  <2> QED
    BY <2>1, <2>2
<1>2. UNCHANGED <<calls, isShuttingDown, slots, schedule, nextId, handles, running, kinds, ran,
                  withdrawn>>
  BY DEF Worker!RunScheduledOperations, Worker!SlotIsDue
<1>3. workerQueue' \in Seq(Entry)
  BY <1>1, QueueGrows DEF WorkerInv
<1>4. QueueFits'
  BY <1>1, <1>2, OtherEntryFits
<1>5. WorkerTypes'
  BY <1>2, <1>3 DEF WorkerInv, WorkerTypes
<1>6. MutexHolds' /\ SlotsFit' /\ HandlesFit' /\ RanFits' /\ KindsFit'
  BY <1>2 DEF WorkerInv, MutexHolds, SlotsFit, HandlesFit, RanFits, KindsFit, Ran
<1> QED
  BY <1>4, <1>5, <1>6 DEF WorkerInv

\* The first of the queue is taken off it or stays, and a delayed operation begins
\* or none.
LEMMA QueueStillFits ==
  ASSUME WorkerInv, workerQueue # <<>>, kinds' = kinds,
         workerQueue' \in {workerQueue, Tail(workerQueue)},
         \/ ran' = ran
         \/ \E op \in 1..Len(kinds) : kinds[op] = "delayed" /\ ran' = Append(ran, op)
  PROVE  workerQueue' \in Seq(Entry) /\ QueueFits'
<1>1. \A k \in 1..Len(ran') : kinds[ran'[k]] = "delayed" \/ (k \in 1..Len(ran) /\ ran'[k] = ran[k])
  <2>1. CASE ran' = ran
    BY <2>1
  <2>2. ASSUME NEW op \in 1..Len(kinds), kinds[op] = "delayed", ran' = Append(ran, op)
        PROVE  \A k \in 1..Len(ran') :
                 kinds[ran'[k]] = "delayed" \/ (k \in 1..Len(ran) /\ ran'[k] = ran[k])
    <3>1. op \in 1..MaxOperations
      BY PartsAssumption, LenProperties DEF WorkerInv, WorkerTypes
    <3>2. /\ Len(ran) \in Nat /\ Len(ran') = Len(ran) + 1 /\ ran'[Len(ran')] = op
          /\ \A i \in 1..Len(ran) : ran'[i] = ran[i]
      BY <2>2, <3>1, AppendProperties DEF WorkerInv, WorkerTypes
    <3> QED
      BY <2>2, <3>2
  <2> QED
    BY <2>1, <2>2
<1>2. CASE workerQueue' = workerQueue
  <2>1. ASSUME NEW i \in 1..Len(workerQueue), workerQueue[i].kind = "op"
        PROVE  \A k \in 1..Len(ran') : kinds[ran'[k]] # "delayed" => ran'[k] < workerQueue[i].id
    <3>1. \A k \in 1..Len(ran) : kinds[ran[k]] # "delayed" => ran[k] < workerQueue[i].id
      BY <2>1 DEF WorkerInv, QueueFits
    <3> QED
      BY <1>1, <3>1
  <2>2. QueueFits'
    BY <1>2, <2>1 DEF WorkerInv, QueueFits
  <2>3. workerQueue' \in Seq(Entry)
    BY <1>2 DEF WorkerInv, WorkerTypes
  <2> QED
    BY <2>2, <2>3
<1>3. CASE workerQueue' = Tail(workerQueue)
  <2>1. /\ workerQueue' \in Seq(Entry)
        /\ Len(workerQueue) \in Nat \ {0} /\ Len(workerQueue') = Len(workerQueue) - 1
        /\ \A i \in 1..Len(workerQueue') : i + 1 \in 1..Len(workerQueue)
                                           /\ workerQueue'[i] = workerQueue[i + 1]
    BY <1>3, QueueShrinks DEF WorkerInv
  <2>2. QueueFits'
    <3> SUFFICES ASSUME NEW i \in 1..Len(workerQueue'), workerQueue'[i].kind = "op"
                 PROVE  /\ workerQueue'[i].id \in 1..Len(kinds) /\ kinds[workerQueue'[i].id] # "delayed"
                        /\ \A j \in 1..Len(workerQueue') :
                             workerQueue'[j].kind = "op" /\ i < j => workerQueue'[i].id < workerQueue'[j].id
                        /\ \A k \in 1..Len(ran') : kinds[ran'[k]] # "delayed" => ran'[k] < workerQueue'[i].id
      BY DEF QueueFits
    <3>1. i + 1 \in 1..Len(workerQueue) /\ workerQueue'[i] = workerQueue[i + 1]
      BY <2>1
    <3>2. /\ workerQueue'[i].id \in 1..Len(kinds) /\ kinds[workerQueue'[i].id] # "delayed"
          /\ \A k \in 1..Len(ran) : kinds[ran[k]] # "delayed" => ran[k] < workerQueue'[i].id
      BY <3>1 DEF WorkerInv, QueueFits
    <3>3. ASSUME NEW j \in 1..Len(workerQueue'), workerQueue'[j].kind = "op", i < j
          PROVE  workerQueue'[i].id < workerQueue'[j].id
      <4>1. j + 1 \in 1..Len(workerQueue) /\ workerQueue'[j] = workerQueue[j + 1] /\ i + 1 < j + 1
        BY <2>1, <3>3
      <4> QED
        BY <3>1, <3>3, <4>1 DEF WorkerInv, QueueFits
    <3> QED
      BY <1>1, <3>2, <3>3
  <2> QED
    BY <2>1, <2>2
<1> QED
  BY <1>2, <1>3

\* An operation for now begins.
LEMMA ExecuteNowStep ==
  ASSUME WorkerInv, Worker!ExecuteNow
  PROVE  WorkerInv'
<1> DEFINE op == Head(workerQueue).id
<1>1. /\ workerQueue # <<>> /\ Head(workerQueue).kind = "op" /\ workerQueue' = Tail(workerQueue)
      /\ running' = op /\ ran' = Append(ran, op)
      /\ UNCHANGED <<calls, isShuttingDown, slots, schedule, nextId, handles, kinds, withdrawn>>
  BY DEF Worker!ExecuteNow, Worker!Begins
<1>2. /\ workerQueue' \in Seq(Entry) /\ Head(workerQueue) = workerQueue[1]
      /\ Len(workerQueue) \in Nat \ {0} /\ Len(workerQueue') = Len(workerQueue) - 1
      /\ \A i \in 1..Len(workerQueue') : i + 1 \in 1..Len(workerQueue)
                                         /\ workerQueue'[i] = workerQueue[i + 1]
  BY <1>1, QueueShrinks DEF WorkerInv
<1>3. /\ op = workerQueue[1].id /\ workerQueue[1].kind = "op" /\ 1 \in 1..Len(workerQueue)
      /\ op \in 1..Len(kinds) /\ kinds[op] # "delayed"
      /\ \A k \in 1..Len(ran) : kinds[ran[k]] # "delayed" => ran[k] < op
  BY <1>1, <1>2 DEF WorkerInv, QueueFits
<1> HIDE DEF op
<1>4. ~Ran(op) /\ op \notin withdrawn
  BY <1>3 DEF WorkerInv, RanFits, Ran
<1>5. /\ ran' \in Seq(1..MaxOperations) /\ running' \in 0..MaxOperations
      /\ \A o : Ran(o)' <=> Ran(o) \/ o = op
      /\ RanFits'
      /\ Len(ran) \in Nat /\ Len(ran') = Len(ran) + 1
      /\ \A i \in 1..Len(ran) : ran'[i] = ran[i]
      /\ ran'[Len(ran')] = op
      /\ \A i \in 1..Len(ran') : i \in 1..Len(ran) \/ i = Len(ran')
  BY <1>1, <1>3, <1>4, RanGrows
<1>6. QueueFits'
  <2> SUFFICES ASSUME NEW i \in 1..Len(workerQueue'), workerQueue'[i].kind = "op"
               PROVE  /\ workerQueue'[i].id \in 1..Len(kinds) /\ kinds[workerQueue'[i].id] # "delayed"
                      /\ \A j \in 1..Len(workerQueue') :
                           workerQueue'[j].kind = "op" /\ i < j => workerQueue'[i].id < workerQueue'[j].id
                      /\ \A k \in 1..Len(ran') : kinds[ran'[k]] # "delayed" => ran'[k] < workerQueue'[i].id
    BY <1>1 DEF QueueFits
  <2>1. i + 1 \in 1..Len(workerQueue) /\ workerQueue'[i] = workerQueue[i + 1] /\ 1 < i + 1
    BY <1>2
  <2>2. /\ workerQueue'[i].id \in 1..Len(kinds) /\ kinds[workerQueue'[i].id] # "delayed"
        /\ \A k \in 1..Len(ran) : kinds[ran[k]] # "delayed" => ran[k] < workerQueue'[i].id
        /\ op < workerQueue'[i].id
    BY <1>3, <2>1 DEF WorkerInv, QueueFits
  <2>3. ASSUME NEW j \in 1..Len(workerQueue'), workerQueue'[j].kind = "op", i < j
        PROVE  workerQueue'[i].id < workerQueue'[j].id
    <3>1. j + 1 \in 1..Len(workerQueue) /\ workerQueue'[j] = workerQueue[j + 1] /\ i + 1 < j + 1
      BY <1>2, <2>3
    <3> QED
      BY <2>1, <2>3, <3>1 DEF WorkerInv, QueueFits
  <2> QED
    BY <1>5, <2>2, <2>3
<1>7. WorkerTypes'
  BY <1>1, <1>2, <1>5 DEF WorkerInv, WorkerTypes
<1>8. SlotsFit'
  BY <1>1, <1>3, <1>5 DEF WorkerInv, SlotsFit
<1>9. HandlesFit' /\ KindsFit' /\ MutexHolds'
  BY <1>1 DEF WorkerInv, HandlesFit, KindsFit, MutexHolds
<1> QED
  BY <1>5, <1>6, <1>7, <1>8, <1>9 DEF WorkerInv

\* A time slot comes, and is deleted: one that is done does nothing else.
LEMMA ExecuteSlotStep ==
  ASSUME WorkerInv, NEW s \in slots, Worker!ExecuteSlot(s)
  PROVE  WorkerInv'
<1>1. /\ workerQueue # <<>> /\ workerQueue' = Tail(workerQueue) /\ slots' = slots \ {s}
      /\ UNCHANGED <<calls, isShuttingDown, nextId, handles, kinds, withdrawn>>
      /\ s.done => UNCHANGED <<schedule, running, ran>>
      /\ ~s.done => schedule' = schedule \ {s.id} /\ running' = s.op /\ ran' = Append(ran, s.op)
  BY DEF Worker!ExecuteSlot, Worker!Begins
<1>2. /\ s.op \in 1..Len(kinds) /\ kinds[s.op] = "delayed" /\ s.done \in BOOLEAN
      /\ ~s.done => s.op \notin withdrawn /\ ~Ran(s.op)
      /\ \A t \in slots : t.id = s.id \/ t.op = s.op => t = s
  BY DEF WorkerInv, SlotsFit, WorkerTypes
<1>3. workerQueue' \in Seq(Entry) /\ QueueFits'
  BY <1>1, <1>2, QueueStillFits
<1>4. /\ ran' \in Seq(1..MaxOperations) /\ running' \in 0..MaxOperations /\ RanFits'
      /\ \A o : o # s.op => (Ran(o)' <=> Ran(o))
  <2>1. CASE s.done
    BY <1>1, <2>1 DEF WorkerInv, WorkerTypes, RanFits, Ran
  <2>2. CASE ~s.done
    <3>1. /\ ran' \in Seq(1..MaxOperations) /\ running' \in 0..MaxOperations /\ RanFits'
          /\ \A o : Ran(o)' <=> Ran(o) \/ o = s.op
      BY <1>1, <1>2, <2>2, RanGrows
    <3> QED
      BY <3>1
  <2> QED
    BY <1>2, <2>1, <2>2
<1>5. WorkerTypes'
  BY <1>1, <1>3, <1>4 DEF WorkerInv, WorkerTypes
<1>6. SlotsFit'
  <2>1. \A i : i \in schedule' <=> \E t \in slots' : t.id = i /\ ~t.done
    BY <1>1, <1>2 DEF WorkerInv, SlotsFit
  <2> QED
    BY <1>1, <1>2, <1>4, <2>1 DEF WorkerInv, SlotsFit
<1>7. HandlesFit' /\ KindsFit' /\ MutexHolds'
  BY <1>1 DEF WorkerInv, HandlesFit, KindsFit, MutexHolds
<1> QED
  BY <1>3, <1>4, <1>5, <1>6, <1>7 DEF WorkerInv

\* A delayed operation is run early: its slot will come, and is done.
LEMMA ExecuteForcedStep ==
  ASSUME WorkerInv, Worker!ExecuteForced
  PROVE  WorkerInv'
<1>1. /\ workerQueue # <<>> /\ workerQueue' \in {workerQueue, Tail(workerQueue)}
      /\ UNCHANGED <<calls, isShuttingDown, nextId, handles, kinds, withdrawn>>
      /\ \/ UNCHANGED <<slots, schedule, running, ran>>
         \/ \E s \in slots :
              s.id \in schedule /\ Worker!RemoveFromSchedule(s.id)
              /\ running' = s.op /\ ran' = Append(ran, s.op)
  BY DEF Worker!ExecuteForced, Worker!Begins
<1>2. CASE UNCHANGED <<slots, schedule, running, ran>>
  <2>1. workerQueue' \in Seq(Entry) /\ QueueFits'
    BY <1>1, <1>2, QueueStillFits
  <2> QED
    BY <1>1, <1>2, <2>1 DEF WorkerInv, WorkerTypes, MutexHolds, SlotsFit, HandlesFit, RanFits,
                            KindsFit, Ran
<1>3. ASSUME NEW s \in slots, s.id \in schedule, Worker!RemoveFromSchedule(s.id),
             running' = s.op, ran' = Append(ran, s.op)
      PROVE  WorkerInv'
  <2>1. /\ s.op \in 1..Len(kinds) /\ kinds[s.op] = "delayed"
        /\ s.op \notin withdrawn /\ ~Ran(s.op)
        /\ \A t \in slots : t.id = s.id \/ t.op = s.op => t = s
    BY <1>3 DEF WorkerInv, SlotsFit
  <2>2. workerQueue' \in Seq(Entry) /\ QueueFits'
    BY <1>1, <1>3, <2>1, QueueStillFits
  <2>3. /\ ran' \in Seq(1..MaxOperations) /\ running' \in 0..MaxOperations /\ RanFits'
        /\ \A o : Ran(o)' <=> Ran(o) \/ o = s.op
    BY <1>1, <1>3, <2>1, RanGrows
  <2>4. /\ slots' \subseteq [id : Nat, op : 1..MaxOperations, tag : Tags, done : BOOLEAN]
        /\ \A x \in slots' : \E t \in slots :
             /\ t.id = x.id /\ t.op = x.op
             /\ IF t.id = s.id THEN x.done ELSE x = t
        /\ \A i : i \in schedule' <=> \E x \in slots' : x.id = i /\ ~x.done
        /\ \A x, t \in slots' : x.id = t.id \/ x.op = t.op => x = t
    BY <1>3, RemoveFromScheduleMarks
  <2>5. WorkerTypes'
    BY <1>1, <2>2, <2>3, <2>4 DEF WorkerInv, WorkerTypes
  <2>6. SlotsFit'
    <3>1. ASSUME NEW x \in slots'
          PROVE  /\ x.op \in 1..Len(kinds) /\ kinds[x.op] = "delayed" /\ x.id < nextId
                 /\ ~x.done => x.op \notin withdrawn /\ ~Ran(x.op)'
      <4> PICK t \in slots : /\ t.id = x.id /\ t.op = x.op
                             /\ IF t.id = s.id THEN x.done ELSE x = t
        BY <2>4
      <4>1. ~x.done => x = t /\ x.op # s.op
        BY <2>1
      <4> QED
        BY <2>3, <4>1 DEF WorkerInv, SlotsFit
    <3> QED
      BY <1>1, <2>4, <3>1 DEF SlotsFit
  <2>7. HandlesFit'
    BY <1>1, <2>4 DEF WorkerInv, HandlesFit
  <2>8. KindsFit' /\ MutexHolds'
    BY <1>1 DEF WorkerInv, KindsFit, MutexHolds
  <2> QED
    BY <2>2, <2>3, <2>5, <2>6, <2>7, <2>8 DEF WorkerInv
<1> QED
  BY <1>1, <1>2, <1>3

\* An operation returns.
LEMMA FinishStep ==
  ASSUME WorkerInv, Worker!Finish \/ UNCHANGED workerVars
  PROVE  WorkerInv'
<1>1. /\ running' \in 0..MaxOperations
      /\ UNCHANGED <<calls, isShuttingDown, workerQueue, slots, schedule, nextId, handles, kinds,
                     ran, withdrawn>>
  BY PartsAssumption DEF Worker!Finish, workerVars, WorkerInv, WorkerTypes
<1> QED
  BY <1>1 DEF WorkerInv, WorkerTypes, MutexHolds, SlotsFit, HandlesFit, QueueFits, RanFits,
              KindsFit, Ran

\* The invariant of the worker queue.
LEMMA WorkerStep ==
  ASSUME WorkerInv, Worker!Next \/ UNCHANGED workerVars
  PROVE  WorkerInv'
BY BeginEnqueueStep, EndEnqueueStep, EnqueueAfterDelayStep, CancelStep, OtherEntryStep,
   ExecuteNowStep, ExecuteSlotStep, ExecuteForcedStep, FinishStep
   DEF Worker!Next, Worker!Execute

\* The queue starts empty.
LEMMA WorkerInit ==
  ASSUME Worker!Init
  PROVE  WorkerInv
<1>1. /\ calls = [u \in Worker!Threads |-> "none"] /\ isShuttingDown = FALSE
      /\ workerQueue = <<>> /\ slots = {} /\ schedule = {} /\ nextId = 0
      /\ handles = {} /\ running = 0 /\ kinds = <<>> /\ ran = <<>> /\ withdrawn = {}
  BY DEF Worker!Init
<1>2. WorkerTypes
  <2>1. calls \in [Worker!Threads -> {"now", "even", "shutdown", "none"}]
    BY <1>1
  <2>2. workerQueue \in Seq(Entry) /\ ran \in Seq(1..MaxOperations)
        /\ kinds \in Seq({"now", "even", "shutdown", "delayed"}) /\ Len(kinds) = 0
    BY <1>1
  <2>3. nextId \in Nat /\ running \in 0..MaxOperations
    BY <1>1, PartsAssumption
  <2>4. isShuttingDown \in BOOLEAN
    BY <1>1
  <2> QED
    BY <1>1, <2>1, <2>2, <2>3, <2>4, PartsAssumption DEF WorkerTypes
<1>3. Len(kinds) = 0 /\ Len(ran) = 0 /\ Len(workerQueue) = 0
  BY <1>1
<1>4. MutexHolds /\ SlotsFit /\ HandlesFit
  BY <1>1 DEF MutexHolds, SlotsFit, HandlesFit
<1>5. QueueFits /\ RanFits /\ KindsFit
  BY <1>1, <1>3 DEF QueueFits, RanFits, KindsFit
<1> QED
  BY <1>2, <1>4, <1>5 DEF WorkerInv

\* Nothing is in a sequence twice whose elements are as many as its length.
LEMMA AsManyAsElements ==
  ASSUME NEW T, NEW s \in Seq(T), \A i, j \in 1..Len(s) : i < j => s[i] # s[j]
  PROVE  Cardinality(ToSet(s)) = Len(s)
<1>1. Len(s) \in Nat /\ DOMAIN s = 1..Len(s) /\ s = [i \in 1..Len(s) |-> s[i]]
  BY LenProperties
<1>2. s \in Bijection(1..Len(s), ToSet(s))
  <2>1. \A i \in 1..Len(s) : s[i] \in ToSet(s)
    BY <1>1 DEF ToSet
  <2>2. s \in [1..Len(s) -> ToSet(s)]
    BY <1>1, <2>1
  <2>3. \A i, j \in 1..Len(s) : s[i] = s[j] => i = j
    BY <1>1
  <2>4. \A x \in ToSet(s) : \E i \in 1..Len(s) : s[i] = x
    BY <1>1 DEF ToSet
  <2> QED
    BY <2>2, <2>3, <2>4 DEF Bijection, Injection, Surjection, IsInjective
<1>3. IsFiniteSet(1..Len(s)) /\ Cardinality(1..Len(s)) = Len(s)
  <2> DEFINE n == Len(s)
  <2>1. n \in Nat /\ 1 \in Int /\ n \in Int
    BY <1>1
  <2> HIDE DEF n
  <2>2. IsFiniteSet(1..n) /\ Cardinality(1..n) = n
    BY <2>1, FS_Interval
  <2> QED
    BY <2>2 DEF n
<1> DEFINE S == 1..Len(s)
           E == ToSet(s)
<1>4. s \in Bijection(S, E) /\ IsFiniteSet(S) /\ Cardinality(S) = Len(s)
  BY <1>2, <1>3
<1> HIDE DEF S, E
<1>5. Cardinality(E) = Cardinality(S)
  BY <1>4, FS_Bijection DEF ExistsBijection
<1> QED
  BY <1>4, <1>5 DEF E

\* The invariant implies what the other modules take for granted of the queue.
LEMMA WorkerInvIsSafe ==
  ASSUME WorkerInv
  PROVE  QueueSafety
<1>1. /\ \A c : c \in Worker!ToSet(ran) <=> Ran(c)
      /\ \A c : c \in Worker!ToSet(kinds) <=> \E i \in 1..Len(kinds) : kinds[i] = c
      /\ DOMAIN workerQueue = 1..Len(workerQueue) /\ DOMAIN ran = 1..Len(ran)
  BY SameOperators DEF ToSet, Ran, WorkerInv, WorkerTypes
<1>2. Worker!QueueTypeOK
  <2>1. Worker!Cardinality({u \in Worker!Threads : calls[u] # "none"}) <= 1
    <3> DEFINE C == {u \in Worker!Threads : calls[u] # "none"}
    <3>1. C = {} \/ \E u : C = {u}
      BY DEF WorkerInv, MutexHolds
    <3> HIDE DEF C
    <3>2. Cardinality({}) = 0 /\ \A u : Cardinality({u}) = 1
      BY FS_EmptySet, FS_Singleton
    <3>3. Cardinality(C) = 0 \/ Cardinality(C) = 1
      BY <3>1, <3>2
    <3>4. Cardinality(C) <= 1
      BY <3>3
    <3> QED
      BY <3>4, SameOperators DEF C
  <2>2. calls \in [Worker!Threads -> Worker!Call \union {"none"}]
    BY DEF WorkerInv, WorkerTypes, Worker!Call
  <2>3. \A i \in DOMAIN workerQueue :
          workerQueue[i] \in [kind : {"op"}, id : Worker!Operation]
                             \union [kind : {"slot", "force"}, id : Nat]
    BY <1>1, ElementOfSeq DEF WorkerInv, WorkerTypes, Entry, Worker!Operation
  <2>4. schedule \subseteq 0..(nextId - 1)
    BY DEF WorkerInv, WorkerTypes, SlotsFit
  <2>5. slots \subseteq Worker!Slot /\ handles \subseteq [op : Worker!Operation, id : Nat]
    BY DEF WorkerInv, WorkerTypes, Worker!Slot, Worker!Operation
  <2>6. running \in Worker!Operation \union {0}
    BY PartsAssumption DEF WorkerInv, WorkerTypes, Worker!Operation
  <2>7. Worker!ToSet(kinds) \subseteq Worker!Call \union {"delayed"}
    BY <1>1, ElementOfSeq DEF WorkerInv, WorkerTypes, Worker!Call
  <2>8. Worker!ToSet(ran) \subseteq 1..Len(kinds) /\ withdrawn \subseteq 1..Len(kinds)
    BY <1>1 DEF WorkerInv, RanFits, Ran
  <2> QED
    BY <2>1, <2>2, <2>3, <2>4, <2>5, <2>6, <2>7, <2>8 DEF WorkerInv, WorkerTypes, Worker!QueueTypeOK
<1>3. Worker!ScheduleIsPending
  <2>1. schedule = {s.id : s \in {x \in slots : ~x.done}}
    BY DEF WorkerInv, SlotsFit
  <2> QED
    BY <2>1 DEF WorkerInv, SlotsFit, Worker!ScheduleIsPending
<1>4. Worker!CancelledNeverRuns
  <2>1. Cardinality(ToSet(ran)) = Len(ran)
    BY AsManyAsElements DEF WorkerInv, WorkerTypes, RanFits
  <2>2. withdrawn \intersect Worker!ToSet(ran) = {}
    BY <1>1 DEF WorkerInv, RanFits
  <2> QED
    BY <2>1, <2>2, SameOperators DEF Worker!CancelledNeverRuns
<1>5. Worker!ShutdownIsLast
  <2> SUFFICES ASSUME NEW i \in 1..Len(ran), NEW j \in 1..Len(ran),
                      i < j, kinds[ran[i]] = "shutdown"
               PROVE  kinds[ran[j]] # "now"
    BY <1>1 DEF Worker!ShutdownIsLast
  <2>1. ran[i] \in 1..Len(kinds) /\ ran[j] \in 1..Len(kinds)
    BY DEF WorkerInv, RanFits
  <2>2. kinds[ran[j]] = "now" => ran[i] < ran[j]
    BY DEF WorkerInv, RanFits
  <2> QED
    BY <2>1, <2>2 DEF WorkerInv, KindsFit
<1> QED
  BY <1>2, <1>3, <1>4, <1>5 DEF QueueSafety, Worker!QueueSafety
-----------------------------------------------------------------------------
(***************************************************************************)
(* A call to the backend (GrpcStream)                                      *)
(***************************************************************************)

\* An operation that is back from gRPC and waits on the worker.
HasTask(o) == \E i \in 1..Len(tasks) : tasks[i].op = o

CallTypes == GrpcTypeOK /\ IsFiniteSet(completions) /\ IsFiniteSet(queue)

\* gRPC holds completions of the stream only; each completion, and each whose
\* callback was emptied, is with gRPC or waits as a task, and each task is of one
\* of them.
OpsFit ==
  /\ queue \subseteq completions
  /\ \A o \in completions \union cancelled : o \in queue \/ HasTask(o)
  /\ \A o : HasTask(o) => o \notin queue /\ o \in completions \union cancelled
  /\ \A i, j \in 1..Len(tasks) : i < j => tasks[i].op # tasks[j].op
  /\ blocked.in \in {"nothing", "lastWrite"} => completions \intersect cancelled = {}
  /\ blocked.in \in {"finish", "shutdown"} => completions \subseteq cancelled

\* One completion of a kind; that of a write only while a write is active.
OneEach ==
  /\ \A a, b \in completions : a.type = b.type => a = b
  /\ \A o \in completions : o.type = "write" => activeWrite
  /\ stage = "new" => completions = {}

\* How far the stream and its call have come.
StageFits ==
  /\ stage \in {"finished", "destroyed"} =>
       queue = {} /\ completions = {} /\ ~registered /\ blocked.in = "nothing"
  /\ blocked.in = "shutdown" => ~registered
  /\ blocked.in = "finish" => finished /\ (blocked.next # "report" => ~registered)
  /\ finished => stage # "new"
  /\ finishes = IF finished /\ blocked.in # "finish" THEN 1 ELSE 0
  /\ observer => told = 0

CallInv == CallTypes /\ OpsFit /\ OneEach /\ StageFits /\ WritesInOrder

\* A set of naturals has a least element.
LEMMA LeastNatural ==
  ASSUME NEW S \in SUBSET Nat, S # {}
  PROVE  Min(S) \in S
<1> DEFINE R == OpToRel(<, Nat)
<1>1. IsWellFoundedOn(R, Nat)
  BY NatLessThanWellFounded
<1>2. \A x, y \in Nat : x < y => <<x, y>> \in R
  BY DEF OpToRel
<1> HIDE DEF R
<1>3. PICK x \in S : \A y \in S : ~ (<<y, x>> \in R)
  BY <1>1, WFMin
<1>4. ASSUME NEW y \in S PROVE x <= y
  <2>1. x \in Nat /\ y \in Nat /\ ~(y < x)
    BY <1>2, <1>3
  <2> QED
    BY <2>1
<1> QED
  BY <1>4 DEF Min

\* The ids of finitely many operations are finitely many.
LEMMA FiniteIds ==
  ASSUME NEW S, IsFiniteSet(S)
  PROVE  IsFiniteSet({o.id : o \in S})
<1> DEFINE f == [o \in S |-> o.id]
           T == {o.id : o \in S}
<1>1. f \in Surjection(S, T)
  BY DEF Surjection
<1> HIDE DEF f, T
<1>2. IsFiniteSet(T)
  BY <1>1, FS_Surjection
<1> QED
  BY <1>2 DEF T

\* The operations that wait on the worker are finitely many.
LEMMA FiniteTasks ==
  ASSUME CallTypes
  PROVE  IsFiniteSet({tasks[i].op : i \in DOMAIN tasks})
<1> DEFINE S == DOMAIN tasks
           f == [i \in S |-> tasks[i].op]
           T == {tasks[i].op : i \in S}
<1>1. IsFiniteSet(S)
  <2> DEFINE n == Len(tasks)
  <2>1. n \in Nat /\ S = 1..n
    BY LenProperties DEF CallTypes, GrpcTypeOK
  <2> HIDE DEF n, S
  <2> QED
    BY <2>1, FS_Interval
<1>2. f \in Surjection(S, T)
  <2> HIDE DEF S
  <2> QED
    BY DEF Surjection
<1> HIDE DEF f, T, S
<1>3. IsFiniteSet(T)
  BY <1>1, <1>2, FS_Surjection
<1> QED
  BY <1>3 DEF S, T

\* NewCompletion is unlike every operation still in use.
LEMMA NewOpIsNew ==
  ASSUME CallTypes, OpsFit, NEW type \in {"read", "write", "finish"}
  PROVE  /\ NewOp(type) \in Op /\ NewOp(type).type = type
         /\ NewOp(type) \notin completions \union queue \union cancelled
         /\ ~HasTask(NewOp(type))
<1> DEFINE inUse == completions \union queue \union {tasks[i].op : i \in DOMAIN tasks}
           used  == {o.id : o \in inUse}
           free  == (1 .. Cardinality(used) + 1) \ used
<1>1. NewOp(type) = [id |-> Min(free), type |-> type]
  BY DEF NewOp
<1>2. IsFiniteSet(inUse)
  BY FiniteTasks, FS_Union DEF CallTypes
<1>3. \A o : HasTask(o) => o \in inUse
  BY LenProperties DEF HasTask, CallTypes, GrpcTypeOK
<1> HIDE DEF inUse
<1>4. IsFiniteSet(used)
  BY <1>2, FiniteIds
<1>5. \A o \in inUse : o.id \in used
  OBVIOUS
<1> HIDE DEF used
<1>6. Cardinality(used) \in Nat
  BY <1>4, FS_CardinalityType
<1>7. free \in SUBSET Nat /\ free # {}
  <2> DEFINE n == Cardinality(used) + 1
  <2>1. n \in Nat \ {0} /\ n \in Int /\ 1 \in Int
    BY <1>6
  <2> HIDE DEF n
  <2>2. Cardinality(1..n) = n
    BY <2>1, FS_Interval
  <2>3. free = (1..n) \ used
    BY DEF n
  <2>4. ASSUME 1..n \subseteq used PROVE FALSE
    <3>1. Cardinality(1..n) <= Cardinality(used)
      BY <1>4, <2>4, FS_Subset
    <3> QED
      BY <1>6, <2>2, <3>1 DEF n
  <2> QED
    BY <2>1, <2>3, <2>4
<1>8. Min(free) \in free
  BY <1>7, LeastNatural
<1>9. Min(free) \in Nat /\ Min(free) \notin used
  BY <1>6, <1>8
<1> HIDE DEF free
<1>10. NewOp(type) \in Op /\ NewOp(type).type = type /\ NewOp(type).id = Min(free)
  BY <1>1, <1>9 DEF Op
<1>11. NewOp(type) \notin inUse
  BY <1>5, <1>9, <1>10
<1>12. NewOp(type) \notin completions \union queue
  BY <1>11 DEF inUse
<1> QED
  BY <1>3, <1>10, <1>11, <1>12 DEF OpsFit

\* The rest of a sequence that is not empty.
LEMMA TailOfSequence ==
  ASSUME NEW T, NEW s \in Seq(T), s # <<>>
  PROVE  /\ Tail(s) \in Seq(T) /\ Head(s) = s[1] /\ Head(s) \in T
         /\ Len(s) \in Nat \ {0} /\ Len(Tail(s)) = Len(s) - 1
         /\ \A i \in 1..Len(Tail(s)) : Tail(s)[i] = s[i + 1]
BY HeadTailProperties, EmptySeq

\* The worker takes up the first of its tasks.
LEMMA TasksShrink ==
  ASSUME CallTypes, OpsFit, tasks # <<>>, tasks' = Tail(tasks)
  PROVE  /\ tasks' \in Seq([op : Op, ok : BOOLEAN]) /\ Head(tasks) \in [op : Op, ok : BOOLEAN]
         /\ HasTask(Head(tasks).op)
         /\ \A o : HasTask(o)' <=> HasTask(o) /\ o # Head(tasks).op
         /\ \A i, j \in 1..Len(tasks') : i < j => tasks'[i].op # tasks'[j].op
<1>1. /\ tasks' \in Seq([op : Op, ok : BOOLEAN]) /\ Head(tasks) = tasks[1]
      /\ Len(tasks) \in Nat \ {0} /\ Len(tasks') = Len(tasks) - 1
      /\ \A i \in 1..Len(tasks') : tasks'[i] = tasks[i + 1]
      /\ Head(tasks) \in [op : Op, ok : BOOLEAN]
  <2>1. /\ Tail(tasks) \in Seq([op : Op, ok : BOOLEAN])
        /\ Len(tasks) \in Nat \ {0} /\ Len(Tail(tasks)) = Len(tasks) - 1
        /\ \A i \in 1..Len(Tail(tasks)) : Tail(tasks)[i] = tasks[i + 1]
        /\ Head(tasks) = tasks[1] /\ Head(tasks) \in [op : Op, ok : BOOLEAN]
    <3> DEFINE T == [op : Op, ok : BOOLEAN]
    <3>1. tasks \in Seq(T)
      BY DEF CallTypes, GrpcTypeOK
    <3> HIDE DEF T
    <3>2. /\ Tail(tasks) \in Seq(T)
          /\ Len(tasks) \in Nat \ {0} /\ Len(Tail(tasks)) = Len(tasks) - 1
          /\ \A i \in 1..Len(Tail(tasks)) : Tail(tasks)[i] = tasks[i + 1]
          /\ Head(tasks) = tasks[1] /\ Head(tasks) \in T
      BY <3>1, TailOfSequence
    <3> QED
      BY <3>2 DEF T
  <2> QED
    BY <2>1
<1>2. 1 \in 1..Len(tasks)
  BY <1>1
<1>3. ASSUME NEW o PROVE HasTask(o)' => HasTask(o) /\ o # Head(tasks).op
  <2> SUFFICES ASSUME NEW i \in 1..Len(tasks'), tasks'[i].op = o
               PROVE  HasTask(o) /\ o # Head(tasks).op
    BY DEF HasTask
  <2>1. i + 1 \in 1..Len(tasks) /\ tasks[i + 1].op = o /\ 1 < i + 1
    BY <1>1
  <2> QED
    BY <1>1, <1>2, <2>1 DEF HasTask, OpsFit
<1>4. ASSUME NEW o, HasTask(o), o # Head(tasks).op PROVE HasTask(o)'
  <2> PICK i \in 1..Len(tasks) : tasks[i].op = o
    BY <1>4 DEF HasTask
  <2>1. i - 1 \in 1..Len(tasks') /\ tasks'[i - 1] = tasks[i]
    BY <1>1, <1>4
  <2> QED
    BY <2>1 DEF HasTask
<1>5. \A i, j \in 1..Len(tasks') : i < j => tasks'[i].op # tasks'[j].op
  <2> SUFFICES ASSUME NEW i \in 1..Len(tasks'), NEW j \in 1..Len(tasks'), i < j
               PROVE  tasks'[i].op # tasks'[j].op
    OBVIOUS
  <2>1. i + 1 \in 1..Len(tasks) /\ j + 1 \in 1..Len(tasks) /\ i + 1 < j + 1
    BY <1>1
  <2> QED
    BY <1>1, <2>1 DEF OpsFit
<1> QED
  BY <1>1, <1>2, <1>3, <1>4, <1>5 DEF HasTask

\* The places where a task of the worker can be.
LEMMA BlockedPlaces ==
  /\ \A b \in Blocked :
       /\ b.in \in {"nothing", "lastWrite", "finish", "shutdown"}
       /\ b.in = "nothing" <=> b = Idle
       /\ b.in = "lastWrite" => b.next = "silent"
       /\ b.in = "finish" => b.next \in {"report", "silent", "notify"}
       /\ b.in = "shutdown" => b.next \in {"silent", "notify"}
  /\ Idle \in Blocked
  /\ \A next \in {"silent", "notify"} :
       /\ [in |-> "finish", next |-> next] \in Blocked
       /\ [in |-> "shutdown", next |-> next] \in Blocked
  /\ [in |-> "finish", next |-> "report"] \in Blocked
  /\ [in |-> "lastWrite", next |-> "silent"] \in Blocked
BY DEF Blocked, Idle

\* Messages that move from the buffer to gRPC keep their order.
LEMMA WriteStarts ==
  ASSUME CallTypes, NEW pending \in Seq(1..MaxWrites), NEW act \in BOOLEAN, NEW left,
         TryStartWrite(pending, act, left)
  PROVE  /\ buffer' \in Seq(1..MaxWrites) /\ sent' \in Seq(1..MaxWrites)
         /\ activeWrite' \in BOOLEAN
         /\ sent' \o buffer' = sent \o pending
         /\ \/ completions' = left /\ queue' = queue /\ activeWrite' = act
            \/ /\ ~act /\ activeWrite' = TRUE
               /\ completions' = left \union {NewOp("write")}
               /\ queue' = queue \union {NewOp("write")}
<1>1. CASE pending = <<>> \/ act
  BY <1>1 DEF TryStartWrite, CallTypes, GrpcTypeOK
<1>2. CASE pending # <<>> /\ ~act
  <2>1. /\ buffer' = Tail(pending) /\ activeWrite' = TRUE
        /\ sent' = Append(sent, Head(pending))
        /\ completions' = left \union {NewOp("write")}
        /\ queue' = queue \union {NewOp("write")}
    BY <1>2 DEF TryStartWrite, Issue
  <2> DEFINE T == 1..MaxWrites
             h == Head(pending)
             rest == Tail(pending)
  <2>2. pending \in Seq(T) /\ pending # <<>> /\ sent \in Seq(T)
    BY <1>2 DEF CallTypes, GrpcTypeOK
  <2> HIDE DEF T
  <2>3. /\ rest \in Seq(T) /\ h = pending[1] /\ h \in T
        /\ Len(pending) \in Nat \ {0} /\ Len(rest) = Len(pending) - 1
        /\ \A i \in 1..Len(rest) : rest[i] = pending[i + 1]
    BY <2>2, TailOfSequence
  <2> HIDE DEF h, rest
  <2>4. /\ Append(sent, h) \in Seq(T) /\ Len(Append(sent, h)) = Len(sent) + 1
        /\ \A i \in 1..Len(sent) : Append(sent, h)[i] = sent[i]
        /\ Append(sent, h)[Len(sent) + 1] = h
        /\ Len(sent) \in Nat
    BY <2>2, <2>3, AppendProperties
  <2> DEFINE more == Append(sent, h)
  <2> HIDE DEF more
  <2>5. more \in Seq(T) /\ Len(more) = Len(sent) + 1 /\ more[Len(sent) + 1] = h
        /\ \A i \in 1..Len(sent) : more[i] = sent[i]
    BY <2>4 DEF more
  <2>6. /\ more \o rest \in Seq(T) /\ Len(more \o rest) = Len(more) + Len(rest)
        /\ \A i \in 1..(Len(more) + Len(rest)) :
             (more \o rest)[i] = IF i <= Len(more) THEN more[i] ELSE rest[i - Len(more)]
    BY <2>3, <2>5, ConcatProperties
  <2>7. /\ sent \o pending \in Seq(T) /\ Len(sent \o pending) = Len(sent) + Len(pending)
        /\ \A i \in 1..(Len(sent) + Len(pending)) :
             (sent \o pending)[i] = IF i <= Len(sent) THEN sent[i] ELSE pending[i - Len(sent)]
    BY <2>2, ConcatProperties
  <2>8. Len(more \o rest) = Len(sent \o pending)
    BY <2>3, <2>4, <2>5, <2>6, <2>7
  <2>9. \A i \in 1..Len(more \o rest) : (more \o rest)[i] = (sent \o pending)[i]
    <3> SUFFICES ASSUME NEW i \in 1..(Len(sent) + Len(pending))
                 PROVE  (more \o rest)[i] = (sent \o pending)[i]
      BY <2>7, <2>8
    <3>1. CASE i <= Len(sent)
      BY <2>3, <2>4, <2>5, <2>6, <2>7, <3>1
    <3>2. CASE i = Len(sent) + 1
      <4>1. (more \o rest)[i] = h
        <5>1. i \in 1..(Len(more) + Len(rest)) /\ i <= Len(more)
          BY <2>3, <2>4, <2>5, <3>2
        <5>2. (more \o rest)[i] = more[i]
          BY <2>6, <5>1
        <5>3. more[i] = more[Len(sent) + 1]
          BY <3>2
        <5> QED
          BY <2>5, <5>2, <5>3
      <4>2. i - Len(sent) = 1 /\ ~(i <= Len(sent)) /\ i \in 1..(Len(sent) + Len(pending))
        BY <2>3, <2>4, <3>2
      <4>3. (sent \o pending)[i] = pending[1]
        BY <2>7, <4>2
      <4> QED
        BY <2>3, <4>1, <4>3
    <3>3. CASE i > Len(sent) + 1
      <4>1. i - Len(more) \in 1..Len(rest) /\ (i - Len(more)) + 1 = i - Len(sent)
        BY <2>3, <2>4, <2>5, <3>3
      <4>2. (more \o rest)[i] = rest[i - Len(more)]
        BY <2>3, <2>4, <2>5, <2>6, <3>3
      <4>3. (sent \o pending)[i] = pending[i - Len(sent)]
        BY <2>3, <2>4, <2>7, <3>3
      <4> QED
        BY <2>3, <4>1, <4>2, <4>3
    <3>4. i \in Int /\ Len(sent) \in Int
      BY <2>4
    <3>5. i <= Len(sent) \/ i = Len(sent) + 1 \/ i > Len(sent) + 1
      BY <3>4
    <3> QED
      BY <3>1, <3>2, <3>3, <3>5
  <2>10. more \o rest = sent \o pending
    BY <2>6, <2>7, <2>8, <2>9, SeqEqual
  <2> QED
    BY <1>2, <2>1, <2>3, <2>5, <2>10 DEF more, h, rest, T
<1> QED
  BY <1>1, <1>2

\* Shutdown: whoever calls it, what the worker waits for has been emptied.
LEMMA ShutdownStep ==
  ASSUME CallInv, blocked.in \in {"nothing", "lastWrite"}, stage \in {"new", "started"},
         NEW next \in {"silent", "notify"}, Shutdown(next),
         UNCHANGED <<writeVars, tasks, received, told, finishes>>
  PROVE  CallInv'
<1>1. /\ registered' = FALSE
      /\ cancelled' = cancelled \union completions
      /\ UNCHANGED <<stage, observer, completions, queue, tasks, buffer, activeWrite, written, sent,
                     received, told, finishes>>
      /\ \/ /\ completions # {} /\ ~finished /\ finished' = TRUE /\ broken' = TRUE
            /\ blocked' = [in |-> "finish", next |-> next]
         \/ blocked' = [in |-> "shutdown", next |-> next] /\ UNCHANGED <<broken, finished>>
  BY DEF Shutdown, BlockIn, writeVars
<1>2. /\ blocked' \in Blocked
      /\ \/ /\ completions # {} /\ ~finished /\ finished' = TRUE /\ broken' = TRUE
            /\ blocked'.in = "finish"
         \/ blocked'.in = "shutdown" /\ UNCHANGED <<broken, finished>>
  BY <1>1, BlockedPlaces
<1>3. CallTypes'
  BY <1>1, <1>2 DEF CallInv, CallTypes, GrpcTypeOK
<1>4. OpsFit'
  BY <1>1, <1>2 DEF CallInv, OpsFit, HasTask
<1>5. OneEach' /\ WritesInOrder'
  BY <1>1 DEF CallInv, OneEach, WritesInOrder
<1>6. StageFits'
  BY <1>1, <1>2 DEF CallInv, StageFits, OneEach
<1> QED
  BY <1>3, <1>4, <1>5, <1>6 DEF CallInv

\* FinishImmediately, the end of WriteAndFinish, and a change of connectivity.
LEMMA ShutdownsStep ==
  ASSUME CallInv, FinishImmediately \/ ConnectivityChanges \/ LastWriteWaited
  PROVE  CallInv'
<1>1. CASE FinishImmediately
  BY <1>1, ShutdownStep, BlockedPlaces DEF FinishImmediately
<1>2. CASE ConnectivityChanges
  <2>1. blocked.in = "nothing" /\ stage \in {"new", "started"}
    BY <1>2, BlockedPlaces DEF ConnectivityChanges, CallInv, CallTypes, GrpcTypeOK, StageFits
  <2> QED
    BY <1>2, <2>1, ShutdownStep DEF ConnectivityChanges
<1>3. CASE LastWriteWaited
  <2>1. /\ blocked.in = "lastWrite" /\ blocked.next = "silent" /\ stage \in {"new", "started"}
    BY <1>3, BlockedPlaces DEF LastWriteWaited, CallInv, CallTypes, GrpcTypeOK, StageFits
  <2> QED
    BY <1>3, <2>1, ShutdownStep DEF LastWriteWaited
<1> QED
  BY <1>1, <1>2, <1>3

\* A read or a write is given to gRPC, or nothing, with the worker where it was or
\* waiting for the last write.
LEMMA IssueStep ==
  ASSUME CallInv, NEW type \in {"read", "write"},
         \/ completions' = completions /\ queue' = queue
         \/ /\ completions' = completions \union {NewOp(type)}
            /\ queue' = queue \union {NewOp(type)}
            /\ \A o \in completions : o.type # type
            /\ stage' # "new"
            /\ type = "write" => activeWrite',
         activeWrite => activeWrite', activeWrite' \in BOOLEAN,
         blocked.in = "nothing", stage \in {"new", "started"},
         stage' \in {stage, "started"},
         blocked' \in Blocked, blocked'.in \in {"nothing", "lastWrite"},
         buffer' \in Seq(1..MaxWrites), sent' \in Seq(1..MaxWrites), written' \in Seq(1..MaxWrites),
         sent' \o buffer' = written',
         UNCHANGED <<observer, registered, finished, cancelled, tasks, broken, received, told,
                     finishes>>
  PROVE  CallInv'
<1>1. /\ NewOp(type) \in Op /\ NewOp(type).type = type
      /\ NewOp(type) \notin completions \union queue \union cancelled
      /\ ~HasTask(NewOp(type))
  BY NewOpIsNew DEF CallInv
<1>2. IsFiniteSet(completions') /\ IsFiniteSet(queue')
  BY FS_AddElement DEF CallInv, CallTypes
<1>3. CallTypes'
  BY <1>1, <1>2 DEF CallInv, CallTypes, GrpcTypeOK
<1>4. OpsFit'
  <2>1. \A o : HasTask(o)' <=> HasTask(o)
    BY DEF HasTask
  <2>2. queue' \subseteq completions' /\ \A i, j \in 1..Len(tasks') : i < j => tasks'[i].op # tasks'[j].op
    BY DEF CallInv, OpsFit
  <2>3. \A o \in completions' \union cancelled' : o \in queue' \/ HasTask(o)'
    BY <2>1 DEF CallInv, OpsFit
  <2>4. \A o : HasTask(o)' => o \notin queue' /\ o \in completions' \union cancelled'
    BY <1>1, <2>1 DEF CallInv, OpsFit
  <2>5. completions' \intersect cancelled' = {}
    BY <1>1 DEF CallInv, OpsFit
  <2> QED
    BY <2>2, <2>3, <2>4, <2>5 DEF OpsFit
<1>5. OneEach'
  BY <1>1 DEF CallInv, OneEach
<1>6. StageFits'
  BY DEF CallInv, StageFits
<1> QED
  BY <1>3, <1>4, <1>5, <1>6 DEF CallInv, WritesInOrder

\* Start gives the first read to gRPC.
LEMMA StartStep ==
  ASSUME CallInv, Start
  PROVE  CallInv'
<1>1. /\ blocked.in = "nothing" /\ stage = "new" /\ stage' = "started"
      /\ completions' = completions \union {NewOp("read")}
      /\ queue' = queue \union {NewOp("read")}
      /\ UNCHANGED <<observer, registered, finished, cancelled, tasks, broken, received, told,
                     finishes, buffer, activeWrite, written, sent, blocked>>
  BY BlockedPlaces DEF Start, Issue, writeVars
<1>2. completions = {} /\ blocked' \in Blocked /\ activeWrite' \in BOOLEAN
      /\ buffer' \in Seq(1..MaxWrites) /\ sent' \in Seq(1..MaxWrites) /\ written' \in Seq(1..MaxWrites)
      /\ sent' \o buffer' = written'
  BY <1>1 DEF CallInv, OneEach, CallTypes, GrpcTypeOK, WritesInOrder
<1> QED
  BY <1>1, <1>2, IssueStep

\* A message is written: buffered, or given to gRPC if no other write is active.
LEMMA WriteStep ==
  ASSUME CallInv, blocked = Idle, stage = "started", Len(written) < MaxWrites,
         written' = Append(written, Len(written) + 1),
         TryStartWrite(Append(buffer, Len(written) + 1), activeWrite, completions),
         blocked' \in Blocked, blocked'.in \in {"nothing", "lastWrite"},
         UNCHANGED <<streamVars, cancelled, tasks, broken, received, told, finishes>>
  PROVE  CallInv'
<1> DEFINE m == Len(written) + 1
           pending == Append(buffer, m)
<1>1. /\ written \in Seq(1..MaxWrites) /\ buffer \in Seq(1..MaxWrites) /\ sent \in Seq(1..MaxWrites)
      /\ activeWrite \in BOOLEAN /\ CallTypes /\ sent \o buffer = written
  BY DEF CallInv, CallTypes, GrpcTypeOK, WritesInOrder
<1>2. m \in 1..MaxWrites
  BY <1>1, LenProperties, BoundsAssumption
<1> HIDE DEF m
<1>3. pending \in Seq(1..MaxWrites) /\ written' \in Seq(1..MaxWrites)
      /\ written' = Append(written, m)
  BY <1>1, <1>2, AppendProperties DEF m
<1>4. sent \o pending = written'
  <2> DEFINE T == 1..MaxWrites
  <2>1. sent \in Seq(T) /\ buffer \in Seq(T) /\ written \in Seq(T) /\ m \in T /\ <<m>> \in Seq(T)
    BY <1>1, <1>2
  <2> HIDE DEF T
  <2>2. pending = buffer \o <<m>> /\ written' = written \o <<m>>
    BY <1>3, <2>1, AppendIsConcat
  <2>3. (sent \o buffer) \o <<m>> = sent \o (buffer \o <<m>>)
    BY <2>1, ConcatAssociative, SMTT(60)
  <2> QED
    BY <1>1, <2>2, <2>3
<1>5. TryStartWrite(pending, activeWrite, completions)
  BY DEF m
<1> HIDE DEF pending
<1>6. /\ buffer' \in Seq(1..MaxWrites) /\ sent' \in Seq(1..MaxWrites)
      /\ activeWrite' \in BOOLEAN
      /\ sent' \o buffer' = sent \o pending
      /\ \/ completions' = completions /\ queue' = queue /\ activeWrite' = activeWrite
         \/ /\ ~activeWrite /\ activeWrite' = TRUE
            /\ completions' = completions \union {NewOp("write")}
            /\ queue' = queue \union {NewOp("write")}
  BY <1>1, <1>3, <1>5, WriteStarts
<1>7. blocked.in = "nothing" /\ \A o \in completions : o.type = "write" => activeWrite
  BY BlockedPlaces DEF CallInv, OneEach
<1> QED
  BY <1>3, <1>4, <1>6, <1>7, IssueStep DEF streamVars

\* Write, and WriteAndFinish with the wait for the message it writes.
LEMMA WritesStep ==
  ASSUME CallInv, Write \/ WriteAndFinish
  PROVE  CallInv'
<1>1. CASE Write
  <2>1. blocked' = Idle
    BY <1>1 DEF Write, Ready
  <2> QED
    BY <1>1, <2>1, WriteStep, BlockedPlaces DEF Write, Ready
<1>2. CASE WriteAndFinish /\ ~finished
  <2>1. blocked' = [in |-> "lastWrite", next |-> "silent"]
    BY <1>2 DEF WriteAndFinish
  <2>2. blocked' \in Blocked /\ blocked'.in = "lastWrite"
    BY <2>1, BlockedPlaces
  <2> QED
    BY <1>2, <2>2, WriteStep DEF WriteAndFinish, Ready
<1>3. CASE WriteAndFinish /\ finished
  <2>1. /\ blocked.in = "nothing" /\ stage = "started" /\ Shutdown("silent")
        /\ UNCHANGED <<writeVars, tasks, received, told, finishes>>
    BY <1>3, BlockedPlaces DEF WriteAndFinish, Ready
  <2> QED
    BY <2>1, ShutdownStep
<1> QED
  BY <1>1, <1>2, <1>3

\* The finish of the call replaces what it waited for.
LEMMA FinishCallStep ==
  ASSUME CallInv, FinishCall
  PROVE  CallInv'
<1> DEFINE op == NewOp("finish")
<1>1. /\ op \in Op /\ op.type = "finish"
      /\ op \notin completions \union queue \union cancelled
      /\ ~HasTask(op)
  BY NewOpIsNew DEF CallInv
<1>2. /\ blocked.in = "finish" /\ completions \intersect queue = {}
      /\ completions' = {op} /\ queue' = queue \union {op}
      /\ finishes' = finishes + 1
      /\ UNCHANGED <<stage, observer, registered, finished, buffer, activeWrite, written, sent, tasks,
                     broken, received, told>>
  BY DEF FinishCall, Issue, Back, streamVars, writeVars
<1>3. \/ blocked.next = "report" /\ blocked' = Idle /\ cancelled' = cancelled
      \/ /\ blocked.next # "report" /\ blocked' = [blocked EXCEPT !.in = "shutdown"]
         /\ cancelled' = cancelled \union completions'
  BY DEF FinishCall
<1> HIDE DEF op
<1>4. queue = {} /\ queue' = {op}
  BY <1>2 DEF CallInv, OpsFit
<1>5. \/ blocked.next = "report" /\ blocked' \in Blocked /\ blocked'.in = "nothing" /\ cancelled' = cancelled
      \/ /\ blocked.next # "report" /\ blocked' \in Blocked /\ blocked'.in = "shutdown"
         /\ cancelled' = cancelled \union {op}
  <2>1. CASE blocked.next = "report"
    BY <1>3, <2>1, BlockedPlaces
  <2>2. CASE blocked.next # "report"
    <3>1. blocked.next \in {"silent", "notify"} /\ blocked \in [in : {"finish"}, next : {"report", "silent", "notify"}]
      BY <1>2, <2>2, BlockedPlaces DEF CallInv, CallTypes, GrpcTypeOK, Blocked, Idle
    <3>2. blocked' = [in |-> "shutdown", next |-> blocked.next]
      BY <1>3, <2>2, <3>1
    <3> QED
      BY <1>2, <1>3, <2>2, <3>1, <3>2, BlockedPlaces
  <2> QED
    BY <2>1, <2>2
<1>6. CallTypes'
  <2>1. IsFiniteSet(completions') /\ IsFiniteSet(queue')
    BY <1>2, <1>4, FS_Singleton
  <2> QED
    BY <1>1, <1>2, <1>4, <1>5, <2>1 DEF CallInv, CallTypes, GrpcTypeOK
<1>7. OpsFit'
  BY <1>1, <1>2, <1>4, <1>5 DEF CallInv, OpsFit, HasTask
<1>8. stage \notin {"new", "finished", "destroyed"} /\ finished /\ finishes = 0
  BY <1>2 DEF CallInv, StageFits
<1>9. OneEach'
  BY <1>1, <1>2, <1>8 DEF CallInv, OneEach
<1>10. StageFits'
  BY <1>2, <1>4, <1>5, <1>8 DEF CallInv, StageFits
<1> QED
  BY <1>2, <1>6, <1>7, <1>9, <1>10 DEF CallInv, WritesInOrder

\* The rest of Shutdown: with everything back, the stream holds nothing any more.
LEMMA FinishShutdownStep ==
  ASSUME CallInv, FinishShutdown
  PROVE  CallInv'
<1>1. /\ blocked.in = "shutdown" /\ completions \intersect queue = {}
      /\ completions' = {} /\ blocked' = Idle /\ observer' = FALSE /\ stage' = "finished"
      /\ told' = IF blocked.next = "notify" /\ observer THEN told + 1 ELSE told
      /\ UNCHANGED <<finishes, registered, finished, cancelled, queue, buffer, activeWrite, written,
                     sent, tasks, broken, received>>
  BY DEF FinishShutdown, Back, writeVars
<1>2. queue = {} /\ blocked' \in Blocked /\ blocked'.in = "nothing" /\ ~registered
  BY <1>1, BlockedPlaces DEF CallInv, OpsFit, StageFits
<1>3. told' \in 0..1
  BY <1>1 DEF CallInv, StageFits, CallTypes, GrpcTypeOK
<1>4. CallTypes'
  BY <1>1, <1>2, <1>3, FS_EmptySet DEF CallInv, CallTypes, GrpcTypeOK
<1>5. OpsFit'
  BY <1>1, <1>2 DEF CallInv, OpsFit, HasTask
<1>6. OneEach' /\ StageFits' /\ WritesInOrder'
  BY <1>1, <1>2 DEF CallInv, OneEach, StageFits, WritesInOrder
<1> QED
  BY <1>4, <1>5, <1>6 DEF CallInv

\* The owner lets go of the stream, the call breaks, or nothing happens to it.
LEMMA NoOpStep ==
  ASSUME CallInv, Destroy \/ Break \/ UNCHANGED vars
  PROVE  CallInv'
<1>1. /\ stage' \in {stage, "destroyed"}
      /\ stage' # stage => stage = "finished"
      /\ broken' \in BOOLEAN
      /\ UNCHANGED <<observer, registered, finished, completions, cancelled, queue, buffer,
                     activeWrite, written, sent, blocked, tasks, received, told, finishes>>
  BY DEF Destroy, Break, vars, streamVars, opVars, writeVars, CallInv, CallTypes, GrpcTypeOK
<1>2. CallTypes'
  BY <1>1 DEF CallInv, CallTypes, GrpcTypeOK
<1>3. OpsFit' /\ OneEach' /\ StageFits' /\ WritesInOrder'
  BY <1>1 DEF CallInv, OpsFit, HasTask, OneEach, StageFits, WritesInOrder
<1> QED
  BY <1>2, <1>3 DEF CallInv

\* An operation is back from gRPC: it becomes the last task of the worker.
LEMMA CompleteStep ==
  ASSUME CallInv, NEW op \in queue, NEW ok \in BOOLEAN, Complete(op, ok)
  PROVE  CallInv'
<1> DEFINE task == [op |-> op, ok |-> ok]
           T == [op : Op, ok : BOOLEAN]
<1>1. /\ queue' = queue \ {op} /\ tasks' = Append(tasks, task)
      /\ op.type = "read" /\ ok => received < MaxReads
      /\ received' = IF op.type = "read" /\ ok THEN received + 1 ELSE received
      /\ UNCHANGED <<stage, observer, registered, finished, completions, cancelled, buffer,
                     activeWrite, written, sent, blocked, broken, told, finishes>>
  BY DEF Complete, streamVars, writeVars
<1>2. task \in T /\ task.op = op /\ tasks \in Seq(T)
  BY DEF CallInv, CallTypes, GrpcTypeOK
<1> HIDE DEF task, T
<1>3. /\ tasks' \in Seq(T) /\ Len(tasks) \in Nat /\ Len(tasks') = Len(tasks) + 1
      /\ \A i \in 1..Len(tasks) : tasks'[i] = tasks[i]
      /\ tasks'[Len(tasks')] = task
      /\ \A i \in 1..Len(tasks') : i \in 1..Len(tasks) \/ i = Len(tasks')
  BY <1>1, <1>2, AppendProperties
<1>4. \A o : HasTask(o)' <=> HasTask(o) \/ o = op
  BY <1>2, <1>3 DEF HasTask
<1>5. received' \in 0..MaxReads
  BY <1>1, BoundsAssumption DEF CallInv, CallTypes, GrpcTypeOK
<1>6. IsFiniteSet(queue')
  BY <1>1, FS_RemoveElement DEF CallInv, CallTypes
<1>7. CallTypes'
  BY <1>1, <1>3, <1>5, <1>6 DEF CallInv, CallTypes, GrpcTypeOK, T
<1>8. OpsFit'
  <2>1. \A i, j \in 1..Len(tasks') : i < j => tasks'[i].op # tasks'[j].op
    BY <1>2, <1>3 DEF CallInv, OpsFit, HasTask
  <2>2. queue' \subseteq completions' /\ \A o \in completions' \union cancelled' : o \in queue' \/ HasTask(o)'
    BY <1>1, <1>4 DEF CallInv, OpsFit
  <2>3. \A o : HasTask(o)' => o \notin queue' /\ o \in completions' \union cancelled'
    BY <1>1, <1>4 DEF CallInv, OpsFit
  <2> QED
    BY <1>1, <2>1, <2>2, <2>3 DEF CallInv, OpsFit
<1>9. OneEach' /\ StageFits' /\ WritesInOrder'
  BY <1>1 DEF CallInv, OneEach, StageFits, WritesInOrder
<1> QED
  BY <1>7, <1>8, <1>9 DEF CallInv

\* What a task does to the operations: its own is no longer in use, and another
\* of its kind may be given to gRPC.
LEMMA TaskLeaves ==
  ASSUME CallInv, tasks # <<>>, tasks' = Tail(tasks), NEW op, op = Head(tasks).op,
         op \notin cancelled, blocked.in = "nothing",
         \/ completions' = completions \ {op} /\ queue' = queue
         \/ \E type \in {"read", "write"} :
              /\ completions' = (completions \ {op}) \union {NewOp(type)}
              /\ queue' = queue \union {NewOp(type)}
              /\ \A o \in completions \ {op} : o.type # type
              /\ type = "write" => activeWrite',
         (\E o \in completions \ {op} : o.type = "write") => activeWrite',
         stage' = stage,
         \/ cancelled' = cancelled /\ blocked' = blocked
         \/ /\ completions' = completions \ {op} /\ queue' = queue
            /\ cancelled' = cancelled \union (completions \ {op})
            /\ blocked' \in Blocked /\ blocked'.in \in {"finish", "shutdown"}
  PROVE  /\ OpsFit' /\ OneEach'
         /\ completions' \subseteq Op /\ queue' \subseteq Op /\ cancelled' \subseteq Op
         /\ tasks' \in Seq([op : Op, ok : BOOLEAN])
         /\ IsFiniteSet(completions') /\ IsFiniteSet(queue') /\ blocked' \in Blocked
         /\ stage = "started"
<1>1. /\ tasks' \in Seq([op : Op, ok : BOOLEAN])
      /\ HasTask(op)
      /\ \A o : HasTask(o)' <=> HasTask(o) /\ o # op
      /\ \A i, j \in 1..Len(tasks') : i < j => tasks'[i].op # tasks'[j].op
  BY TasksShrink DEF CallInv
<1>2. op \in completions /\ op \notin queue /\ completions \intersect cancelled = {}
  BY <1>1 DEF CallInv, OpsFit
<1>3. stage = "started"
  BY <1>2 DEF CallInv, StageFits, OneEach, CallTypes, GrpcTypeOK
<1>4. \A type \in {"read", "write"} :
        /\ NewOp(type) \in Op /\ NewOp(type).type = type
        /\ NewOp(type) \notin completions \union queue \union cancelled
        /\ ~HasTask(NewOp(type))
  BY NewOpIsNew DEF CallInv
<1>5. IsFiniteSet(completions \ {op})
  BY FS_RemoveElement DEF CallInv, CallTypes
<1>6. /\ IsFiniteSet(completions') /\ IsFiniteSet(queue')
  <2>1. CASE completions' = completions \ {op} /\ queue' = queue
    BY <1>5, <2>1 DEF CallInv, CallTypes
  <2>2. ASSUME NEW o, completions' = (completions \ {op}) \union {o}, queue' = queue \union {o}
        PROVE  IsFiniteSet(completions') /\ IsFiniteSet(queue')
    BY <1>5, <2>2, FS_AddElement DEF CallInv, CallTypes
  <2> QED
    BY <2>1, <2>2
<1>7. /\ completions' \subseteq Op /\ queue' \subseteq Op /\ cancelled' \subseteq Op
      /\ blocked' \in Blocked
  BY <1>4 DEF CallInv, CallTypes, GrpcTypeOK
<1>8. OpsFit'
  <2>1. queue' \subseteq completions'
    BY <1>2 DEF CallInv, OpsFit
  <2>2. \A o \in completions' \union cancelled' : o \in queue' \/ HasTask(o)'
    BY <1>1, <1>2 DEF CallInv, OpsFit
  <2>3. \A o : HasTask(o)' => o \notin queue' /\ o \in completions' \union cancelled'
    BY <1>1, <1>4 DEF CallInv, OpsFit
  <2>4. /\ blocked'.in \in {"nothing", "lastWrite"} => completions' \intersect cancelled' = {}
        /\ blocked'.in \in {"finish", "shutdown"} => completions' \subseteq cancelled'
    BY <1>2, <1>4
  <2> QED
    BY <1>1, <2>1, <2>2, <2>3, <2>4 DEF OpsFit
<1>9. OneEach'
  <2>1. \A a, b \in completions' : a.type = b.type => a = b
    BY <1>4 DEF CallInv, OneEach
  <2>2. \A o \in completions' : o.type = "write" => activeWrite'
    BY <1>4
  <2> QED
    BY <1>3, <2>1, <2>2 DEF OneEach
<1> QED
  BY <1>1, <1>3, <1>6, <1>7, <1>8, <1>9

\* A task of the worker.
LEMMA RunTaskStep ==
  ASSUME CallInv, RunTask
  PROVE  CallInv'
<1> DEFINE op == Head(tasks).op
           left == completions \ {op}
<1>1. /\ blocked.in = "nothing" /\ tasks # <<>> /\ tasks' = Tail(tasks)
      /\ UNCHANGED <<received, told, finishes>>
  BY BlockedPlaces DEF RunTask
<1>2. /\ Head(tasks) \in [op : Op, ok : BOOLEAN]
      /\ tasks' \in Seq([op : Op, ok : BOOLEAN])
      /\ HasTask(op)
      /\ \A o : HasTask(o)' <=> HasTask(o) /\ o # op
      /\ \A i, j \in 1..Len(tasks') : i < j => tasks'[i].op # tasks'[j].op
  BY <1>1, TasksShrink DEF CallInv
<1>3. CASE op \in cancelled
  <2>1. /\ cancelled' = cancelled \ {op}
        /\ UNCHANGED <<stage, observer, registered, finished, completions, queue, buffer, activeWrite,
                       written, sent, blocked, broken>>
    BY <1>3 DEF RunTask, streamVars, writeVars
  <2> HIDE DEF op, left
  <2>2. op \notin queue /\ op \notin completions
    BY <1>1, <1>2, <1>3 DEF CallInv, OpsFit
  <2>3. CallTypes'
    BY <1>1, <1>2, <2>1 DEF CallInv, CallTypes, GrpcTypeOK
  <2>4. OpsFit'
    BY <1>1, <1>2, <2>1, <2>2 DEF CallInv, OpsFit
  <2>5. OneEach' /\ StageFits' /\ WritesInOrder'
    BY <1>1, <2>1 DEF CallInv, OneEach, StageFits, WritesInOrder
  <2> QED
    BY <2>3, <2>4, <2>5 DEF CallInv
<1>4. CASE op \notin cancelled
  <2>1. \/ OnOperationFailed(left)
        \/ op.type = "read" /\ OnRead(left)
        \/ op.type = "write" /\ OnWrite(left)
        \/ op.type = "finish" /\ OnFinish(left)
    BY <1>2, <1>4 DEF RunTask, Op
  <2>2. op \in completions /\ op \in Op
    BY <1>2, <1>4 DEF CallInv, OpsFit
  <2> HIDE DEF op
  <2>3. \A o \in left : o.type # op.type
    BY <2>2 DEF CallInv, OneEach
  <2>4. (\E o \in left : o.type = "write") => activeWrite
    BY DEF CallInv, OneEach
  <2>5. CASE OnOperationFailed(left)
    <3>1. /\ completions' = left
          /\ \/ UNCHANGED <<finished, cancelled, blocked>>
             \/ /\ ~finished /\ finished' = TRUE /\ cancelled' = cancelled \union left
                /\ blocked' = [in |-> "finish", next |-> "report"]
          /\ UNCHANGED <<stage, observer, registered, queue, buffer, activeWrite, written, sent, broken>>
      BY <2>5 DEF OnOperationFailed, writeVars
    <3>2. \/ UNCHANGED <<finished, cancelled, blocked>>
          \/ /\ ~finished /\ finished' = TRUE /\ cancelled' = cancelled \union left
             /\ blocked' \in Blocked /\ blocked'.in = "finish" /\ blocked'.next = "report"
      BY <3>1, BlockedPlaces
    <3>3. /\ OpsFit' /\ OneEach'
          /\ completions' \subseteq Op /\ queue' \subseteq Op /\ cancelled' \subseteq Op
          /\ tasks' \in Seq([op : Op, ok : BOOLEAN])
          /\ IsFiniteSet(completions') /\ IsFiniteSet(queue') /\ blocked' \in Blocked
          /\ stage = "started"
      BY <1>1, <1>4, <2>4, <3>1, <3>2, TaskLeaves DEF op
    <3>4. CallTypes'
      BY <1>1, <3>1, <3>2, <3>3 DEF CallInv, CallTypes, GrpcTypeOK
    <3>5. StageFits' /\ WritesInOrder'
      BY <1>1, <3>1, <3>2, <3>3 DEF CallInv, StageFits, WritesInOrder
    <3> QED
      BY <3>3, <3>4, <3>5 DEF CallInv
  <2>6. CASE op.type = "read" /\ OnRead(left)
    <3>1. /\ \/ completions' = left /\ queue' = queue
             \/ /\ completions' = left \union {NewOp("read")}
                /\ queue' = queue \union {NewOp("read")}
          /\ UNCHANGED <<stage, observer, registered, finished, cancelled, buffer, activeWrite, written,
                         sent, blocked, broken>>
      BY <2>6 DEF OnRead, Issue, streamVars, writeVars
    <3>2. /\ OpsFit' /\ OneEach'
          /\ completions' \subseteq Op /\ queue' \subseteq Op /\ cancelled' \subseteq Op
          /\ tasks' \in Seq([op : Op, ok : BOOLEAN])
          /\ IsFiniteSet(completions') /\ IsFiniteSet(queue') /\ blocked' \in Blocked
          /\ stage = "started"
      BY <1>1, <1>4, <2>3, <2>4, <2>6, <3>1, TaskLeaves DEF op
    <3>3. CallTypes'
      BY <1>1, <3>1, <3>2 DEF CallInv, CallTypes, GrpcTypeOK
    <3>4. StageFits' /\ WritesInOrder'
      BY <1>1, <3>1, <3>2 DEF CallInv, StageFits, WritesInOrder
    <3> QED
      BY <3>2, <3>3, <3>4 DEF CallInv
  <2>7. CASE op.type = "write" /\ OnWrite(left)
    <3>1. UNCHANGED <<stage, observer, registered, finished, cancelled, written, blocked, broken>>
      BY <2>7 DEF OnWrite, streamVars
    <3>2. /\ buffer' \in Seq(1..MaxWrites) /\ sent' \in Seq(1..MaxWrites)
          /\ activeWrite' \in BOOLEAN
          /\ sent' \o buffer' = sent \o buffer
          /\ \/ completions' = left /\ queue' = queue
             \/ /\ activeWrite' = TRUE
                /\ completions' = left \union {NewOp("write")}
                /\ queue' = queue \union {NewOp("write")}
      <4>1. CASE observer
        <5>1. TryStartWrite(buffer, FALSE, left)
          BY <2>7, <4>1 DEF OnWrite
        <5>2. CallTypes /\ buffer \in Seq(1..MaxWrites) /\ FALSE \in BOOLEAN
          BY DEF CallInv, CallTypes, GrpcTypeOK
        <5> HIDE DEF left
        <5> QED
          BY <5>1, <5>2, WriteStarts
      <4>2. CASE ~observer
        BY <2>7, <4>2 DEF OnWrite, CallInv, CallTypes, GrpcTypeOK
      <4> QED
        BY <4>1, <4>2
    <3>3. ~ \E o \in left : o.type = "write"
      BY <2>3, <2>7
    <3>4. /\ OpsFit' /\ OneEach'
          /\ completions' \subseteq Op /\ queue' \subseteq Op /\ cancelled' \subseteq Op
          /\ tasks' \in Seq([op : Op, ok : BOOLEAN])
          /\ IsFiniteSet(completions') /\ IsFiniteSet(queue') /\ blocked' \in Blocked
          /\ stage = "started"
      BY <1>1, <1>4, <3>1, <3>2, <3>3, TaskLeaves DEF op
    <3>5. CallTypes'
      BY <1>1, <3>1, <3>2, <3>4 DEF CallInv, CallTypes, GrpcTypeOK
    <3>6. StageFits' /\ WritesInOrder'
      BY <1>1, <3>1, <3>2, <3>4 DEF CallInv, StageFits, WritesInOrder
    <3> QED
      BY <3>4, <3>5, <3>6 DEF CallInv
  <2>8. CASE op.type = "finish" /\ OnFinish(left)
    <3>1. /\ registered' = FALSE /\ cancelled' = cancelled \union left
          /\ blocked' = [in |-> "shutdown", next |-> "notify"]
          /\ completions' = left
          /\ UNCHANGED <<stage, observer, finished, queue, buffer, activeWrite, written, sent, broken>>
      BY <2>8 DEF OnFinish, writeVars
    <3>2. blocked' \in Blocked /\ blocked'.in = "shutdown"
      BY <3>1, BlockedPlaces
    <3>3. /\ OpsFit' /\ OneEach'
          /\ completions' \subseteq Op /\ queue' \subseteq Op /\ cancelled' \subseteq Op
          /\ tasks' \in Seq([op : Op, ok : BOOLEAN])
          /\ IsFiniteSet(completions') /\ IsFiniteSet(queue') /\ blocked' \in Blocked
          /\ stage = "started"
      BY <1>1, <1>4, <2>4, <3>1, <3>2, TaskLeaves DEF op
    <3>4. CallTypes'
      BY <1>1, <3>1, <3>2, <3>3 DEF CallInv, CallTypes, GrpcTypeOK
    <3>5. StageFits' /\ WritesInOrder'
      BY <1>1, <3>1, <3>2, <3>3 DEF CallInv, StageFits, WritesInOrder
    <3> QED
      BY <3>3, <3>4, <3>5 DEF CallInv
  <2> QED
    BY <2>1, <2>5, <2>6, <2>7, <2>8
<1> QED
  BY <1>3, <1>4

\* A step of the call keeps its invariant.
LEMMA CallStep ==
  ASSUME CallInv, Next \/ UNCHANGED vars
  PROVE  CallInv'
<1>1. CASE Start
  BY <1>1, StartStep
<1>2. CASE Write \/ WriteAndFinish
  BY <1>2, WritesStep
<1>3. CASE LastWriteWaited \/ FinishImmediately \/ ConnectivityChanges
  BY <1>3, ShutdownsStep
<1>4. CASE FinishCall
  BY <1>4, FinishCallStep
<1>5. CASE FinishShutdown
  BY <1>5, FinishShutdownStep
<1>6. CASE Destroy \/ Break \/ UNCHANGED vars
  BY <1>6, NoOpStep
<1>7. CASE RunTask
  BY <1>7, RunTaskStep
<1>8. CASE \E op \in queue, ok \in BOOLEAN : Complete(op, ok)
  BY <1>8, CompleteStep
<1> QED
  BY <1>1, <1>2, <1>3, <1>4, <1>5, <1>6, <1>7, <1>8 DEF Next

\* A stream that was not started holds no operation.
LEMMA CallInit ==
  ASSUME Init
  PROVE  CallInv
<1> USE DEF Init
<1>1. blocked \in Blocked /\ blocked.in = "nothing"
  BY BlockedPlaces
<1>2. /\ buffer \in Seq(1..MaxWrites) /\ sent \in Seq(1..MaxWrites)
      /\ written \in Seq(1..MaxWrites) /\ sent \o buffer = written
      /\ tasks \in Seq([op : Op, ok : BOOLEAN]) /\ Len(tasks) = 0
  BY EmptySeq, ConcatEmptySeq
<1>3. CallTypes
  <2>1. told \in 0..1 /\ received \in 0..MaxReads /\ finishes \in Nat
    BY BoundsAssumption
  <2>2. IsFiniteSet(completions) /\ IsFiniteSet(queue)
    BY FS_EmptySet
  <2> QED
    BY <1>1, <1>2, <2>1, <2>2 DEF CallTypes, GrpcTypeOK
<1>4. \A o : ~HasTask(o)
  BY <1>2 DEF HasTask
<1>5. OpsFit
  BY <1>1, <1>2, <1>4 DEF OpsFit
<1>6. OneEach /\ StageFits /\ WritesInOrder
  BY <1>1, <1>2 DEF OneEach, StageFits, WritesInOrder
<1> QED
  BY <1>3, <1>5, <1>6 DEF CallInv

\* What gRPC requires and what the stream promises follow from the invariant: an
\* operation with gRPC is a completion, of which there is one of a kind, and the
\* tasks left when there are no completions are those of emptied callbacks.
LEMMA CallInvIsSafe ==
  ASSUME CallInv
  PROVE  StreamSafety
<1>1. OneOfAKind
  BY DEF CallInv, OpsFit, OneEach, OneOfAKind
<1>2. SafeToDestroy
  <2> SUFFICES ASSUME stage \in {"finished", "destroyed"}
               PROVE  /\ queue = {} /\ completions = {} /\ ~registered
                      /\ \A i \in DOMAIN tasks : tasks[i].op \in cancelled
    BY DEF SafeToDestroy
  <2>1. queue = {} /\ completions = {} /\ ~registered
    BY DEF CallInv, StageFits
  <2>2. DOMAIN tasks = 1..Len(tasks)
    BY LenProperties DEF CallInv, CallTypes, GrpcTypeOK
  <2>3. ASSUME NEW i \in DOMAIN tasks PROVE tasks[i].op \in cancelled
    <3>1. HasTask(tasks[i].op)
      BY <2>2 DEF HasTask
    <3> QED
      BY <2>1, <3>1 DEF CallInv, OpsFit
  <2> QED
    BY <2>1, <2>3
<1> QED
  BY <1>1, <1>2 DEF CallInv, CallTypes, StreamSafety

\* Only the task that finishes the call gives gRPC a finish: reads and writes are
\* of other kinds.
LEMMA FinishGivenByFinishCall ==
  ASSUME CallInv, Next, NEW o, o \in queue', o \notin queue, o.type = "finish"
  PROVE  FinishCall
<1>1. \A type \in {"read", "write", "finish"} : NewOp(type).type = type
  BY NewOpIsNew DEF CallInv
<1>2. ~(\E type \in {"read", "write"} : queue' = queue \union {NewOp(type)})
  BY <1>1
<1>3. ASSUME NEW pending, NEW busy, NEW left, TryStartWrite(pending, busy, left)
      PROVE  FALSE
  BY <1>2, <1>3 DEF TryStartWrite, Issue
<1>4. ~Start
  BY <1>2 DEF Start, Issue
<1>5. ~ \E next \in {"silent", "notify"} : Shutdown(next)
  BY DEF Shutdown
<1>6. ~Write /\ ~WriteAndFinish
  BY <1>3, <1>5 DEF Write, WriteAndFinish
<1>7. ~LastWriteWaited /\ ~FinishImmediately /\ ~ConnectivityChanges
  BY DEF LastWriteWaited, FinishImmediately, ConnectivityChanges, Shutdown
<1>8. ~FinishShutdown /\ ~Destroy /\ ~Break
  BY DEF FinishShutdown, Destroy, Break, opVars
<1>9. ~RunTask
  <2>1. ASSUME NEW left PROVE ~OnRead(left) /\ ~OnWrite(left)
    BY <1>2, <1>3 DEF OnRead, OnWrite, Issue
  <2>2. ASSUME NEW left PROVE ~OnOperationFailed(left) /\ ~OnFinish(left)
    BY DEF OnOperationFailed, OnFinish
  <2>3. ASSUME RunTask
        PROVE  \/ queue' = queue
               \/ \E left : OnOperationFailed(left) \/ OnRead(left) \/ OnWrite(left) \/ OnFinish(left)
    <3>1. /\ Head(tasks).op.type \in {"read", "write", "finish"}
          /\ Head(tasks).ok \in BOOLEAN
      BY <2>3, TasksShrink DEF RunTask, CallInv, Op
    <3> QED
      BY <2>3, <3>1 DEF RunTask
  <2> QED
    BY <2>1, <2>2, <2>3
<1>10. ~ \E op \in queue, ok \in BOOLEAN : Complete(op, ok)
  BY DEF Complete
<1> QED
  BY <1>4, <1>6, <1>7, <1>8, <1>9, <1>10 DEF Next

\* The finish of a call is its first, and gRPC holds nothing else of it.
LEMMA FinishGivenStep ==
  ASSUME CallInv, Next \/ UNCHANGED vars
  PROVE  (\E o \in queue' \ queue : o.type = "finish") => queue = {} /\ finishes = 0
<1>1. ASSUME NEW o, o \in queue', o \notin queue, o.type = "finish"
      PROVE  queue = {} /\ finishes = 0
  <2>1. Next
    BY <1>1 DEF vars, opVars
  <2>2. FinishCall
    BY <1>1, <2>1, FinishGivenByFinishCall
  <2>3. blocked.in = "finish" /\ completions \intersect queue = {}
    BY <2>2 DEF FinishCall, Back
  <2> QED
    BY <2>3 DEF CallInv, OpsFit, StageFits
<1> QED
  BY <1>1

-----------------------------------------------------------------------------
(* The three parts of the client *)

\* A behaviour of the parts is one of each of them.
LEMMA PartsStep ==
  ASSUME [PartsNext]_partsVars
  PROVE  /\ Next \/ UNCHANGED vars
         /\ Worker!Next \/ UNCHANGED workerVars
         /\ Store!Next \/ UNCHANGED storeVars
BY DEF PartsNext, partsVars

\* A run that resumes from the token on disk misses nothing, and the keys after a
\* snapshot are the backend's, across releases and crashes (StoreSafety of
\* TargetStore).
THEOREM StoreIsSafe == PartsSpec => []StoreSafety
<1>1. PartsInit => StoreInv
  BY StoreInit DEF PartsInit
<1>2. StoreInv /\ [PartsNext]_partsVars => StoreInv'
  BY StoreStep, PartsStep
<1>3. StoreInv => StoreSafety
  BY StoreInvIsSafe
<1> QED
  BY <1>1, <1>2, <1>3, PTL DEF PartsSpec

\* The schedule of the worker queue is exact, no operation runs twice or once it is
\* cancelled, and a shutdown is the last ordinary one (QueueSafety of AsyncQueue).
THEOREM QueueIsSafe == PartsSpec => []QueueSafety
<1>1. PartsInit => WorkerInv
  BY WorkerInit DEF PartsInit
<1>2. WorkerInv /\ [PartsNext]_partsVars => WorkerInv'
  BY WorkerStep, PartsStep
<1>3. WorkerInv => QueueSafety
  BY WorkerInvIsSafe
<1> QED
  BY <1>1, <1>2, <1>3, PTL DEF PartsSpec

\* gRPC never holds two reads or two writes of a call, messages go out in the order
\* they were written, and a finished stream can be destroyed (StreamSafety of
\* GrpcStream).
THEOREM StreamIsSafe == PartsSpec => []StreamSafety
<1>1. PartsInit => CallInv
  BY CallInit DEF PartsInit
<1>2. CallInv /\ [PartsNext]_partsVars => CallInv'
  BY CallStep, PartsStep
<1>3. CallInv => StreamSafety
  BY CallInvIsSafe
<1> QED
  BY <1>1, <1>2, <1>3, PTL DEF PartsSpec

\* A call is finished once, when gRPC has given back every other operation of it
\* (FinishGivenAlone of GrpcStream).
THEOREM FinishesAlone == PartsSpec => FinishGivenAlone
<1>1. PartsInit => CallInv
  BY CallInit DEF PartsInit
<1>2. CallInv /\ [PartsNext]_partsVars => CallInv'
  BY CallStep, PartsStep
<1>3. CallInv /\ [PartsNext]_partsVars =>
        [(\E o \in queue' \ queue : o.type = "finish") => queue = {} /\ finishes = 0]_vars
  <2> SUFFICES ASSUME CallInv, [PartsNext]_partsVars
               PROVE  (\E o \in queue' \ queue : o.type = "finish") => queue = {} /\ finishes = 0
    OBVIOUS
  <2>1. Next \/ UNCHANGED vars
    BY PartsStep
  <2> QED
    BY <2>1, FinishGivenStep
<1> QED
  BY <1>1, <1>2, <1>3, PTL DEF PartsSpec, FinishGivenAlone
-----------------------------------------------------------------------------
=============================================================================
