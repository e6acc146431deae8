--------------------------- MODULE GetDocumentsProofs ---------------------------
(***************************************************************************)
(* Proofs about GetDocuments, for any calls and queries, finitely many or  *)
(* not: what the two queues keep of a call agrees, a call is answered at   *)
(* most once, and from the cache only if the client was offline while it   *)
(* was open.                                                               *)
(***************************************************************************)
EXTENDS GetDocuments, SequenceTheorems, FiniteSetTheorems, TLAPS

Tasks  == [op : {"add", "remove"}, call : Call]
Events == [call : Call, event : Event]

Queued(queue, item) == \E i \in 1..Len(queue) : queue[i] = item

AddOf(c)    == [op |-> "add", call |-> c]
RemoveOf(c) == [op |-> "remove", call |-> c]

Adding(w, c)   == Queued(w, AddOf(c))
Removing(w, c) == Queued(w, RemoveOf(c))
Posted(m, c)   == \E i \in 1..Len(m) : m[i].call = c
Errored(m, c)  == \E i \in 1..Len(m) : m[i] = EventFor(c, "error")
-----------------------------------------------------------------------------
(***************************************************************************)
(* Queues                                                                  *)
(***************************************************************************)

\* The events of a task are posted one after the other, each of them once.
LEMMA SetToSeqOnce ==
  ASSUME NEW S, IsFiniteSet(S)
  PROVE  /\ SetToSeq(S) \in Seq(S)
         /\ \A e \in S : \E i \in 1..Len(SetToSeq(S)) : SetToSeq(S)[i] = e
         /\ \A i, j \in 1..Len(SetToSeq(S)) : SetToSeq(S)[i] = SetToSeq(S)[j] => i = j
<1> DEFINE n == Cardinality(S)
           f == SetToSeq(S)
<1>1. n \in Nat /\ ExistsBijection(1..n, S)
  BY FS_CardinalityType
<1>2. \E g \in [1..n -> S] : IsInjective(g)
  BY <1>1 DEF ExistsBijection, Bijection, Injection
<1>3. f \in [1..n -> S] /\ IsInjective(f)
  BY <1>2 DEF SetToSeq
<1> HIDE DEF f
<1>4. f \in Injection(1..n, S)
  BY <1>3 DEF Injection
<1>5. Cardinality(1..n) = n
  BY <1>1, FS_Interval
<1>6. f \in Surjection(1..n, S)
  <2> HIDE DEF n
  <2> QED
    BY <1>4, <1>5, FS_Injection DEF n
<1>7. f \in Seq(S) /\ Len(f) = n /\ DOMAIN f = 1..n
  <2> HIDE DEF n
  <2> QED
    BY <1>1, <1>3
<1> HIDE DEF n
<1>8. \A e \in S : \E i \in 1..n : f[i] = e
  BY <1>6 DEF Surjection
<1> QED
  BY <1>3, <1>7, <1>8 DEF IsInjective, f

\* A queue whose every item is in T is a queue of T.
LEMMA SeqOfItems ==
  ASSUME NEW S, NEW w \in Seq(S), NEW T, \A i \in 1..Len(w) : w[i] \in T
  PROVE  w \in Seq(T)
<1>1. Len(w) \in Nat /\ w \in [1..Len(w) -> S]
  BY LenProperties
<1>2. w \in [1..Len(w) -> T]
  BY <1>1
<1> QED
  BY <1>1, <1>2, SeqDef

\* What a task adds to the queue of the worker.
LEMMA AppendQueued ==
  ASSUME NEW T, NEW w \in Seq(T), NEW t \in T, NEW u
  PROVE  Queued(Append(w, t), u) <=> Queued(w, u) \/ u = t
BY AppendProperties DEF Queued

\* What the worker leaves of its queue when it runs the first task.
LEMMA TailQueued ==
  ASSUME NEW T, NEW w \in Seq(T), w # <<>>, NEW u
  PROVE  Queued(w, u) <=> Queued(Tail(w), u) \/ u = Head(w)
<1>1. /\ Len(w) \in Nat \ {0} /\ Tail(w) \in Seq(T) /\ Len(Tail(w)) = Len(w) - 1
      /\ \A i \in 1..Len(Tail(w)) : Tail(w)[i] = w[i + 1]
      /\ Head(w) = w[1]
  BY HeadTailProperties, EmptySeq
<1>2. ASSUME Queued(w, u) PROVE Queued(Tail(w), u) \/ u = Head(w)
  <2> PICK i \in 1..Len(w) : w[i] = u
    BY <1>2 DEF Queued
  <2>1. CASE i = 1
    BY <1>1, <2>1
  <2>2. CASE i # 1
    <3>1. i - 1 \in 1..Len(Tail(w)) /\ Tail(w)[i - 1] = w[i]
      BY <1>1, <2>2
    <3> QED
      BY <3>1 DEF Queued
  <2> QED
    BY <2>1, <2>2
<1>3. ASSUME Queued(Tail(w), u) PROVE Queued(w, u)
  <2> PICK i \in 1..Len(Tail(w)) : Tail(w)[i] = u
    BY <1>3 DEF Queued
  <2>1. i + 1 \in 1..Len(w) /\ w[i + 1] = u
    BY <1>1
  <2> QED
    BY <2>1 DEF Queued
<1>4. 1 \in 1..Len(w)
  BY <1>1
<1> QED
  BY <1>1, <1>2, <1>3, <1>4 DEF Queued

\* What Post makes of the main queue.
LEMMA PostAppends ==
  ASSUME NEW E, IsFiniteSet(E), E \subseteq Events, main \in Seq(Events), Post(E)
  PROVE  /\ main' \in Seq(Events) /\ Len(main') \in Nat /\ Len(main) \in Nat
         /\ Len(main) <= Len(main')
         /\ \A i \in 1..Len(main) : main'[i] = main[i]
         /\ \A i \in (Len(main) + 1)..Len(main') : main'[i] \in E
         /\ \A e \in E : \E i \in (Len(main) + 1)..Len(main') : main'[i] = e
         /\ \A i, j \in (Len(main) + 1)..Len(main') : main'[i] = main'[j] => i = j
<1> DEFINE s == SetToSeq(E)
<1>1. /\ s \in Seq(E) /\ s \in Seq(Events)
      /\ \A e \in E : \E i \in 1..Len(s) : s[i] = e
      /\ \A i, j \in 1..Len(s) : s[i] = s[j] => i = j
  BY SetToSeqOnce, SeqMonotonic
<1>2. main' = main \o s
  BY DEF Post
<1> HIDE DEF s
<1>3. Len(s) \in Nat /\ Len(main) \in Nat /\ \A i \in 1..Len(s) : s[i] \in E
  BY <1>1, LenProperties, ElementOfSeq
<1>4. /\ main' \in Seq(Events) /\ Len(main') = Len(main) + Len(s)
      /\ \A i \in 1..(Len(main) + Len(s)) :
           main'[i] = IF i <= Len(main) THEN main[i] ELSE s[i - Len(main)]
  BY <1>1, <1>2, ConcatProperties
<1>5. \A i \in 1..Len(main) : main'[i] = main[i]
  BY <1>3, <1>4
<1>6. \A i \in (Len(main) + 1)..Len(main') : i - Len(main) \in 1..Len(s) /\ main'[i] = s[i - Len(main)]
  BY <1>3, <1>4
<1>7. \A i \in (Len(main) + 1)..Len(main') : main'[i] \in E
  BY <1>3, <1>6
<1>8. ASSUME NEW e \in E PROVE \E i \in (Len(main) + 1)..Len(main') : main'[i] = e
  <2> PICK k \in 1..Len(s) : s[k] = e
    BY <1>1
  <2>1. Len(main) + k \in (Len(main) + 1)..Len(main') /\ (Len(main) + k) - Len(main) = k
    BY <1>3, <1>4
  <2> QED
    BY <1>6, <2>1
<1>9. ASSUME NEW i \in (Len(main) + 1)..Len(main'), NEW j \in (Len(main) + 1)..Len(main'),
             main'[i] = main'[j]
      PROVE  i = j
  <2>1. i - Len(main) = j - Len(main)
    BY <1>1, <1>6, <1>9
  <2> QED
    BY <1>3, <1>4, <2>1
<1> QED
  BY <1>3, <1>4, <1>5, <1>7, <1>8, <1>9
-----------------------------------------------------------------------------
(***************************************************************************)
(* The inductive invariant                                                 *)
(***************************************************************************)

\* After its error nothing more comes for a call.
ErrorIsLast(m) ==
  \A i, j \in 1..Len(m) : i < j /\ m[i].event = "error" => m[j].call # m[i].call

\* A snapshot from the cache is for a call that was open while the client was
\* offline, or comes too late to be its answer.
CacheIsOwed(m, off, mute) ==
  \A i \in 1..Len(m) : m[i].event = "cache" =>
    \/ m[i].call \in off \union mute
    \/ \E j \in 1..Len(m) : j < i /\ m[j].call = m[i].call

Types ==
  /\ called \subseteq Call /\ IsFiniteSet(called)
  /\ answers \in [Call -> Seq(Reply)] /\ muted \subseteq called
  /\ worker \in Seq(Tasks) /\ main \in Seq(Events)
  /\ listeners \in [Query -> SUBSET called] /\ stored \in [Query -> SyncState]
  /\ raised \subseteq called /\ seen \in [Call -> SyncState]
  /\ view \in [Query -> SyncState] /\ online \in OnlineState
  /\ wasOffline \subseteq called

Listening(c) == c \in listeners[QueryOf[c]]

(***************************************************************************)
(* A call on its way: it waits for its listener to be added, listens, is   *)
(* answered, and is muted unless the answer was an error.  What the two    *)
(* queues still hold of it fits where it is.                               *)
(***************************************************************************)
CallFits(c) ==
  /\ Adding(worker, c) =>
       c \in called /\ ~Listening(c) /\ c \notin raised /\ answers[c] = <<>> /\ ~Posted(main, c)
  /\ Removing(worker, c) \/ Posted(main, c) \/ answers[c] # <<>> => c \in called
  /\ c \in muted => answers[c] # <<>>
  /\ answers[c] # <<>> /\ c \notin muted => ~Posted(main, c) /\ ~Listening(c)
  /\ Errored(main, c) => ~Listening(c)
  /\ Listening(c) /\ c \in muted => Removing(worker, c)
  /\ c \in raised => answers[c] # <<>> \/ Posted(main, c)
  /\ online = "Offline" /\ c \in called /\ answers[c] = <<>> => c \in wasOffline
  /\ \A i \in DOMAIN answers[c] :
       answers[c][i] \in {"cached", "unavailable"} => c \in wasOffline

AddedOnce(w) ==
  \A i, j \in 1..Len(w) : w[i] = w[j] /\ w[i].op = "add" => i = j

OwnListeners == \A q \in Query : \A c \in listeners[q] : QueryOf[c] = q

IInv ==
  /\ Types /\ OwnListeners /\ BooksAgree
  /\ AddedOnce(worker)
  /\ ErrorIsLast(main) /\ CacheIsOwed(main, wasOffline, muted)
  /\ \A c \in Call : CallFits(c)
-----------------------------------------------------------------------------
(***************************************************************************)
(* The main queue                                                          *)
(***************************************************************************)

\* Events posted to calls that have not been told an error keep the main queue
\* in order.
LEMMA PostInOrder ==
  ASSUME IInv, NEW E, IsFiniteSet(E), E \subseteq Events, Post(E),
         wasOffline \subseteq wasOffline', muted' = muted,
         \A e \in E : ~Errored(main, e.call),
         \A d, e \in E : d.event = "error" /\ d.call = e.call => d = e,
         \A e \in E : e.event = "cache" =>
                        e.call \in wasOffline' \union muted \/ Posted(main, e.call)
  PROVE  /\ main' \in Seq(Events)
         /\ ErrorIsLast(main') /\ CacheIsOwed(main', wasOffline', muted')
         /\ \A c : Posted(main', c) <=> Posted(main, c) \/ \E e \in E : e.call = c
         /\ \A c : Errored(main', c) <=> Errored(main, c) \/ EventFor(c, "error") \in E
<1>1. /\ main' \in Seq(Events) /\ Len(main') \in Nat /\ Len(main) \in Nat
      /\ Len(main) <= Len(main')
      /\ \A i \in 1..Len(main) : main'[i] = main[i]
      /\ \A i \in (Len(main) + 1)..Len(main') : main'[i] \in E
      /\ \A e \in E : \E i \in (Len(main) + 1)..Len(main') : main'[i] = e
      /\ \A i, j \in (Len(main) + 1)..Len(main') : main'[i] = main'[j] => i = j
  BY PostAppends DEF IInv, Types
<1>2. 1..Len(main') = (1..Len(main)) \union ((Len(main) + 1)..Len(main'))
  BY <1>1
<1>3. \A i \in 1..Len(main) : main[i] \in Events
  BY ElementOfSeq DEF IInv, Types
<1>4. ErrorIsLast(main')
  <2> SUFFICES ASSUME NEW i \in 1..Len(main'), NEW j \in 1..Len(main'), i < j,
                      main'[i].event = "error", main'[i].call = main'[j].call
               PROVE  FALSE
    BY DEF ErrorIsLast
  <2>1. CASE j \in 1..Len(main)
    <3>1. i \in 1..Len(main)
      BY <1>1, <2>1
    <3> QED
      BY <1>1, <2>1, <3>1 DEF IInv, ErrorIsLast
  <2>2. CASE i \in 1..Len(main) /\ j \notin 1..Len(main)
    <3>1. main'[j] \in E /\ main'[i] = main[i]
      BY <1>1, <1>2, <2>2
    <3>2. main[i] = EventFor(main'[j].call, "error")
      BY <1>3, <2>2, <3>1 DEF Events, EventFor
    <3> QED
      BY <2>2, <3>1, <3>2 DEF Errored
  <2>3. CASE i \notin 1..Len(main)
    <3>1. i \in (Len(main) + 1)..Len(main') /\ j \in (Len(main) + 1)..Len(main')
      BY <1>1, <1>2, <2>3
    <3>2. main'[i] = main'[j]
      BY <1>1, <3>1
    <3> QED
      BY <1>1, <3>1, <3>2
  <2> QED
    BY <2>1, <2>2, <2>3
<1>5. CacheIsOwed(main', wasOffline', muted')
  <2> SUFFICES ASSUME NEW i \in 1..Len(main'), main'[i].event = "cache",
                      main'[i].call \notin wasOffline' \union muted
               PROVE  \E j \in 1..Len(main') : j < i /\ main'[j].call = main'[i].call
    BY DEF CacheIsOwed
  <2>1. \E j \in 1..Len(main) : j < i /\ main[j].call = main'[i].call
    <3>1. CASE i \in 1..Len(main)
      BY <1>1, <3>1 DEF IInv, CacheIsOwed
    <3>2. CASE i \notin 1..Len(main)
      <4>1. i > Len(main) /\ main'[i] \in E
        BY <1>1, <1>2, <3>2
      <4>2. PICK j \in 1..Len(main) : main[j].call = main'[i].call
        BY <4>1 DEF Posted
      <4> QED
        BY <1>1, <4>1, <4>2
    <3> QED
      BY <3>1, <3>2
  <2> QED
    BY <1>1, <1>2, <2>1
<1>6. ASSUME NEW c PROVE Posted(main', c) <=> Posted(main, c) \/ \E e \in E : e.call = c
  BY <1>1, <1>2 DEF Posted
<1>7. ASSUME NEW c PROVE Errored(main', c) <=> Errored(main, c) \/ EventFor(c, "error") \in E
  BY <1>1, <1>2 DEF Errored
<1> QED
  BY <1>1, <1>4, <1>5, <1>6, <1>7

\* The events of finitely many calls are finitely many.
LEMMA FiniteEvents ==
  ASSUME NEW D, IsFiniteSet(D), NEW E, E \subseteq [call : D, event : Event]
  PROVE  IsFiniteSet(E)
<1> DEFINE g == [p \in D \X Event |-> EventFor(p[1], p[2])]
           T == [call : D, event : Event]
<1>1. IsFiniteSet(Event)
  <2>1. Event = ({"cache"} \union {"server"}) \union {"error"}
    BY DEF Event
  <2> QED
    BY <2>1, FS_Singleton, FS_Union
<1>2. IsFiniteSet(D \X Event)
  BY <1>1, FS_Product
<1>3. g \in [D \X Event -> T]
  BY DEF EventFor
<1>4. \A e \in T : \E p \in D \X Event : g[p] = e
  <2> SUFFICES ASSUME NEW e \in T PROVE g[<<e.call, e.event>>] = e /\ <<e.call, e.event>> \in D \X Event
    OBVIOUS
  <2> QED
    BY DEF EventFor
<1> HIDE DEF g
<1>5. g \in Surjection(D \X Event, T)
  BY <1>3, <1>4 DEF Surjection
<1>6. IsFiniteSet(T)
  BY <1>2, <1>5, FS_Surjection
<1> QED
  BY <1>6, FS_Subset
-----------------------------------------------------------------------------
(***************************************************************************)
(* The queue of the worker                                                 *)
(***************************************************************************)

\* A task that is added, a listener to be added being new.
LEMMA AppendWorker ==
  ASSUME IInv, NEW t \in Tasks, worker' = Append(worker, t),
         t.op = "add" => ~Queued(worker, t)
  PROVE  /\ worker' \in Seq(Tasks) /\ AddedOnce(worker')
         /\ \A u : Queued(worker', u) <=> Queued(worker, u) \/ u = t
<1>1. worker \in Seq(Tasks) /\ Len(worker) \in Nat
  BY LenProperties DEF IInv, Types
<1>2. /\ worker' \in Seq(Tasks) /\ Len(worker') = Len(worker) + 1
      /\ \A i \in 1..Len(worker) : worker'[i] = worker[i]
      /\ worker'[Len(worker) + 1] = t
  BY <1>1, AppendProperties
<1>3. AddedOnce(worker')
  <2> SUFFICES ASSUME NEW i \in 1..Len(worker'), NEW j \in 1..Len(worker'),
                      worker'[i] = worker'[j], worker'[i].op = "add"
               PROVE  i = j
    BY DEF AddedOnce
  <2>1. CASE i \in 1..Len(worker) /\ j \in 1..Len(worker)
    BY <1>2, <2>1 DEF IInv, AddedOnce
  <2>2. CASE i \in 1..Len(worker) /\ j \notin 1..Len(worker)
    <3>1. j = Len(worker) + 1
      BY <1>1, <1>2, <2>2
    <3> QED
      BY <1>2, <2>2, <3>1 DEF Queued
  <2>3. CASE i \notin 1..Len(worker) /\ j \in 1..Len(worker)
    <3>1. i = Len(worker) + 1
      BY <1>1, <1>2, <2>3
    <3> QED
      BY <1>2, <2>3, <3>1 DEF Queued
  <2>4. CASE i \notin 1..Len(worker) /\ j \notin 1..Len(worker)
    BY <1>1, <1>2, <2>4
  <2> QED
    BY <2>1, <2>2, <2>3, <2>4
<1> QED
  BY <1>1, <1>2, <1>3, AppendQueued

\* A task that is run, a listener being added once.
LEMMA TailWorker ==
  ASSUME IInv, worker # <<>>, worker' = Tail(worker)
  PROVE  /\ worker' \in Seq(Tasks) /\ AddedOnce(worker') /\ Head(worker) \in Tasks
         /\ \A u : Queued(worker, u) <=> Queued(worker', u) \/ u = Head(worker)
         /\ Head(worker).op = "add" => ~Queued(worker', Head(worker))
<1>1. worker \in Seq(Tasks) /\ AddedOnce(worker)
  BY DEF IInv, Types
<1>2. /\ Len(worker) \in Nat \ {0} /\ worker' \in Seq(Tasks)
      /\ Len(worker') = Len(worker) - 1 /\ Head(worker) \in Tasks
      /\ \A i \in 1..Len(worker') : worker'[i] = worker[i + 1]
      /\ Head(worker) = worker[1]
  BY <1>1, HeadTailProperties, EmptySeq
<1>3. \A i \in 1..Len(worker') : i + 1 \in 1..Len(worker) /\ worker'[i] = worker[i + 1]
  BY <1>2
<1>4. AddedOnce(worker')
  <2> SUFFICES ASSUME NEW i \in 1..Len(worker'), NEW j \in 1..Len(worker'),
                      worker'[i] = worker'[j], worker'[i].op = "add"
               PROVE  i = j
    BY DEF AddedOnce
  <2>1. i + 1 = j + 1
    BY <1>1, <1>3 DEF AddedOnce
  <2> QED
    BY <2>1
<1>5. ASSUME Head(worker).op = "add", Queued(worker', Head(worker)) PROVE FALSE
  <2> PICK i \in 1..Len(worker') : worker'[i] = Head(worker)
    BY <1>5 DEF Queued
  <2>1. 1 \in 1..Len(worker) /\ worker[i + 1] = worker[1] /\ i + 1 # 1
    BY <1>2, <1>3
  <2> QED
    BY <1>1, <1>2, <1>3, <1>5, <2>1 DEF AddedOnce
<1> QED
  BY <1>1, <1>2, <1>4, <1>5, TailQueued
-----------------------------------------------------------------------------
(***************************************************************************)
(* The main queue's steps                                                  *)
(***************************************************************************)

\* No call is made, and both queues are empty.
LEMMA InitIInv == Init => IInv
<1> SUFFICES ASSUME Init PROVE IInv
  OBVIOUS
<1>1. Types
  BY CallAssumption, FS_EmptySet DEF Init, Types, SyncState, OnlineState
<1>2. OwnListeners /\ BooksAgree
  BY DEF Init, OwnListeners, BooksAgree
<1>3. AddedOnce(worker) /\ ErrorIsLast(main) /\ CacheIsOwed(main, wasOffline, muted)
  BY DEF Init, AddedOnce, ErrorIsLast, CacheIsOwed
<1>4. ASSUME NEW c \in Call PROVE CallFits(c)
  <2>1. ~Adding(worker, c) /\ ~Removing(worker, c) /\ ~Posted(main, c) /\ ~Errored(main, c)
        /\ answers[c] = <<>> /\ ~Listening(c)
    BY CallAssumption DEF Init, Adding, Removing, Posted, Errored, Queued, Listening
  <2> QED
    BY <2>1 DEF Init, CallFits
<1> QED
  BY <1>1, <1>2, <1>3, <1>4 DEF IInv

\* A call is new to both queues.
LEMMA GetDocumentsStep ==
  ASSUME IInv, NEW c \in Call, GetDocuments(c)
  PROVE  IInv'
<1>1. /\ c \notin called /\ called' = called \union {c}
      /\ worker' = Append(worker, AddOf(c)) /\ AddOf(c) \in Tasks
      /\ UNCHANGED <<answers, muted, main, eventVars, view, online>>
  BY DEF GetDocuments, AddOf, Tasks
<1>2. CallFits(c) /\ ~Adding(worker, c)
  BY <1>1 DEF IInv, CallFits
<1>3. /\ worker' \in Seq(Tasks) /\ AddedOnce(worker')
      /\ \A u : Queued(worker', u) <=> Queued(worker, u) \/ u = AddOf(c)
  BY <1>1, <1>2, AppendWorker DEF Adding
<1>4. /\ wasOffline' = IF online = "Offline" THEN wasOffline \union {c} ELSE wasOffline
      /\ wasOffline \subseteq wasOffline' /\ wasOffline' \subseteq called'
  BY <1>1 DEF GetDocuments, IInv, Types
<1>5. Types'
  <2>1. IsFiniteSet(called')
    BY <1>1, FS_AddElement DEF IInv, Types
  <2> QED
    BY <1>1, <1>3, <1>4, <2>1 DEF IInv, Types, eventVars
<1>6. OwnListeners' /\ BooksAgree'
  BY <1>1 DEF IInv, OwnListeners, BooksAgree, eventVars
<1>7. ErrorIsLast(main') /\ CacheIsOwed(main', wasOffline', muted')
  BY <1>1, <1>4 DEF IInv, CacheIsOwed
<1>8. ASSUME NEW d \in Call PROVE CallFits(d)'
  <2>1. Removing(worker', d) <=> Removing(worker, d)
    BY <1>3 DEF Removing, AddOf, RemoveOf
  <2>2. Adding(worker', d) <=> Adding(worker, d) \/ d = c
    BY <1>3 DEF Adding, AddOf
  <2>3. CallFits(d)
    BY DEF IInv
  <2>4. Listening(c) => c \in called
    BY CallAssumption DEF Listening, IInv, Types
  <2>5. c \notin raised
    BY <1>1 DEF IInv, Types
  <2> QED
    BY <1>1, <1>2, <1>4, <2>1, <2>2, <2>3, <2>4, <2>5 DEF CallFits, Listening, eventVars
<1> QED
  BY <1>3, <1>5, <1>6, <1>7, <1>8 DEF IInv

\* What is left of the main queue when its first event is taken.
LEMMA TailMain ==
  ASSUME IInv, main # <<>>, main' = Tail(main), muted \subseteq muted', wasOffline' = wasOffline,
         Head(main).event # "error" => Head(main).call \in muted'
  PROVE  /\ main' \in Seq(Events) /\ Head(main) \in Events
         /\ ErrorIsLast(main') /\ CacheIsOwed(main', wasOffline', muted')
         /\ \A c : Posted(main, c) <=> Posted(main', c) \/ Head(main).call = c
         /\ \A c : Errored(main, c) <=> Errored(main', c) \/ Head(main) = EventFor(c, "error")
         /\ \A c : Head(main) = EventFor(c, "error") => ~Posted(main', c)
         /\ Head(main).event = "cache" => Head(main).call \in wasOffline \union muted
<1>1. main \in Seq(Events) /\ ErrorIsLast(main) /\ CacheIsOwed(main, wasOffline, muted)
  BY DEF IInv, Types
<1>2. /\ Len(main) \in Nat \ {0} /\ main' \in Seq(Events)
      /\ Len(main') = Len(main) - 1 /\ Head(main) \in Events
      /\ \A i \in 1..Len(main') : main'[i] = main[i + 1]
      /\ Head(main) = main[1]
  BY <1>1, HeadTailProperties, EmptySeq
<1>3. \A i \in 1..Len(main') : i + 1 \in 1..Len(main) /\ i + 1 # 1 /\ main'[i] = main[i + 1]
  BY <1>2
<1>4. \A k \in 1..Len(main) : k = 1 \/ (k - 1 \in 1..Len(main') /\ main[k] = main'[k - 1])
  BY <1>2
<1>5. 1 \in 1..Len(main)
  BY <1>2
<1>6. ErrorIsLast(main')
  <2> SUFFICES ASSUME NEW i \in 1..Len(main'), NEW j \in 1..Len(main'), i < j,
                      main'[i].event = "error"
               PROVE  main'[j].call # main'[i].call
    BY DEF ErrorIsLast
  <2>1. i + 1 < j + 1
    OBVIOUS
  <2> QED
    BY <1>1, <1>3, <2>1 DEF ErrorIsLast
<1>7. CacheIsOwed(main', wasOffline', muted')
  <2> SUFFICES ASSUME NEW i \in 1..Len(main'), main'[i].event = "cache",
                      main'[i].call \notin wasOffline' \union muted'
               PROVE  \E j \in 1..Len(main') : j < i /\ main'[j].call = main'[i].call
    BY DEF CacheIsOwed
  <2>1. PICK k \in 1..Len(main) : k < i + 1 /\ main[k].call = main[i + 1].call
    BY <1>1, <1>3 DEF CacheIsOwed
  <2>2. CASE k = 1
    <3>1. main[1].event = "error" /\ main[i + 1].call = main[1].call /\ 1 < i + 1
      BY <1>2, <1>3, <2>1, <2>2
    <3> QED
      BY <1>1, <1>3, <1>5, <3>1 DEF ErrorIsLast
  <2>3. CASE k # 1
    <3>1. k - 1 \in 1..Len(main') /\ main'[k - 1].call = main'[i].call /\ k - 1 < i
      BY <1>3, <1>4, <2>1, <2>3
    <3> QED
      BY <3>1
  <2> QED
    BY <2>2, <2>3
<1>8. ASSUME NEW c PROVE Posted(main, c) <=> Posted(main', c) \/ Head(main).call = c
  BY <1>2, <1>3, <1>4, <1>5 DEF Posted
<1>9. ASSUME NEW c
      PROVE  Errored(main, c) <=> Errored(main', c) \/ Head(main) = EventFor(c, "error")
  BY <1>2, <1>3, <1>4, <1>5 DEF Errored
<1>10. ASSUME NEW c, Head(main) = EventFor(c, "error"), Posted(main', c) PROVE FALSE
  <2> PICK i \in 1..Len(main') : main'[i].call = c
    BY <1>10 DEF Posted
  <2>1. main[1].event = "error" /\ main[i + 1].call = main[1].call /\ 1 < i + 1
    BY <1>2, <1>3, <1>10 DEF EventFor
  <2> QED
    BY <1>1, <1>3, <1>5, <2>1 DEF ErrorIsLast
<1>11. Head(main).event = "cache" => Head(main).call \in wasOffline \union muted
  <2>1. ~\E j \in 1..Len(main) : j < 1
    OBVIOUS
  <2> QED
    BY <1>1, <1>2, <1>5, <2>1 DEF CacheIsOwed
<1> QED
  BY <1>2, <1>6, <1>7, <1>8, <1>9, <1>10, <1>11

\* The first answer of a call is its only one.
LEMMA AnswerIsFirst ==
  ASSUME IInv, OnEvent, Head(main).call \notin muted
  PROVE  /\ Head(main).call \in called /\ answers[Head(main).call] = <<>>
         /\ ReplyTo(Head(main).call, Head(main).event) \in Reply
         /\ answers' = [answers EXCEPT ![Head(main).call] =
                          <<ReplyTo(Head(main).call, Head(main).event)>>]
<1> DEFINE c == Head(main).call
           r == ReplyTo(c, Head(main).event)
<1>1. main # <<>> /\ main \in Seq(Events) /\ Len(main) \in Nat \ {0}
      /\ Head(main) = main[1] /\ main[1] \in Events
  BY EmptySeq, HeadTailProperties DEF OnEvent, IInv, Types
<1>2. c \in Call /\ Posted(main, c)
  BY <1>1 DEF Posted, Events
<1>3. c \in called /\ answers[c] = <<>>
  BY <1>2 DEF IInv, CallFits
<1>4. r \in Reply
  BY <1>1 DEF ReplyTo, Reply, Events, Event
<1>5. answers' = [answers EXCEPT ![c] = Append(answers[c], r)]
  BY DEF OnEvent
<1> QED
  BY <1>3, <1>4, <1>5

\* The first event of the main queue answers its call, unless the call is muted.
LEMMA OnEventStep ==
  ASSUME IInv, OnEvent
  PROVE  IInv'
<1> DEFINE c == Head(main).call
           r == ReplyTo(c, Head(main).event)
<1>1. /\ main # <<>> /\ main' = Tail(main)
      /\ UNCHANGED <<called, eventVars, view, online, wasOffline>>
  BY DEF OnEvent
<1>2. muted \subseteq muted' /\ (Head(main).event # "error" => c \in muted')
  BY DEF OnEvent
<1>3. /\ main' \in Seq(Events) /\ Head(main) \in Events
      /\ ErrorIsLast(main') /\ CacheIsOwed(main', wasOffline', muted')
      /\ \A d : Posted(main, d) <=> Posted(main', d) \/ c = d
      /\ \A d : Errored(main, d) <=> Errored(main', d) \/ Head(main) = EventFor(d, "error")
      /\ \A d : Head(main) = EventFor(d, "error") => ~Posted(main', d)
      /\ Head(main).event = "cache" => c \in wasOffline \union muted
  BY <1>1, <1>2, TailMain
<1>4. OwnListeners' /\ BooksAgree'
  BY <1>1 DEF IInv, OwnListeners, BooksAgree, eventVars
<1>5. \A d \in Call : Listening(d)' <=> Listening(d)
  BY <1>1 DEF Listening, eventVars
<1>6. c \in Call /\ CallFits(c)
  BY <1>3 DEF IInv, Events
<1>7. CASE c \in muted
  <2>1. UNCHANGED <<answers, muted, worker>>
    BY <1>7 DEF OnEvent
  <2>2. Types'
    BY <1>1, <1>3, <2>1 DEF IInv, Types, eventVars
  <2>3. ASSUME NEW d \in Call PROVE CallFits(d)'
    <3>1. CallFits(d)
      BY DEF IInv
    <3> QED
      BY <1>1, <1>3, <1>5, <1>6, <1>7, <2>1, <3>1 DEF CallFits, Adding, Removing, eventVars
  <2> QED
    BY <1>3, <1>4, <2>1, <2>2, <2>3 DEF IInv
<1>8. CASE c \notin muted
  <2>1. /\ c \in called /\ answers[c] = <<>> /\ r \in Reply
        /\ answers' = [answers EXCEPT ![c] = <<r>>]
    BY <1>8, AnswerIsFirst
  <2>2. answers' \in [Call -> Seq(Reply)] /\ answers'[c] = <<r>>
        /\ \A d \in Call : d # c => answers'[d] = answers[d]
    BY <1>6, <2>1 DEF IInv, Types
  <2>3. \A i \in DOMAIN answers'[c] :
          answers'[c][i] \in {"cached", "unavailable"} => c \in wasOffline
    <3>1. \A i \in DOMAIN answers'[c] : answers'[c][i] = r
      BY <2>2
    <3>2. r \in {"cached", "unavailable"} => Head(main).event = "cache"
      BY <1>3 DEF ReplyTo, Events, Event
    <3> QED
      BY <1>3, <1>8, <3>1, <3>2
  <2>4. answers'[c] # <<>>
    BY <2>2
  <2>5. CASE Head(main).event = "error"
    <3>1. UNCHANGED <<muted, worker>> /\ Head(main) = EventFor(c, "error")
      BY <1>3, <1>8, <2>5 DEF OnEvent, EventFor, Events
    <3>2. Types'
      BY <1>1, <1>3, <2>2, <3>1 DEF IInv, Types, eventVars
    <3>3. ~Posted(main', c) /\ ~Listening(c) /\ ~Adding(worker, c)
      BY <1>3, <1>6, <3>1 DEF CallFits
    <3>4. ASSUME NEW d \in Call PROVE CallFits(d)'
      <4>1. CallFits(d)
        BY DEF IInv
      <4>2. CASE d = c
        BY <1>1, <1>3, <1>5, <1>8, <2>1, <2>3, <2>4, <3>1, <3>3, <4>1, <4>2
           DEF CallFits, Adding, Removing, eventVars
      <4>3. CASE d # c
        BY <1>1, <1>3, <1>5, <2>2, <3>1, <4>1, <4>3 DEF CallFits, Adding, Removing, eventVars
      <4> QED
        BY <4>2, <4>3
    <3> QED
      BY <1>3, <1>4, <3>1, <3>2, <3>4 DEF IInv
  <2>6. CASE Head(main).event # "error"
    <3>1. muted' = muted \union {c} /\ worker' = Append(worker, RemoveOf(c))
          /\ RemoveOf(c) \in Tasks /\ RemoveOf(c).op # "add"
      BY <1>6, <1>8, <2>6 DEF OnEvent, RemoveOf, Tasks
    <3>2. /\ worker' \in Seq(Tasks) /\ AddedOnce(worker')
          /\ \A u : Queued(worker', u) <=> Queued(worker, u) \/ u = RemoveOf(c)
      BY <3>1, AppendWorker
    <3>3. /\ \A d \in Call : Adding(worker', d) <=> Adding(worker, d)
          /\ \A d \in Call : Removing(worker', d) <=> Removing(worker, d) \/ d = c
      BY <3>2 DEF Adding, Removing, AddOf, RemoveOf
    <3>4. Types'
      BY <1>1, <1>3, <2>1, <2>2, <3>1, <3>2 DEF IInv, Types, eventVars
    <3>5. ~Adding(worker, c)
      BY <1>3, <1>6 DEF CallFits
    <3>6. ASSUME NEW d \in Call PROVE CallFits(d)'
      <4>1. CallFits(d)
        BY DEF IInv
      <4>2. CASE d = c
        <5>1. ~Errored(main', c) \/ ~Listening(c)
          BY <1>3, <1>6 DEF CallFits
        <5> QED
          BY <1>1, <1>3, <1>5, <2>1, <2>3, <2>4, <3>1, <3>3, <3>5, <4>1, <4>2, <5>1
             DEF CallFits, eventVars
      <4>3. CASE d # c
        BY <1>1, <1>3, <1>5, <2>2, <3>1, <3>3, <4>1, <4>3 DEF CallFits, eventVars
      <4> QED
        BY <4>2, <4>3
    <3> QED
      BY <1>3, <1>4, <3>2, <3>4, <3>6 DEF IInv
  <2> QED
    BY <2>5, <2>6
<1> QED
  BY <1>7, <1>8
-----------------------------------------------------------------------------
(***************************************************************************)
(* The worker's steps                                                      *)
(***************************************************************************)

\* A listener joins with the snapshot its query has, or with the first one.
LEMMA AddQueryListenerStep ==
  ASSUME IInv, NEW c \in Call, worker # <<>>, Head(worker) = AddOf(c), worker' = Tail(worker),
         AddQueryListener(c), UNCHANGED <<mainVars, online, wasOffline>>
  PROVE  IInv'
<1> DEFINE q        == QueryOf[c]
           first    == listeners[q] = {}
           snapshot == IF first THEN "cache" ELSE stored[q]
           told     == snapshot # "none" /\ ShouldRaiseInitialEvent(snapshot, online)
           E        == IF told THEN {EventFor(c, snapshot)} ELSE {}
<1>1. /\ worker' \in Seq(Tasks) /\ AddedOnce(worker')
      /\ \A u : Queued(worker, u) <=> Queued(worker', u) \/ u = AddOf(c)
      /\ ~Queued(worker', AddOf(c))
  BY TailWorker DEF AddOf
<1>2. /\ CallFits(c) /\ Adding(worker, c) /\ c \in called /\ ~Listening(c)
      /\ c \notin raised /\ answers[c] = <<>> /\ ~Posted(main, c)
      /\ q \in Query
  BY <1>1, CallAssumption DEF IInv, CallFits, Adding
<1>3. /\ listeners' = [listeners EXCEPT ![q] = @ \union {c}]
      /\ seen' = [seen EXCEPT ![c] = snapshot]
      /\ raised' = IF told THEN raised \union {c} ELSE raised
      /\ Post(E)
      /\ view' = IF first THEN [view EXCEPT ![q] = "cache"] ELSE view
      /\ stored' = IF first THEN [stored EXCEPT ![q] = "cache"] ELSE stored
  BY DEF AddQueryListener
<1>4. /\ UNCHANGED <<called, answers, muted, online, wasOffline>>
  BY DEF mainVars
<1>5. snapshot \in SyncState /\ (told => snapshot \in {"cache", "server"})
  BY <1>2 DEF IInv, Types, SyncState
<1>6. snapshot = "cache" /\ told => c \in wasOffline
  BY <1>2 DEF ShouldRaiseInitialEvent, CallFits
<1>7. IsFiniteSet(E) /\ E \subseteq Events /\ \A e \in E : e = EventFor(c, snapshot) /\ told
  <2> HIDE DEF told, snapshot
  <2>1. told => EventFor(c, snapshot) \in Events
    BY <1>5 DEF Events, Event, EventFor
  <2> QED
    BY <2>1, FS_EmptySet, FS_Singleton
<1>8. ~Errored(main, c)
  BY <1>2 DEF Errored, Posted, EventFor
<1>9. \A e \in E : e.call = c /\ e.event = snapshot /\ e.event # "error" /\ told
  BY <1>5, <1>7 DEF EventFor
<1>10. told => EventFor(c, snapshot) \in E
  OBVIOUS
<1> HIDE DEF E
<1>11. /\ main' \in Seq(Events)
       /\ ErrorIsLast(main') /\ CacheIsOwed(main', wasOffline', muted')
       /\ \A d : Posted(main', d) <=> Posted(main, d) \/ \E e \in E : e.call = d
       /\ \A d : Errored(main', d) <=> Errored(main, d) \/ EventFor(d, "error") \in E
  BY <1>3, <1>4, <1>6, <1>7, <1>8, <1>9, PostInOrder
<1>12. /\ \A d \in Call : d # c => (Posted(main', d) <=> Posted(main, d))
       /\ told => Posted(main', c)
       /\ \A d \in Call : Errored(main', d) <=> Errored(main, d)
  <2> HIDE DEF told, snapshot
  <2>1. EventFor(c, snapshot).call = c
    BY DEF EventFor
  <2>2. \A d : EventFor(d, "error").event = "error"
    BY DEF EventFor
  <2>3. \A d : EventFor(d, "error") \notin E
    BY <1>9, <2>2
  <2> QED
    BY <1>9, <1>10, <1>11, <2>1, <2>3
<1> HIDE DEF told, snapshot, first
<1>13. Types'
  BY <1>1, <1>2, <1>3, <1>4, <1>5, <1>11 DEF IInv, Types, SyncState
<1>14. OwnListeners'
  BY <1>2, <1>3 DEF IInv, OwnListeners, Types
<1>15. BooksAgree'
  <2> SUFFICES ASSUME NEW p \in Query
               PROVE  /\ (view'[p] # "none") <=> (listeners'[p] # {})
                      /\ stored'[p] = view'[p]
                      /\ \A d \in listeners'[p] : seen'[d] = view'[p]
    BY DEF BooksAgree
  <2>1. /\ (view[p] # "none") <=> (listeners[p] # {})
        /\ stored[p] = view[p]
        /\ \A d \in listeners[p] : d \in Call /\ QueryOf[d] = p /\ seen[d] = view[p]
    BY DEF IInv, BooksAgree, OwnListeners, Types
  <2>2. CASE p # q
    <3>1. view'[p] = view[p] /\ stored'[p] = stored[p] /\ listeners'[p] = listeners[p]
      BY <1>3, <2>2 DEF IInv, Types
    <3>2. \A d \in listeners[p] : seen'[d] = seen[d]
      BY <1>3, <2>1, <2>2 DEF IInv, Types
    <3> QED
      BY <2>1, <3>1, <3>2
  <2>3. CASE p = q
    <3>1. listeners'[p] = listeners[p] \union {c}
      BY <1>3, <2>3 DEF IInv, Types
    <3>2. view'[p] = snapshot /\ stored'[p] = snapshot /\ snapshot # "none"
      BY <1>3, <2>1, <2>3 DEF IInv, Types, snapshot, first
    <3>3. \A d \in listeners'[p] : seen'[d] = snapshot
      <4>1. CASE first
        BY <1>3, <2>3, <3>1, <4>1 DEF IInv, Types, first
      <4>2. CASE ~first
        BY <1>3, <2>1, <2>3, <3>1, <4>2 DEF IInv, Types, snapshot
      <4> QED
        BY <4>1, <4>2
    <3> QED
      BY <3>1, <3>2, <3>3
  <2> QED
    BY <2>2, <2>3
<1>16. ASSUME NEW d \in Call PROVE CallFits(d)'
  <2>1. CallFits(d)
    BY DEF IInv
  <2>2. Removing(worker', d) <=> Removing(worker, d)
    BY <1>1 DEF Removing, AddOf, RemoveOf
  <2>3. CASE d = c
    <3>1. ~Adding(worker', c)
      BY <1>1 DEF Adding
    <3> QED
      BY <1>2, <1>3, <1>4, <1>8, <1>12, <2>1, <2>2, <2>3, <3>1 DEF CallFits, IInv, Types
  <2>4. CASE d # c
    <3>1. Adding(worker', d) => Adding(worker, d)
      BY <1>1 DEF Adding
    <3>2. Listening(d)' <=> Listening(d)
      BY <1>2, <1>3, <2>4, CallAssumption DEF Listening, IInv, Types
    <3>3. d \in raised' <=> d \in raised
      BY <1>3, <2>4
    <3> QED
      BY <1>4, <1>12, <2>1, <2>2, <2>4, <3>1, <3>2, <3>3 DEF CallFits
  <2> QED
    BY <2>3, <2>4
<1> QED
  BY <1>1, <1>11, <1>13, <1>14, <1>15, <1>16 DEF IInv

\* A listener leaves, whether or not an error has taken it off before.
LEMMA RemoveQueryListenerStep ==
  ASSUME IInv, NEW c \in Call, worker # <<>>, Head(worker) = RemoveOf(c), worker' = Tail(worker),
         RemoveQueryListener(c), UNCHANGED <<mainVars, online, wasOffline>>
  PROVE  IInv'
<1> DEFINE q == QueryOf[c]
<1>1. /\ worker' \in Seq(Tasks) /\ AddedOnce(worker')
      /\ \A u : Queued(worker, u) <=> Queued(worker', u) \/ u = RemoveOf(c)
  BY TailWorker
<1>2. /\ listeners' = [listeners EXCEPT ![q] = @ \ {c}]
      /\ view' = IF listeners[q] = {c} THEN [view EXCEPT ![q] = "none"] ELSE view
      /\ stored' = IF listeners[q] = {c} THEN [stored EXCEPT ![q] = "none"] ELSE stored
      /\ UNCHANGED <<raised, seen, main, called, answers, muted, online, wasOffline>>
      /\ q \in Query
  BY CallAssumption DEF RemoveQueryListener, mainVars
<1>3. Types'
  BY <1>1, <1>2 DEF IInv, Types, SyncState
<1>4. OwnListeners'
  BY <1>2 DEF IInv, OwnListeners, Types
<1>5. BooksAgree'
  <2> SUFFICES ASSUME NEW p \in Query
               PROVE  /\ (view'[p] # "none") <=> (listeners'[p] # {})
                      /\ stored'[p] = view'[p]
                      /\ \A d \in listeners'[p] : seen'[d] = view'[p]
    BY DEF BooksAgree
  <2>1. /\ (view[p] # "none") <=> (listeners[p] # {})
        /\ stored[p] = view[p]
        /\ \A d \in listeners[p] : seen[d] = view[p]
    BY DEF IInv, BooksAgree
  <2>2. CASE p # q
    BY <1>2, <2>1, <2>2 DEF IInv, Types
  <2>3. CASE p = q /\ listeners[q] = {c}
    <3>1. listeners'[p] = {} /\ view'[p] = "none" /\ stored'[p] = "none"
      BY <1>2, <2>3 DEF IInv, Types
    <3> QED
      BY <3>1
  <2>4. CASE p = q /\ listeners[q] # {c}
    <3>1. listeners'[p] = listeners[p] \ {c} /\ view' = view /\ stored' = stored /\ seen' = seen
      BY <1>2, <2>4 DEF IInv, Types
    <3>2. listeners'[p] # {} <=> listeners[p] # {}
      BY <2>4, <3>1
    <3> QED
      BY <2>1, <3>1, <3>2
  <2> QED
    BY <2>2, <2>3, <2>4
<1>6. ASSUME NEW d \in Call PROVE CallFits(d)'
  <2>1. CallFits(d)
    BY DEF IInv
  <2>2. Adding(worker', d) <=> Adding(worker, d)
    BY <1>1 DEF Adding, AddOf, RemoveOf
  <2>3. Removing(worker', d) => Removing(worker, d)
    BY <1>1 DEF Removing
  <2>4. Listening(d)' => Listening(d)
    BY <1>2, CallAssumption DEF Listening, IInv, Types
  <2>5. Listening(d)' => (Removing(worker', d) <=> Removing(worker, d))
    <3>1. CASE d = c
      BY <1>2, <3>1 DEF Listening, IInv, Types
    <3>2. CASE d # c
      BY <1>1, <3>2 DEF Removing, RemoveOf
    <3> QED
      BY <3>1, <3>2
  <2> QED
    BY <1>2, <2>1, <2>2, <2>3, <2>4, <2>5 DEF CallFits
<1> QED
  BY <1>1, <1>2, <1>3, <1>4, <1>5, <1>6 DEF IInv

\* The first task of the worker queue.
LEMMA RunWorkerStep ==
  ASSUME IInv, RunWorker
  PROVE  IInv'
<1>1. worker # <<>> /\ worker' = Tail(worker) /\ UNCHANGED <<mainVars, online, wasOffline>>
  BY DEF RunWorker
<1>2. Head(worker) \in Tasks
  BY <1>1, TailWorker
<1> DEFINE c == Head(worker).call
<1>3. c \in Call /\ (Head(worker) = AddOf(c) \/ Head(worker) = RemoveOf(c))
  BY <1>2 DEF Tasks, AddOf, RemoveOf
<1>4. CASE Head(worker).op = "add"
  <2>1. AddQueryListener(c) /\ Head(worker) = AddOf(c)
    BY <1>3, <1>4 DEF RunWorker, AddOf, RemoveOf
  <2> HIDE DEF c
  <2> QED
    BY <1>1, <1>3, <2>1, AddQueryListenerStep
<1>5. CASE Head(worker).op # "add"
  <2>1. RemoveQueryListener(c) /\ Head(worker) = RemoveOf(c)
    BY <1>3, <1>5 DEF RunWorker, AddOf, RemoveOf
  <2> HIDE DEF c
  <2> QED
    BY <1>1, <1>3, <2>1, RemoveQueryListenerStep
<1> QED
  BY <1>4, <1>5

(***************************************************************************)
(* A task that tells listeners of a snapshot, an error or the state: who   *)
(* is told listens, and has been answered only if it is muted.             *)
(***************************************************************************)
LEMMA ListenersTold ==
  ASSUME IInv, UNCHANGED <<called, answers, muted, worker>>,
         NEW E, E \subseteq Events, Post(E),
         \A e \in E : Listening(e.call),
         \A e \in E : e.event = "error" => ~Listening(e.call)',
         \A d, e \in E : d.event = "error" /\ d.call = e.call => d = e,
         \A e \in E : e.event = "cache" =>
                        e.call \in wasOffline' \union muted \/ Posted(main, e.call),
         \A c \in Call : Listening(c)' => Listening(c),
         raised \subseteq raised', \A c \in raised' \ raised : \E e \in E : e.call = c,
         wasOffline \subseteq wasOffline',
         online' = "Offline" => \A c \in called : answers[c] = <<>> => c \in wasOffline'
  PROVE  /\ main' \in Seq(Events)
         /\ ErrorIsLast(main') /\ CacheIsOwed(main', wasOffline', muted')
         /\ \A c \in Call : CallFits(c)'
<1>1. \A e \in E : e.call \in Call /\ e.call \in called
  BY CallAssumption DEF Events, Listening, IInv, Types
<1>2. IsFiniteSet(E)
  <2>1. E \subseteq [call : called, event : Event]
    BY <1>1 DEF Events
  <2> QED
    BY <2>1, FiniteEvents DEF IInv, Types
<1>3. \A e \in E : ~Errored(main, e.call)
  BY <1>1 DEF IInv, CallFits
<1>4. /\ main' \in Seq(Events)
      /\ ErrorIsLast(main') /\ CacheIsOwed(main', wasOffline', muted')
      /\ \A c : Posted(main', c) <=> Posted(main, c) \/ \E e \in E : e.call = c
      /\ \A c : Errored(main', c) <=> Errored(main, c) \/ EventFor(c, "error") \in E
  BY <1>2, <1>3, PostInOrder
<1>5. ASSUME NEW c \in Call PROVE CallFits(c)'
  <2>1. CallFits(c)
    BY DEF IInv
  <2>2. (\E e \in E : e.call = c) =>
          /\ c \in called /\ Listening(c) /\ ~Adding(worker, c)
          /\ answers[c] # <<>> => c \in muted
    BY <1>1, <2>1 DEF CallFits
  <2>3. Errored(main', c) => ~Listening(c)'
    <3>1. EventFor(c, "error").event = "error" /\ EventFor(c, "error").call = c
      BY DEF EventFor
    <3> QED
      BY <1>4, <2>1, <3>1 DEF CallFits
  <2>4. c \in raised' => answers[c] # <<>> \/ Posted(main', c)
    BY <1>4, <2>1 DEF CallFits
  <2>5. Adding(worker, c) => c \notin raised' /\ ~Posted(main', c) /\ ~Listening(c)'
    BY <1>4, <2>1, <2>2 DEF CallFits
  <2>6. /\ Posted(main', c) => c \in called
        /\ answers[c] # <<>> /\ c \notin muted => ~Posted(main', c)
    BY <1>4, <2>1, <2>2 DEF CallFits
  <2> QED
    BY <2>1, <2>3, <2>4, <2>5, <2>6 DEF CallFits
<1> QED
  BY <1>4, <1>5

\* A remote event: the listeners of the query are offered its snapshot.
LEMMA ViewChangesStep ==
  ASSUME IInv, NEW q \in Query, NEW state \in {"cache", "server"}, ViewChanges(q, state)
  PROVE  IInv'
<1> DEFINE told == {c \in listeners[q] : Raises(c, state)}
           E    == {EventFor(c, state) : c \in told}
<1>1. /\ view[q] # "none" /\ online = "Online" /\ view' = [view EXCEPT ![q] = state]
      /\ UNCHANGED <<called, answers, muted, worker, listeners, online, wasOffline>>
  BY DEF ViewChanges, mainVars
<1>2. \A c \in listeners[q] : c \in Call /\ QueryOf[c] = q /\ view'[QueryOf[c]] = state /\ Listening(c)
  BY <1>1 DEF IInv, Types, OwnListeners, Listening
<1> DEFINE offered == UNION {listeners[p] : p \in {q}}
           raising == {c \in offered : Raises(c, view'[QueryOf[c]])}
           posted  == {EventFor(c, view'[QueryOf[c]]) : c \in raising}
<1>3. offered = listeners[q]
  OBVIOUS
<1>4. /\ raised' = raised \union raising
      /\ seen' = [c \in Call |-> IF c \in offered THEN view'[QueryOf[c]] ELSE seen[c]]
      /\ stored' = [p \in Query |-> IF p \in {q} /\ listeners[p] # {} THEN view'[p] ELSE stored[p]]
      /\ Post(posted)
  BY DEF ViewChanges, OnViewSnapshots
<1>5. raising = told /\ posted = E
  <2> HIDE DEF offered
  <2>1. raising = told
    BY <1>2, <1>3
  <2> HIDE DEF raising
  <2>2. posted = E
    BY <1>2, <2>1
  <2> QED
    BY <2>1, <2>2
<1>6. /\ raised' = raised \union told
      /\ seen' = [c \in Call |-> IF c \in listeners[q] THEN view'[QueryOf[c]] ELSE seen[c]]
      /\ stored' = [p \in Query |-> IF p \in {q} /\ listeners[p] # {} THEN view'[p] ELSE stored[p]]
      /\ Post(E)
  <2> HIDE DEF offered, raising, posted, told, E
  <2> QED
    BY <1>3, <1>4, <1>5
<1>7. E \subseteq Events /\ \A e \in E : e.call \in told /\ e.event = state
  BY <1>2 DEF Events, Event, EventFor
<1>8. ASSUME NEW c \in told PROVE \E e \in E : e.call = c
  <2>1. EventFor(c, state) \in E /\ EventFor(c, state).call = c
    BY DEF EventFor
  <2> QED
    BY <2>1
<1>9. \A c \in told : state = "cache" => c \in muted \/ Posted(main, c)
  BY <1>1, <1>2 DEF Raises, ShouldRaiseInitialEvent, IInv, CallFits
<1>10. \A c \in told : Listening(c) /\ c \in called
  BY <1>2 DEF IInv, Types
<1>11. \A c \in Call : Listening(c)' <=> Listening(c)
  BY <1>1 DEF Listening
<1> HIDE DEF E, told
<1>12. /\ main' \in Seq(Events)
       /\ ErrorIsLast(main') /\ CacheIsOwed(main', wasOffline', muted')
       /\ \A c \in Call : CallFits(c)'
  BY <1>1, <1>6, <1>7, <1>8, <1>9, <1>10, <1>11, ListenersTold
<1>13. Types'
  BY <1>1, <1>2, <1>6, <1>10, <1>12, CallAssumption DEF IInv, Types, SyncState
<1>14. OwnListeners' /\ AddedOnce(worker')
  BY <1>1 DEF IInv, OwnListeners
<1>15. BooksAgree'
  <2> SUFFICES ASSUME NEW p \in Query
               PROVE  /\ (view'[p] # "none") <=> (listeners[p] # {})
                      /\ stored'[p] = view'[p]
                      /\ \A d \in listeners[p] : seen'[d] = view'[p]
    BY <1>1 DEF BooksAgree
  <2>1. /\ (view[p] # "none") <=> (listeners[p] # {})
        /\ stored[p] = view[p]
        /\ \A d \in listeners[p] : d \in Call /\ QueryOf[d] = p /\ seen[d] = view[p]
    BY DEF IInv, BooksAgree, OwnListeners, Types
  <2>2. CASE p = q
    BY <1>1, <1>6, <2>1, <2>2 DEF IInv, Types
  <2>3. CASE p # q
    <3>1. view'[p] = view[p] /\ stored'[p] = stored[p]
      BY <1>1, <1>6, <2>3 DEF IInv, Types
    <3>2. \A d \in listeners[p] : d \notin listeners[q] /\ seen'[d] = seen[d]
      BY <1>2, <1>6, <2>1, <2>3
    <3> QED
      BY <2>1, <3>1, <3>2
  <2> QED
    BY <2>2, <2>3
<1> QED
  BY <1>12, <1>13, <1>14, <1>15 DEF IInv

\* A rejection: the listeners of the query are told and forgotten.
LEMMA HandleRejectedListenStep ==
  ASSUME IInv, NEW q \in Query, HandleRejectedListen(q)
  PROVE  IInv'
<1> DEFINE E == {EventFor(c, "error") : c \in listeners[q]}
<1>1. /\ view' = [view EXCEPT ![q] = "none"] /\ listeners' = [listeners EXCEPT ![q] = {}]
      /\ stored' = [stored EXCEPT ![q] = "none"]
      /\ UNCHANGED <<called, answers, muted, worker, raised, seen, online, wasOffline>>
      /\ Post(E)
  BY DEF HandleRejectedListen, mainVars
<1>2. \A c \in listeners[q] : c \in Call /\ QueryOf[c] = q /\ Listening(c)
  BY <1>1 DEF IInv, Types, OwnListeners, Listening
<1>3. E \subseteq Events /\ \A e \in E : e.call \in listeners[q] /\ e = EventFor(e.call, "error")
      /\ e.event = "error"
  BY <1>2 DEF Events, Event, EventFor
<1>4. \A c \in Call : Listening(c)' => Listening(c) /\ c \notin listeners[q]
  BY <1>1, <1>2, CallAssumption DEF Listening, IInv, Types
<1> HIDE DEF E
<1>5. /\ main' \in Seq(Events)
      /\ ErrorIsLast(main') /\ CacheIsOwed(main', wasOffline', muted')
      /\ \A c \in Call : CallFits(c)'
  <2>1. \A d, e \in E : d.event = "error" /\ d.call = e.call => d = e
    BY <1>3
  <2>2. \A e \in E : Listening(e.call) /\ ~Listening(e.call)' /\ e.event # "cache"
    BY <1>2, <1>3, <1>4
  <2>3. online' = "Offline" => \A c \in called : answers[c] = <<>> => c \in wasOffline'
    BY <1>1 DEF IInv, CallFits, Types
  <2> QED
    BY <1>1, <1>3, <1>4, <2>1, <2>2, <2>3, ListenersTold
<1>6. Types'
  BY <1>1, <1>5 DEF IInv, Types, SyncState
<1>7. OwnListeners' /\ AddedOnce(worker')
  BY <1>1 DEF IInv, OwnListeners, Types
<1>8. BooksAgree'
  BY <1>1 DEF IInv, BooksAgree, Types
<1> QED
  BY <1>5, <1>6, <1>7, <1>8 DEF IInv

\* The state changes: synced views raise a snapshot from the cache, and who still
\* waits makes do with what it has seen.
LEMMA HandleOnlineStateChangeStep ==
  ASSUME IInv, NEW state \in OnlineState, HandleOnlineStateChange(state)
  PROVE  IInv'
<1> DEFINE lost    == {q \in Query : state = "Offline" /\ view[q] = "server"}
           told    == UNION {listeners[q] : q \in lost}
           waiting == UNION {listeners[q] : q \in Query} \ raised
           giveUp  == {c \in waiting : seen[c] # "none" /\ ShouldRaiseInitialEvent(seen[c], state)}
           E       == {EventFor(c, "cache") : c \in told \intersect raised}
                        \union {EventFor(c, seen'[c]) : c \in giveUp}
<1>1. /\ online' = state
      /\ view' = [q \in Query |-> IF q \in lost THEN "cache" ELSE view[q]]
      /\ stored' = [q \in Query |-> IF q \in lost THEN "cache" ELSE stored[q]]
      /\ seen' = [c \in Call |-> IF c \in told THEN "cache" ELSE seen[c]]
      /\ raised' = raised \union giveUp
      /\ Post(E)
      /\ wasOffline' = IF state = "Offline"
                       THEN wasOffline \union {c \in called : answers[c] = <<>>}
                       ELSE wasOffline
      /\ UNCHANGED <<called, answers, muted, worker, listeners>>
  BY DEF HandleOnlineStateChange, mainVars
<1>2. \A q \in Query : \A c \in listeners[q] :
        c \in Call /\ c \in called /\ QueryOf[c] = q /\ Listening(c)
  BY DEF IInv, Types, OwnListeners, Listening
<1>3. \A c \in Call : c \in told <=> Listening(c) /\ QueryOf[c] \in lost
  BY <1>2, CallAssumption DEF Listening
<1>4. /\ \A c \in told : c \in Call /\ Listening(c) /\ c \in called /\ state = "Offline"
      /\ \A c \in giveUp : c \in Call /\ Listening(c) /\ c \in called
  BY <1>2
<1>5. \A c \in giveUp : /\ seen'[c] \in {"cache", "server"}
                        /\ seen'[c] = "cache" => state = "Offline"
  BY <1>1, <1>4 DEF ShouldRaiseInitialEvent, IInv, Types, SyncState
<1>6. \A e \in E :
        \/ e.event = "cache" /\ e.call \in told /\ e = EventFor(e.call, "cache")
        \/ e.event = seen'[e.call] /\ e.call \in giveUp /\ e = EventFor(e.call, seen'[e.call])
  BY DEF EventFor
<1>7. ASSUME NEW c \in giveUp PROVE \E e \in E : e.call = c
  <2>1. EventFor(c, seen'[c]) \in E /\ EventFor(c, seen'[c]).call = c
    BY DEF EventFor
  <2> QED
    BY <2>1
<1>8. \A c \in Call : Listening(c)' <=> Listening(c)
  BY <1>1 DEF Listening
<1> HIDE DEF lost, told, waiting, giveUp, E
<1>9. \A e \in E : /\ e \in Events /\ e.call \in Call /\ e.call \in called /\ Listening(e.call)
                   /\ e.event # "error" /\ (e.event = "cache" => state = "Offline")
  BY <1>4, <1>5, <1>6 DEF Events, Event, EventFor
<1>10. /\ main' \in Seq(Events)
       /\ ErrorIsLast(main') /\ CacheIsOwed(main', wasOffline', muted')
       /\ \A c \in Call : CallFits(c)'
  <2>1. ASSUME NEW e \in E, e.event = "cache" PROVE e.call \in wasOffline' \union muted
    <3>1. answers[e.call] # <<>> => e.call \in muted
      BY <1>9 DEF IInv, CallFits
    <3> QED
      BY <1>1, <1>9, <2>1, <3>1
  <2>2. online' = "Offline" => \A c \in called : answers[c] = <<>> => c \in wasOffline'
    BY <1>1
  <2> QED
    BY <1>1, <1>7, <1>8, <1>9, <2>1, <2>2, ListenersTold
<1>11. Types'
  <2>1. raised' \subseteq called /\ wasOffline' \subseteq called
    BY <1>1, <1>4 DEF IInv, Types
  <2>2. seen' \in [Call -> SyncState] /\ stored' \in [Query -> SyncState]
        /\ view' \in [Query -> SyncState]
    BY <1>1 DEF IInv, Types, SyncState
  <2> QED
    BY <1>1, <1>10, <2>1, <2>2 DEF IInv, Types
<1>12. OwnListeners' /\ AddedOnce(worker')
  BY <1>1 DEF IInv, OwnListeners
<1>13. BooksAgree'
  <2> SUFFICES ASSUME NEW p \in Query
               PROVE  /\ (view'[p] # "none") <=> (listeners[p] # {})
                      /\ stored'[p] = view'[p]
                      /\ \A d \in listeners[p] : seen'[d] = view'[p]
    BY <1>1 DEF BooksAgree
  <2>1. /\ (view[p] # "none") <=> (listeners[p] # {})
        /\ stored[p] = view[p]
        /\ \A d \in listeners[p] : d \in Call /\ QueryOf[d] = p /\ seen[d] = view[p]
    BY <1>2 DEF IInv, BooksAgree
  <2>2. \A d \in listeners[p] : d \in told <=> p \in lost
    BY <1>2, <1>3, <2>1
  <2>3. p \in lost => view[p] = "server"
    BY DEF lost
  <2> QED
    BY <1>1, <2>1, <2>2, <2>3
<1> QED
  BY <1>10, <1>11, <1>12, <1>13 DEF IInv
-----------------------------------------------------------------------------
(***************************************************************************)
(* The theorems                                                            *)
(***************************************************************************)

\* Every task of the two queues keeps the invariant.
LEMMA StepIInv == IInv /\ [Next]_vars => IInv'
<1> SUFFICES ASSUME IInv, [Next]_vars PROVE IInv'
  OBVIOUS
<1>1. CASE \E c \in Call : GetDocuments(c)
  BY <1>1, GetDocumentsStep
<1>2. CASE OnEvent
  BY <1>2, OnEventStep
<1>3. CASE RunWorker
  BY <1>3, RunWorkerStep
<1>4. CASE \E q \in Query : DocumentsChange(q) \/ HandleRejectedListen(q)
  BY <1>4, ViewChangesStep, HandleRejectedListenStep DEF DocumentsChange
<1>5. CASE \E state \in OnlineState : HandleOnlineStateChange(state)
  BY <1>5, HandleOnlineStateChangeStep
<1>6. CASE UNCHANGED vars
  <2>1. UNCHANGED <<called, answers, muted, worker, main, listeners, stored, raised, seen, view,
                    online, wasOffline>>
    BY <1>6 DEF vars, mainVars, eventVars
  <2> QED
    BY <2>1 DEF IInv, Types, OwnListeners, BooksAgree, AddedOnce, CallFits, Listening
<1> QED
  BY <1>1, <1>2, <1>3, <1>4, <1>5, <1>6 DEF Next

\* The inductive invariant holds of both queues, in whatever order they run.
THEOREM Inductive == Spec => []IInv
BY InitIInv, StepIInv, PTL DEF Spec

\* The invariant says what the checked ones say, call by call.
LEMMA IInvIsSafe == IInv => CallSafety /\ CacheOnlyOffline
<1> SUFFICES ASSUME IInv PROVE CallSafety /\ CacheOnlyOffline
  OBVIOUS
<1>1. \A c \in Call : CallFits(c)
  BY DEF IInv
<1>2. worker \in Seq([op : {"add", "remove"}, call : called])
  <2>1. worker \in Seq(Tasks) /\ Len(worker) \in Nat /\ DOMAIN worker = 1..Len(worker)
    BY LenProperties DEF IInv, Types
  <2>2. ASSUME NEW i \in 1..Len(worker) PROVE worker[i] \in [op : {"add", "remove"}, call : called]
    <3>1. worker[i] \in Tasks
      BY <2>1, ElementOfSeq
    <3>2. worker[i] = AddOf(worker[i].call) \/ worker[i] = RemoveOf(worker[i].call)
      BY <3>1 DEF Tasks, AddOf, RemoveOf
    <3>3. worker[i].call \in Call /\ worker[i].call \in called
      BY <1>1, <3>1, <3>2 DEF Tasks, CallFits, Adding, Removing, Queued
    <3> QED
      BY <3>1, <3>3 DEF Tasks
  <2> QED
    BY <2>1, <2>2, SeqOfItems
<1>3. main \in Seq([call : called, event : Event])
  <2>1. main \in Seq(Events) /\ Len(main) \in Nat /\ DOMAIN main = 1..Len(main)
    BY LenProperties DEF IInv, Types
  <2>2. ASSUME NEW i \in 1..Len(main) PROVE main[i] \in [call : called, event : Event]
    <3>1. main[i] \in Events
      BY <2>1, ElementOfSeq
    <3>2. main[i].call \in called
      BY <1>1, <3>1 DEF Events, CallFits, Posted
    <3> QED
      BY <3>1, <3>2 DEF Events
  <2> QED
    BY <2>1, <2>2, SeqOfItems
<1>4. GetTypeOK
  BY <1>2, <1>3 DEF IInv, Types, GetTypeOK
<1>5. ListensReleased
  <2> SUFFICES ASSUME NEW q \in Query, NEW c \in listeners[q], answers[c] # <<>>
               PROVE  \E i \in DOMAIN worker : worker[i] = [op |-> "remove", call |-> c]
    BY DEF ListensReleased
  <2>1. c \in Call /\ Listening(c)
    BY DEF IInv, Types, OwnListeners, Listening
  <2>2. Removing(worker, c)
    BY <1>1, <2>1 DEF CallFits
  <2>3. DOMAIN worker = 1..Len(worker)
    BY LenProperties DEF IInv, Types
  <2> QED
    BY <2>2, <2>3 DEF Removing, Queued, RemoveOf
<1>6. RaisedReaches
  <2>1. DOMAIN main = 1..Len(main)
    BY LenProperties DEF IInv, Types
  <2> QED
    BY <1>1, <2>1 DEF RaisedReaches, IInv, Types, CallFits, Posted
<1>7. CacheOnlyOffline
  BY <1>1 DEF CacheOnlyOffline, CallFits
<1>8. BooksAgree
  BY DEF IInv
<1> QED
  BY <1>4, <1>5, <1>6, <1>7, <1>8 DEF CallSafety

\* CallSafety holds for any calls and queries and queues of any length: the books
\* of the event manager and of the sync engine agree, every listener is let go of,
\* and nothing raised is lost on the way to the main queue.
THEOREM Safety == Spec => []CallSafety
BY Inductive, IInvIsSafe, PTL

\* Only a call that was open while the client was offline is answered from the
\* cache, or refused for want of a connection (QueryListener).
THEOREM CacheOnly == Spec => []CacheOnlyOffline
BY Inductive, IInvIsSafe, PTL

\* getDocuments implements OneAnswer but for its fairness: a call is asked once,
\* and answered at most once, with something a call can be answered with.
THEOREM AnsweredOnce == Spec => Promise!Init /\ [][Promise!Next]_(Promise!oneVars)
<1>1. Init => Promise!Init
  BY DEF Init, Promise!Init
<1>2. IInv /\ [Next]_vars => [Promise!Next]_(Promise!oneVars)
  <2> SUFFICES ASSUME IInv, [Next]_vars
               PROVE  Promise!Next \/ UNCHANGED <<called, answers>>
    BY DEF Promise!oneVars
  <2>1. ASSUME NEW c \in Call, GetDocuments(c) PROVE Promise!Next
    BY <2>1 DEF GetDocuments, Promise!Next, Promise!Ask
  <2>2. CASE OnEvent
    <3>1. CASE Head(main).call \in muted
      BY <2>2, <3>1 DEF OnEvent
    <3>2. CASE Head(main).call \notin muted
      <4> DEFINE c == Head(main).call
                 r == ReplyTo(c, Head(main).event)
      <4>1. c \in called /\ answers[c] = <<>> /\ r \in Reply
            /\ answers' = [answers EXCEPT ![c] = <<r>>] /\ UNCHANGED called
        BY <2>2, <3>2, AnswerIsFirst DEF OnEvent
      <4>2. c \in Call
        BY <4>1 DEF IInv, Types
      <4> HIDE DEF c, r
      <4> QED
        BY <4>1, <4>2 DEF Promise!Next, Promise!Reply
    <3> QED
      BY <3>1, <3>2
  <2>3. CASE RunWorker
    BY <2>3 DEF RunWorker, mainVars
  <2>4. CASE \E q \in Query : DocumentsChange(q) \/ HandleRejectedListen(q)
    BY <2>4 DEF DocumentsChange, ViewChanges, HandleRejectedListen, mainVars
  <2>5. CASE \E state \in OnlineState : HandleOnlineStateChange(state)
    BY <2>5 DEF HandleOnlineStateChange, mainVars
  <2>6. CASE UNCHANGED vars
    BY <2>6 DEF vars, mainVars
  <2> QED
    BY <2>1, <2>2, <2>3, <2>4, <2>5, <2>6 DEF Next
<1> QED
  BY <1>1, <1>2, Inductive, PTL DEF Spec
-----------------------------------------------------------------------------
=============================================================================
