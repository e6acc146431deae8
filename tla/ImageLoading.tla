----------------------------- MODULE ImageLoading -----------------------------
(***************************************************************************)
(* The images of the app: the pins of the markers (loadBars) and the       *)
(* photographs in table cells, which are reused from row to row            *)
(* (cellForRowAt).  Both go through Kingfisher, which answers from memory  *)
(* at once, from disk later, or downloads, one download serving every      *)
(* request for the same URL.                                               *)
(*                                                                         *)
(* Two threads share the downloads.  The main thread makes the requests    *)
(* and runs their completions; URLSession's delegate queue ends a download.*)
(* Each takes the lock of the table of tasks, and that of a task's         *)
(* callbacks, for a moment at a time, so their handlers interleave.        *)
(*                                                                         *)
(* Nothing in the app cancels a request.                                   *)
(***************************************************************************)
EXTENDS Naturals, Sequences, SequencesExt

CONSTANTS
  Url, Cell, Marker,   \* Cell: the image views of the reused cells
  pinURL,              \* the URL of each marker's pin
  MaxRequests          \* bound on the requests made

ASSUME ImageAssumption ==
  /\ pinURL \in [Marker -> Url]
  /\ Cell \intersect Marker = {}
  /\ IsFiniteSet(Marker)
  /\ MaxRequests \in Nat

VARIABLES
  requests,       \* the requests made, [view, url]; their places identify them
  todo,           \* what the main thread's handler has still to request
  joining,        \* the request about to be appended to the task it has found
  image,          \* what each view shows
  asked,          \* the URL each view was asked to show last
  taskIdentifier, \* the request a cell waits for, 0 for nil
  cache,          \* where the image of a URL is cached
  reading,        \* requests being read from disk
  tasks,          \* SessionDelegate's table: the task of each URL, 0 for none
  callbacks,      \* the requests each task is to answer
  running,        \* the tasks that URLSession has not completed
  finishing,      \* the task the delegate queue is completing
  arrived,        \* completions on their way to the main thread
  answers,        \* history: the completions each request has had
  late            \* history: requests appended to a task that had been answered

vars == <<requests, todo, joining, image, asked, taskIdentifier, cache, reading,
          tasks, callbacks, running, finishing, arrived, answers, late>>

mainVars == <<requests, todo, joining, image, asked, taskIdentifier>>
netVars == <<tasks, callbacks, running, finishing>>

View == Cell \union Marker
Id == 1..MaxRequests
NoUrl == "none"
Nobody == [id |-> 0, task |-> 0]
Nothing == [task |-> 0, ok |-> FALSE, step |-> "idle"]

UrlOf(id) == requests[id].url
Room(n) == Len(requests) + n <= MaxRequests
MainIdle == todo = <<>> /\ joining = Nobody

ImageTypeOK ==
  /\ requests \in Seq([view : View, url : Url]) /\ Len(requests) <= MaxRequests
  /\ todo \in Seq([view : View, url : Url])
  /\ joining \in [id : Id, task : Id] \union {Nobody}
  /\ image \in [View -> Url \union {"blank", "black"}]
  /\ asked \in [View -> Url \union {NoUrl}]
  /\ taskIdentifier \in [Cell -> Id \union {0}]
  /\ cache \in [Url -> {"none", "disk", "memory"}]
  /\ reading \subseteq Id
  /\ tasks \in [Url -> Id \union {0}]
  /\ callbacks \in [Id -> SUBSET Id]
  /\ running \subseteq Id
  /\ finishing \in [task : Id, ok : BOOLEAN, step : {"found", "removed"}] \union {Nothing}
  /\ arrived \subseteq [id : Id, ok : BOOLEAN]
  /\ answers \in [Id -> Nat]
  /\ late \subseteq Id

Init ==
  /\ requests = <<>> /\ todo = <<>> /\ joining = Nobody
  /\ image = [v \in View |-> "blank"]
  /\ asked = [v \in View |-> NoUrl]
  /\ taskIdentifier = [c \in Cell |-> 0]
  /\ cache \in [Url -> {"none", "disk"}]     \* what an earlier session has left
  /\ reading = {}
  /\ tasks = [u \in Url |-> 0]
  /\ callbacks = [id \in Id |-> {}]
  /\ running = {} /\ finishing = Nothing /\ arrived = {}
  /\ answers = [id \in Id |-> 0]
  /\ late = {}
-----------------------------------------------------------------------------
(***************************************************************************)
(* The main thread.  An operator whose name starts with "Slip" is a        *)
(* mistake that could be made in the definition that follows it.           *)
(***************************************************************************)

\* loadBars asks for the pin of every bar, once, in the order of a dictionary.
LoadBars ==
  /\ MainIdle
  /\ \A m \in Marker : asked[m] = NoUrl
  /\ Room(Cardinality(Marker))
  /\ \E order \in SetToSeqs(Marker) :
       todo' = [i \in DOMAIN order |-> [view |-> order[i], url |-> pinURL[order[i]]]]
  /\ UNCHANGED <<requests, joining, image, asked, taskIdentifier, cache, reading,
                 netVars, arrived, answers, late>>

\* cellForRowAt: a cell, fresh or reused, gets the photograph of its row.
CellForRow(c, u) ==
  /\ MainIdle /\ Room(1)
  /\ todo' = <<[view |-> c, url |-> u]>>
  /\ UNCHANGED <<requests, joining, image, asked, taskIdentifier, cache, reading,
                 netVars, arrived, answers, late>>

\* URL(string:) gives nil, so setImage has no source.
CellForRowWithoutUrl(c) ==
  /\ MainIdle
  /\ image' = [image EXCEPT ![c] = "blank"]
  /\ asked' = [asked EXCEPT ![c] = NoUrl]
  /\ taskIdentifier' = [taskIdentifier EXCEPT ![c] = 0]
  /\ UNCHANGED <<requests, todo, joining, cache, reading, netVars, arrived,
                 answers, late>>

\* Slip: the identifier is not compared.
SlipShowWhatever(v, u, id, ok, identifier, shown) ==
  /\ taskIdentifier' = IF v \in Cell THEN [identifier EXCEPT ![v] = 0] ELSE identifier
  /\ image' = [shown EXCEPT ![v] = IF ok THEN u ELSE @]
  /\ answers' = [answers EXCEPT ![id] = @ + 1]

\* Slip: a failure sets the image to the URL that was not found.
SlipShowMissing(v, u, id, ok, identifier, shown) ==
  /\ taskIdentifier' = identifier
  /\ image' = [shown EXCEPT ![v] = IF ok THEN u ELSE NoUrl]
  /\ answers' = [answers EXCEPT ![id] = @ + 1]

\* The completion of request id, for view v: a cell shows the image only if this
\* is the request it waits for, and keeps what it has when there is an error; a
\* marker takes what comes.
Complete(v, u, id, ok, identifier, shown) ==
  /\ answers' = [answers EXCEPT ![id] = @ + 1]
  /\ IF v \in Cell
       THEN IF identifier[v] = id
              THEN /\ taskIdentifier' = [identifier EXCEPT ![v] = 0]
                   /\ image' = IF ok THEN [shown EXCEPT ![v] = u] ELSE shown
              ELSE taskIdentifier' = identifier /\ image' = shown
       ELSE /\ image' = [shown EXCEPT ![v] = IF ok THEN u ELSE "black"]
            /\ taskIdentifier' = identifier

\* Slip: a download is started whether or not one is under way.
SlipDownloadAlways(id, u) ==
  /\ tasks' = [tasks EXCEPT ![u] = id]
  /\ callbacks' = [callbacks EXCEPT ![id] = {id}]
  /\ running' = running \union {id}
  /\ UNCHANGED <<joining, finishing>>

\* downloadImage: with no task for the URL, one is added and started; otherwise
\* the request goes to the task found, but only after the lock is released.
DownloadImage(id, u) ==
  /\ IF tasks[u] = 0
       THEN /\ tasks' = [tasks EXCEPT ![u] = id]
            /\ callbacks' = [callbacks EXCEPT ![id] = {id}]
            /\ running' = running \union {id}
            /\ UNCHANGED joining
       ELSE /\ joining' = [id |-> id, task |-> tasks[u]]
            /\ UNCHANGED <<tasks, callbacks, running>>
  /\ UNCHANGED finishing

\* setImage of a cell and retrieveImage of a marker, up to where the image is
\* looked for.  One that is in memory is set before the call returns.
RetrieveImage ==
  /\ todo # <<>> /\ joining = Nobody
  /\ LET v == Head(todo).view
         u == Head(todo).url
         id == Len(requests) + 1
         identifier == IF v \in Cell THEN [taskIdentifier EXCEPT ![v] = id]
                                     ELSE taskIdentifier
         shown == IF v \in Cell THEN [image EXCEPT ![v] = "blank"] ELSE image
     IN  /\ requests' = Append(requests, Head(todo))
         /\ asked' = [asked EXCEPT ![v] = u]
         /\ IF cache[u] = "memory"
              THEN Complete(v, u, id, TRUE, identifier, shown)
              ELSE taskIdentifier' = identifier /\ image' = shown /\ UNCHANGED answers
         /\ reading' = IF cache[u] = "disk" THEN reading \union {id} ELSE reading
         /\ IF cache[u] = "none" THEN DownloadImage(id, u)
                                 ELSE UNCHANGED <<joining, netVars>>
  /\ todo' = Tail(todo)
  /\ UNCHANGED <<cache, arrived, late>>

Answered(task) == tasks[UrlOf(task)] # task /\ finishing.task # task

\* append: the callback joins the task, whatever has become of it.
AppendCallback ==
  /\ joining # Nobody
  /\ callbacks' = [callbacks EXCEPT ![joining.task] = @ \union {joining.id}]
  /\ late' = IF Answered(joining.task) THEN late \union {joining.id} ELSE late
  /\ joining' = Nobody
  /\ UNCHANGED <<requests, todo, image, asked, taskIdentifier, cache, reading,
                 tasks, running, finishing, arrived, answers>>

\* The image is on disk, unless it has expired since it was looked up.
ReadFromDisk(id) ==
  /\ MainIdle /\ id \in reading
  /\ reading' = reading \ {id}
  /\ LET u == UrlOf(id)  found == cache[u] # "none"
     IN  /\ Complete(requests[id].view, u, id, found, taskIdentifier, image)
         /\ cache' = IF found THEN [cache EXCEPT ![u] = "memory"] ELSE cache
  /\ UNCHANGED <<requests, todo, joining, asked, netVars, arrived, late>>

\* cacheImage, then the completion.
Arrive(a) ==
  /\ MainIdle /\ a \in arrived
  /\ arrived' = arrived \ {a}
  /\ LET u == UrlOf(a.id)
     IN  /\ Complete(requests[a.id].view, u, a.id, a.ok, taskIdentifier, image)
         /\ cache' = IF a.ok THEN [cache EXCEPT ![u] = "memory"] ELSE cache
  /\ UNCHANGED <<requests, todo, joining, asked, reading, netVars, late>>

\* A memory warning, or the expiry of a file.
Evict(u) ==
  /\ MainIdle
  /\ \/ cache[u] = "memory" /\ cache' \in {[cache EXCEPT ![u] = w] : w \in {"disk", "none"}}
     \/ cache[u] = "disk" /\ cache' = [cache EXCEPT ![u] = "none"]
  /\ UNCHANGED <<mainVars, reading, netVars, arrived, answers, late>>
-----------------------------------------------------------------------------
(***************************************************************************)
(* The delegate queue, which is serial: three moments at which it holds a  *)
(* lock.                                                                   *)
(***************************************************************************)

\* didCompleteWithError, with or without an error; a task that is not the one in
\* the table is ignored.
DidComplete(t, ok) ==
  /\ finishing = Nothing /\ t \in running
  /\ running' = running \ {t}
  /\ finishing' = IF tasks[UrlOf(t)] = t THEN [task |-> t, ok |-> ok, step |-> "found"]
                                         ELSE Nothing
  /\ UNCHANGED <<mainVars, cache, reading, tasks, callbacks, arrived, answers, late>>

RemoveTask ==
  /\ finishing.step = "found"
  /\ tasks' = [tasks EXCEPT ![UrlOf(finishing.task)] = 0]
  /\ finishing' = [finishing EXCEPT !.step = "removed"]
  /\ UNCHANGED <<mainVars, cache, reading, callbacks, running, arrived, answers, late>>

\* Slip: only the request that started the download is answered.
SlipTaskDoneForFirst ==
  /\ finishing.step = "removed"
  /\ arrived' = arrived \union {[id |-> finishing.task, ok |-> finishing.ok]}
  /\ finishing' = Nothing
  /\ UNCHANGED <<mainVars, cache, reading, tasks, callbacks, running, answers, late>>

\* onTaskDone: every callback the task has by now is sent to the main thread.
TaskDone ==
  /\ finishing.step = "removed"
  /\ arrived' = arrived \union
       {[id |-> id, ok |-> finishing.ok] : id \in callbacks[finishing.task]}
  /\ finishing' = Nothing
  /\ UNCHANGED <<mainVars, cache, reading, tasks, callbacks, running, answers, late>>

MainThread ==
  \/ RetrieveImage
  \/ AppendCallback
  \/ \E id \in Id : ReadFromDisk(id)
  \/ \E a \in arrived : Arrive(a)

DelegateQueue == RemoveTask \/ TaskDone

Network == \E t \in running, ok \in BOOLEAN : DidComplete(t, ok)

Next ==
  \/ LoadBars
  \/ \E c \in Cell, u \in Url : CellForRow(c, u)
  \/ \E c \in Cell : CellForRowWithoutUrl(c)
  \/ \E u \in Url : Evict(u)
  \/ MainThread
  \/ DelegateQueue
  \/ Network

Spec == Init /\ [][Next]_vars

\* Both threads go on, and URLSession ends every download, by its timeout at the
\* latest.  Taps, scrolling and memory warnings need not happen.
Fairness == WF_vars(MainThread) /\ WF_vars(DelegateQueue) /\ WF_vars(Network)

FairSpec == Spec /\ Fairness
-----------------------------------------------------------------------------
(***************************************************************************)
(* Properties                                                              *)
(***************************************************************************)

\* A view shows the image it was asked for last or none, whichever rows its cell
\* has had and in whatever order their images come.
ShowsItsRow ==
  \A v \in View : image[v] \notin {"blank", "black"} => image[v] = asked[v]

\* No completion runs twice, and no URL is downloaded twice at the same time.
SharedDownloads ==
  /\ \A id \in Id : answers[id] <= 1
  /\ \A s, t \in running : UrlOf(s) = UrlOf(t) => s = t

\* What becomes of a request: answered, or held by somebody who will answer it.
Held(id) ==
  \/ answers[id] > 0
  \/ id \in reading \/ joining.id = id
  \/ \E a \in arrived : a.id = id
  \/ \E t \in Id : id \in callbacks[t] /\ (t \in running \/ finishing.task = t)

\* The only way to lose a request is to append it to a task whose callbacks the
\* delegate queue has read already.
LostOnlyByLateJoin == \A id \in DOMAIN requests : Held(id) \/ id \in late

\* Every request is answered in the end, except one that came too late.
EveryImageArrives ==
  \A id \in Id : id \in DOMAIN requests ~> answers[id] > 0 \/ id \in late

\* What holds of the images at every moment: a view never shows the image of
\* another row; a request is answered at most once, shares its download, and is
\* lost in one way only.
ImageSafety ==
  /\ ImageTypeOK
  /\ ShowsItsRow /\ SharedDownloads /\ LostOnlyByLateJoin
=============================================================================
