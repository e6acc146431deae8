# Crawl, specified

Crawl is an iOS app for finding bars, bar crawls and deals: a map of the city
with a bottom sheet over it. This directory holds TLA+ models of the app's own
code (`src/Crawl/Crawl`) and of the parts of its vendored libraries that its
behaviour depends on (`src/Crawl/Pods`: the path of `getDocuments` through
Firestore, and of an image through Kingfisher), TLC configurations that check
them on small instances, and TLAPS proofs. `PROJECT.json` lists runs, properties, the source
lines each definition stands for, the hazards and the theorems.

To check a run: `tlc -config X.cfg <Module>.tla`, with the module and the file
that `PROJECT.json` names for it. To check the proofs: `tlapm M.tla` for each of
the eight modules whose name ends in `Proofs`.

## The system

Everything the app's own code does runs on the main thread: taps, gesture
recognizers, location updates, the completion blocks of animations and the
answers of Firestore and Kingfisher. A handler is therefore atomic, and an
action of the models is a whole handler. Notifications are posted and observed
synchronously, so a tap and what `HomeViewController` does about it are one
step. What is not atomic is spread over several handlers: a swap of sheets, a
query and its answer, the three moments at which a sheet reads the data, a drag.

Below the app there are more threads. Firestore does its work on one serial
worker queue; gRPC has a thread that drains its completion queue; answers go
back to the main queue. Kingfisher's main-thread code shares a table of
downloads with URLSession's delegate queue, under locks held for a moment at a
time.

| Part | State | Operations | Hard behaviour |
|---|---|---|---|
| Bottom sheets (`HomeViewController`, `StandardBottomSheetViewController`, `SmallBottomSheetViewController`) | the sheet held, child controllers and subviews, frames, `smallMode` | `changeBottomSheetView`, `openNewBottomSheet`, `dismissBottomSheet` and its completion, `viewDidAppear`, `panGesture` | a swap is split in two by the dismissal animation; swaps overlap; drags and callbacks of superseded sheets |
| Catalog (`BarRepository`, `CrawlRepository`, `DealRepository`, `Bars`, `Crawls`, `Deals`) | three dictionaries | `getAll*` and their callbacks, `get*`, three lookups by reference | answers in any order, errors, incomplete caches, dangling references, `try!` |
| Content of the sheets (`BarViewController`, `CrawlViewController`, `BarListViewController`, `CrawlListViewController`, `ListSelectionViewController`) | arrays copied at init or looked up in `viewDidLoad`; the row count of the table | row taps, list buttons, close | the same data read at three moments, with answers in between |
| Map (`HomeViewController`) | `followUser`, the location button, the camera, markers | `loadBars`, `barTapped`, `openListSelection`, `didUpdateLocations`, marker tap, `willMove`, location button | updates that compete with taps for the camera |
| Images (`loadBars`, `cellForRowAt`, `resizePinImage`; Kingfisher's `setImage`, `retrieveImage`, `ImageDownloader`, `SessionDelegate`) | the image of a marker or a reused cell, task identifiers, caches, the table of downloads and their callbacks | requests, memory, disk and download, completions, eviction | two threads on one table, late answers for a reused cell, arithmetic at the edges |
| Launch and location (`LaunchViewController`, `getUserLocation`) | `loggedIn`; the system's authorization and services | `viewDidLoad`, `viewDidAppear`, `requestWhenInUseAuthorization`, `startUpdatingLocation` | several runs; the user's switches change at any time |
| `getDocuments` (`Query`, `EventManager`, `QueryListener`, `AsyncEventListener`) | listeners per query, the last snapshot, the online state, muted listeners | call, event, removal, rejection, online state | events posted before the removal, rejections crossing it, calls sharing a view |
| Views (`SyncEngine`, `View`) | the documents, keys, limbo documents and references of each view | listen, remote event, rejection, limbo listen | limbo listens shared between views, losing the connection, refusals |
| Watch targets (`WatchChangeAggregator`, `RemoteStore`) | the state of each target, outstanding responses, resume tokens | every kind of watch response, unwatch and watch again | responses of an earlier listen, resets, filters, reconnection |
| Table of targets (`LocalStore`) | target data in memory and on disk, keys on disk | allocate, remote event, release, crash | tokens are written later than keys |
| Listen stream (`Stream`, `RemoteStore`, `OnlineStateTracker`, `ExponentialBackoff`) | stream state, token requests, three timers, failures | start, token, open, close, backoff, network and credential changes | late tokens and timers, states left by one timer and entered by another |
| gRPC stream (`GrpcStream`, `GrpcCompletion`, `BufferedWriter`) | operations given to gRPC, the buffer of writes, the worker that blocks | start, write, finish in five ways | finishing between a completion and its callback |
| Worker queue (`AsyncQueue`, `ExecutorLibdispatch`) | queue, schedule, time slots | enqueue, delay, cancel, run early, shut down | threads between the test and the enqueue, cancelled slots that still come |

How they interact: screens post `barTapped`, `crawlTapped`, `barListTapped`,
`crawlListTapped` and `closeSheet`; the dismissal's completion posts
`bottomSheetDismissed`; the repositories post `allBarsLoaded`, `allCrawlsLoaded`
and `allDealsLoaded`. `HomeViewController` observes all but the last two, which
nobody observes. A marker tap calls `HomeViewController` directly. A repository
calls `getDocuments`, which goes down to the worker queue, through the event
manager to the sync engine, which asks the local store for what is cached and
the remote store for a listen; watch responses come back up the stack, and the
snapshot goes to the main queue. Timers of the stream and of the tracker are
delayed operations of the same worker queue.

What makes each part correct: of the sheets, that the sheet asked for last is
put in front, once, and no older one comes back; of the catalog, that a lookup
gives what resolves and does not change its mind; of the contents, that a sheet
shows all or nothing; of the map, that the camera is where the sheet says, or
where the user has put it; of the images, that a view never shows another row's
image and no request is lost; of `getDocuments`, that a call is answered once,
and from the cache only when offline; of the layers below, that a view that
calls itself synced is what the backend says, whatever the connection does.

## The modules

### `SheetSlot`, `BottomSheets`, `BottomSheetsProofs`

`SheetSlot` is the promise: one slot, a wanted sheet, a sheet on top; a request
changes the first, a presentation brings the second up to it.

`BottomSheets` is the protocol that implements it.

| Model | Code |
|---|---|
| `currentBottomSheet` | the field of `HomeViewController` |
| `made` | the view controllers instantiated; each `open*VC` makes a fresh one |
| `children`, `front` | `addChild` and `addSubview`; the last view added or brought forward |
| `appeared` | UIKit has called `viewDidAppear`; it does so once, as no view is ever removed |
| `frame` | the side of the thresholds of `panGesture` that `minY` is on: `below` (y = H), the rests `small` and `big`, within 20 points of a rest, or between |
| `pending` | dismissal animations whose completion block has not run |
| `panning`, `smallMode` | the recognizer's drag, the flag |
| `overlapped` | history: a swap began while a dismissal was in flight |
| `ChangeBottomSheetView` | `changeBottomSheetView` with the `open*VC` function that calls it |
| `DismissalCompleted` | the completion block, the notification and `openNewBottomSheet` |
| `ViewDidAppear` | the callback and `animateOpen` |
| `PanBegan`, `PanChanged`, `PanEnded`, `PanCancelled` | the recognizer; `PanCancelled` does nothing, like the code |

Assumed of UIKit: a completion block runs after the call that started the
animation has returned, and completions run in any order; a view that an
animation without `.allowUserInteraction` is moving, and one off the screen,
gets no new touch, but a drag that has begun keeps its touches; re-adding a
subview brings it to the front and gives no second `viewDidAppear`.

What the checks show: the current sheet is never left without a completion
that will add it (`PresentationPending`), is in front once added
(`FrontIsCurrent`), its dismissal is single (`DismissedOnce`), a superseded
sheet that is off the screen, not held and owed no `viewDidAppear` stays gone
(`GoneStaysGone`; a drag in progress or an appearance still owed does bring one
back, behind the current sheet). Two swaps that overlap do have a bad
outcome: the second completion moves the sheet the first one has opened back
below the screen, for good. `SerialSwapShowsCurrent` says that overlap is the
only way to get there, and `LostUntilNextSwap` that only another sheet gets the
user out. `ImplementsSlot` is the refinement, with its liveness.

### `Catalog`

`allBars`, `allCrawls` and `allDeals` are the sets of ids in the dictionaries,
`awaited` the collections not answered yet, `running` false after a `try!` has
failed. A snapshot is any subset of the collection, because an offline device
answers from a cache that may hold any part of it. The references between
documents are constants. `LookupsResolve` compares the three lookups with a
definition by positions. The loop of a lookup is `Found`, a recursive function on
the rounds, as the loop is; `LookupsSettle` says that a lookup that has found
something never gives another answer. It holds because each query is answered
once, which `GetDocuments` shows: with a listener that goes on answering it
would not.

### `MapView`

The camera is what it was sent to last: the city, the user, a bar, or elsewhere
by hand. For a marker tap and for the location button the handlers return
`false`, and the model includes what the map then does by itself. `MapView` has
handlers, not a specification: two of them also swap the sheet, and `CrawlApp`
completes them.

### `CrawlApp`

Extends `Catalog`, instantiates `BottomSheets` and `MapView` over common variables
and adds `content`, what each view controller holds. `AllBarsLoaded` is the answer
of the bars with the notification's observer. The state begins when `HomeViewController` has
appeared. A list copies the dictionary when it is made (`BarLists`,
`CrawlLists`), a bar or a crawl looks its references up when its view is loaded
(`Loaded`, on presentation or, for a sheet superseded before it was presented,
on dismissal), and the number of rows is read when the table is laid out
(`ViewDidAppear`). Drags are left out of the composition: they change only
frames, flags and `panning`, and a tap is admitted from every sheet that has
appeared and is not being dismissed, which is more than can be touched.

`AllOrNothing` says that no sheet shows a part of what there is. `CameraOnBar`
and `UserInReach` relate sheet, camera, button and location; `MarkerPerBar`
relates the map to the data.

### `SheetDrag`

One standard sheet's drag in points: `PanChanged` moves the edge by any
translation and clamps it, `PanEnded` compares it with the thresholds, and
`PanCancelled` does what the code does, nothing. The drag may go on while the
sheet is dismissed. `DragFollowsPlaces` shows that every step in points is a
step of `BottomSheets` under the mapping `Place`, so the five places of that
module are all `panGesture` tells apart; and that a sheet nobody holds is at the
rest of its mode unless its last drag was cancelled.

### `PinImage`, `Session`

`PinImage` is the arithmetic of `resizePinImage` with exact fractions.
`PinSafety`: for sides of at least one pixel, proportions are kept, and the
result is within 100 by 80 except for
an image that is wider than high by less than 100 to 80.

`Session` is a number of runs of the app: the launch screen, the home screen it
always presents, and `getUserLocation` with the system's authorization, the
switch for the device and the one for the app, which may change at any time.
`SessionSafety`: with Location Services on whenever the app starts, nobody is
ever asked, so a run has a location only if an earlier one found the services
off or the user went to Settings; and the run that asks never starts the updates.

### `ImageLoading`

The requests of `loadBars` and `cellForRowAt` on their way through Kingfisher.
A request is numbered; `taskIdentifier` is what a cell waits for. A request is
answered from memory before `setImage` returns, from disk by a later task of the
main queue, or by a download. `downloadImage` is two steps: `RetrieveImage`
looks for the URL's task under the lock of the table, `AppendCallback` adds the
callback under the lock of the task. The delegate queue's completion is three:
`DidComplete` finds the task, `RemoveTask` takes it out of the table, `TaskDone`
reads its callbacks. `Evict` is a memory warning or an expired file. Nothing
cancels a request in this app, and processors and retries are not used.

`ImageSafety` says that a view shows the image it was asked for last or none,
that no completion runs twice, that no URL is downloaded twice at a time, and
that every request is answered or held by somebody who will. The last has one
exception, which the code has: a request that found the task before it was
completed and appended its callback after the callbacks were read (`late`).
`EveryImageArrives` is the same as a liveness property.

### `OneAnswer`, `GetDocuments`

`OneAnswer` is the promise: a call is answered once, and not left waiting.
`GetDocuments` is how the code keeps it. `worker` and `main` are the two queues;
a call is a task that adds a listener, an event is posted to the main queue, the
completion mutes the listener at once and takes it off the worker's books with
another task. `listeners`, `stored`, `raised`, `seen` are the fields of the event
manager and its listeners, `view` the sync state of the query's view. Calls for
one query share the view. `HandleRejectedListen` takes listeners off without
telling the sync engine to stop; `HandleOnlineStateChange` raises cached
snapshots. `CallSafety` is what the assertions "We already listen to query" and
"Trying to stop listening to a query not found" rest on, and that nothing raised
is lost; `CacheOnlyOffline` that a cached answer is given only to a call that was
open while the client was offline; `ImplementsOneAnswer` is the refinement, with
its liveness. `Catalog` uses the promise: an answer comes once, which is why
`LookupsSettle` holds.

### `LimboDocuments`

A document in the cache of a query that the backend does not list for it is in
limbo; it is asked for by a listen of its own, and until then the view is not
synced, and `getDocuments` waits. A document is the set of targets it matches.
`owed` is what the backend has still to tell a target. `EmitNewSnapshots` updates
every view, its limbo documents, the references and the listens, as
`EmitNewSnapshotsAndNotifyLocalStore` does; a remote event, an existence filter
mismatch (of a target with keys or without), an answered or refused limbo listen
end in it. The cache of an earlier
run is any cache with any keys. `LimboSafety`: references are exactly the limbo
documents, listens are shared and outlive no reference, none is missing unless
refused. `SyncedIsTrue`: a synced view shows what the backend lists, but for
what is owed or refused. `EveryViewSyncs`: a view that is kept gets synced.

### `WatchTargets`

`RemoteStore`'s listens and the `WatchChangeAggregator`, message by message, over
connections that are lost with everything under way. `requests` and `inbox` are
the two directions; `states` are the `TargetState`s with their outstanding
responses; `token` is what `LocalStore` would resume with, `resume` what
`RemoteStore` would. The backend is external: it answers in order, sends the
difference since a token, tells of documents that left explicitly or by an
existence filter, resets and rejects. `AggregatorSafety`: the outstanding
responses are those on their way, and what is raised fits the view.
`CurrentIsBackendState`: a current view is the backend's state at its token.
The test of `remote_store.cc:261-262`, that a snapshot is no older than the last
one stored, is no guard of the model: the backend's moments only go forward,
over connections too, so it would always hold.
`Relisten` are the two requests a snapshot sends for every mismatched target, in
any order of the targets. The history `trust` of a target is `sound`, `mending`
after a mismatch, and `misled` when the mismatch was not mended.
`EveryTargetSettles`: a target listened to for good is brought up to date or
rejected. Two exceptions, both of the code: `overtaken` (a rejection that crosses
an unwatch or a watch) and `trust` (a mismatch, until the listen that mends it).
Proving the module brought up two ways to be misled that the first form of these
exceptions left out, because they need more documents or more messages than the
run then had; `Trusted` names both:

- A document enters a target between the message of a mismatched filter and the
  snapshot that raises it. The reset keeps no record of it, since its change comes
  after the reset; the snapshot raises it together with the second listen's
  requests. If it leaves again before the backend answers that listen, the answer,
  which starts from nothing, does not mention it, and it stays shown (`shown` in
  `Trusted`).
- A target is rejected while requests sent after that listen are under way. Its
  outstanding count is lost with its state, so that the next listen counts answers
  that are not its own, and what it raises can be from the middle of another
  listen's answers (`overtaken` in `Trusted`).

### `TargetStore`

What of a target survives a crash. Keys are written with every remote event; the
resume token is written when keys or documents have changed, when there was
none, or when the last one in memory is older than `MaxAge`, and on release.
Moments are numbers, and a token is the moment it was given. A crash leaves an
older token next to newer keys. `StoreSafety`: whatever run comes next resumes
from the disk and ends with the backend's documents, unless a mismatch had
emptied the keys and was not mended before the release or crash.

### `ListenStream`

The state machine of `Stream` with its token requests (`tokens`: the close
counts they captured), idle timer and backoff; `RemoteStore`'s starting and
stopping of it; `OnlineStateTracker`. Stream and tracker are records, and a
function of the code is an operator on them, so that a handler that closes and
starts again is one operator applied to the other. `ListenSafety`: an old token
resumes no stream, the assertions of `stream.cc` and `online_state_tracker.cc`
hold, the stream is started exactly while it is needed, and an Unknown state is
timed, with one exception of the code (`lapsed`). `EnableNetwork` may be called of
a network that is enabled, which the app never does: the state is then `Unknown`
without a timer, also next to a stream that is open. `RetriesSlowDown` is about the
base delays; the jitter added to them is left out, and may make one wait shorter
than the last. `ListenProgress`: the state resolves and the stream opens.

### `GrpcStream`

One call: operations in gRPC's `queue`, completed by its thread into `tasks` of
the worker, whose callbacks the worker runs unless emptied (`cancelled`).
Finishing (by the owner, with a last write, by a change of connectivity, by a
failure, by the status) empties the callbacks and blocks the worker (`blocked`)
until gRPC has given every operation back. `StreamSafety`: never two reads or
two writes at gRPC, writes in order, and a finished stream is touched by nobody.
`FinishGivenAlone` is gRPC's rule for the finish. `StreamEnds`: the worker comes
back from every wait, and a broken call ends.

### `AsyncQueue`

The worker queue on libdispatch. An enqueue is two steps under the mutex, with
other threads around it; a delayed operation is a time slot that libdispatch
owns, so one that is cancelled still comes and must do nothing; the schedule is
a map of ids that never come again. The tests' `RunScheduledOperationsUntil` is a
number of rounds of its loop (`ExecuteForced`), each of which takes an operation
off the schedule, the last of which may find none. `QueueSafety` and
`EveryOperationRuns` are
what the other Firestore modules take for granted.

### How the layers rest on each other

The modules of Firestore are checked one by one, each with the layer below as
an assumption that the module below has as a property:

| Taken for granted in | What | Shown by |
|---|---|---|
| all Firestore modules | an operation of the queue is one step; a cancelled timer does not fire; an accepted operation runs | `AsyncQueue`: `QueueSafety`, `EveryOperationRuns` |
| `ListenStream` | a stream that is stopped calls nobody back; a call that breaks is reported | `GrpcStream`: `StreamSafety`, `StreamEnds` |
| `WatchTargets` | a lost connection is opened again | `ListenStream`: `ListenProgress` |
| `LimboDocuments` | the backend's news reach a target, which becomes current when nothing is owed | `WatchTargets`: `CurrentIsBackendState`, `EveryTargetSettles` |
| `LimboDocuments` | an earlier run leaves keys the backend can go on from | `TargetStore`: `StoreSafety` |
| `GetDocuments` | a view that is asked for gets synced; Unknown does not last | `LimboDocuments`: `EveryViewSyncs`; `ListenStream`: `ListenProgress` |
| `Catalog` | a call is answered once, with documents, some cached documents or an error | `GetDocuments`: `ImplementsOneAnswer` |

The exceptions add up along the table: where a view is left unsynced (a refused
limbo document, a target misled by a mismatch), `getDocuments` waits until the
view is listened to anew or the client is offline.

MC modules: `MCAppParts` puts `ImageLoading`, `SheetDrag`, `PinImage` and
`Session` side by side, and `MCClientParts` does it with `GrpcStream`,
`AsyncQueue` and `TargetStore`. These share no state, so a behaviour is one of a
single part (`part` never changes), and one run of TLC checks them all.

## The runs

| Run | Bounds | Shows |
|---|---|---|
| `sheets_safety` | 2 small and 3 standard sheets, so four swaps and up to four dismissals in flight; symmetric in each class; 307 262 states | the invariants and action properties of the swap |
| `sheets_live` | 2 and 2 sheets, no symmetry | the refinement of `SheetSlot`, fair |
| `catalog` | 3 bars, 2 crawls, 2 deals, one document undecodable; references that repeat, and cycles between bars and crawls | the lookups |
| `app` | 2 small and 2 standard sheets (three openings, a close among them), 2 bars, 1 crawl, 2 deals of which one crashes the app | the composition |
| `app_chain` | 1 small and 3 standard sheets: list, crawl, bar | lookups from stale sheets |
| `list_rows` | one list | the violation below |
| `app_parts` | 2 URLs, 2 markers with one pin, 1 reused cell, 3 requests; a screen of 568 points, every translation; pins up to 100 by 100; 3 runs of the app; 83 656 states | images, drag, pins, location |
| `client_parts` | 2 reads and 3 writes; 2 threads, 4 operations, 1 call that runs delayed ones early; 2 documents, 4 moments, tokens old after 2; 146 586 states | the call to the backend, the worker queue, the table of targets |
| `listen` | 2 targets, 6 closes, delays 1000 to 3000, 1 failure to Offline (as in the code) | the watch stream and the online state |
| `watch` | 1 target of 2 documents, 2 listens, 2 changes or resets, 1 lost connection; 1 174 453 states | the aggregator and its targets |
| `limbo` | 2 views that share a document, 4 changes or refusals, the connection going for ever | limbo documents and synced views |
| `get_documents` | 3 calls, two for one query, one from the server only; 2 events pending; 487 478 states | the single answer |

The bounds: a swap that goes wrong needs a sheet, its successor and the
successor's successor; the fourth and fifth let a third dismissal join, and the
proofs have no bound. Partial data needs two documents in a collection, and
order and multiplicity a reference list of three with a repetition.

Of the images, a lost request needs one that starts the download and one that
joins it, and a late answer for a reused cell a second row; the third request
lets a marker and a cell compete. 568 points is the shortest screen the app runs
on, and the thresholds depend on nothing else. The pins' exception begins at 2
by 1 and 6 by 5, well below 100. Of the call to the backend, three writes fill
the buffer behind an active one; four operations are a shutdown, an operation on
either side of it and a delayed one whose slot is cancelled; six closes are two
starts with the tokens of an earlier one under way, failures up to the longest
delay and a close on purpose. Of a target, the second listen can meet the answers
of the first after an unwatch, and a mismatch adds a listen of its own; the second
change lets a document enter and leave again while that is under way. Targets
share nothing but the moment of a snapshot, so one is enough to explore every
order; `CurrentShowsBackend` and `AggregatorIsSafe` are proved for any number of
targets, documents, listens, changes and losses. Four moments are two events with a gap of `MaxAge` and one
without. Of the limbo documents, sharing needs two views of one document.

The runs of the app, `watch`, `get_documents` and the two of parts have
`CHECK_DEADLOCK FALSE`: the app may be left alone, calls are all answered, or a
bound is used up. `listen` and `limbo` never stop and are checked for deadlock.

Fairness: UIKit runs every animation's completion and every appearance
callback, hence weak fairness of `DismissalCompleted` and `ViewDidAppear`. Taps
and drags have none. The main thread and the delegate queue run what they have,
and URLSession ends every download, by its timeout at the latest
(`ImageLoading`). The worker queue runs its operations and its delays pass
(`AsyncQueue`); gRPC gives back the operations of a call that is broken, but a
read of one that is not may wait for ever (`GrpcStream`). Of the watch stream,
its timers elapse and a token is answered; nothing is assumed of the backend
(`ListenStream`). `WatchTargets` assumes that the backend answers and a lost
connection is made again. `LimboDocuments` and `GetDocuments` have strong
fairness for what the backend brings, because a connection that comes and goes
enables it again and again: at some point it is up for long enough, which the
modules below show under their own fairness. Nobody has to call, listen, cancel,
reject or change anything.

The violation: `list_rows` checks that a table is not laid out with more rows
than its sheet has in its array, which the subscript in
`BarListViewController.swift:54` requires. The sheet copies the bars when it is
made, but `numberOfRowsInSection` counts the dictionary. If the bars arrive
during the dismissal animation between, the table asks for a row the array does
not have, and the app stops. `CrawlListViewController` has the same fault.
`ViewDidAppear` of `CrawlApp` has that crash, so the other properties are checked
with it: by `AllOrNothing` an array that is too short is empty, and the first row
is always on the screen.

### Where code and words differ

Writing the models brought up places where the code does not do what its names
and comments say. Each is in a model as the code has it, and where a property
meets it the property names it as its exception.

| Where | What |
|---|---|
| `SessionDelegate.swift:81-88`, `90-97`, `244-250` | a request looks for the task of its URL and adds its callback under two locks, one after the other (`ImageDownloader.swift:255-256`); when the download is taken out of the table and its callbacks are read in between, the request is never answered (`late` in `ImageLoading`) |
| `HomeViewController.swift:73-77` | scaling by the larger side leaves an image that is slightly wider than high higher than `maxHeight` (`PinSafety`) |
| `remote_store.cc:162-166`, `89-90` | the state is set to `Unknown` directly (by the last unlisten, or by enabling a network that is enabled), without the timer that `online_state_tracker.cc:44-46` starts with it; reads then wait longer than the ten seconds (`lapsed` in `ListenStream`) |
| `remote_store.cc:333-345` | a rejected target is forgotten with its outstanding responses, so that a listen on the same target can meet the acknowledgement of an earlier one, which `remote_event.h:205-206` excludes, and what it raises can then be wrong for good (`overtaken` in `WatchTargets`) |
| `local_store.cc:272-286`, `remote_store.cc:310-326` | after a mismatch only the remote store drops its token; the local store keeps the old one until the new listen brings another, so a listen that ends before that is resumed from the bad token (`remote_event.h:269-270`; `trust` in `WatchTargets` and `TargetStore`); a document that enters between the mismatch and its snapshot and leaves before the new listen is answered stays shown |
| `sync_engine.cc:298-303`, `view.cc:376-378` | a refused limbo listen leaves the books before the event that takes its document out of limbo, and a view that is not current then keeps a limbo document nobody asks for (`sync_engine.h:288-290`; `refused` in `LimboDocuments`) |
| `grpc_stream.cc:138-160` | a write between a failed operation and the callback of the finish is still given to the call, which the comment at `235-236` takes for impossible |
| `async_queue.h:134-136` | promises an assertion that no two delayed operations have one tag; `async_queue.cc:104-127` has none |
| `local_store.cc:366-375` | the age of a token is taken from the one in memory, so that regular events can put off writing for ever, as the comment at `55-60` admits |

## The proofs

Every invariant of a passing run, every action property, and the safety half of
both refinements is a theorem, for every value of the constants that meets the
assumptions below. No theorem takes a hypothesis besides the specification. The
pattern is the same throughout: the run's invariant is seldom inductive, so each
module defines one that is, as a conjunction of named parts; there is a lemma for
each action or group of actions that touches the same parts, and the run's
properties follow.

| Module | Proves | Assuming |
|---|---|---|
| `BottomSheetsProofs` | everything of `sheets_safety`, the safety half of `ImplementsSlot` (`SlotRefinement`) | the two classes of sheets are disjoint |
| `CrawlAppProofs` | everything of `catalog`, `app` and `app_chain`; the sheets of the app are those of `BottomSheets` (`SheetsRefinement`) | references are arrays of ids; finitely many bars and crawls; a bar's place is not the city's, the user's or elsewhere |
| `AppPartsProofs` | `ImageSafety`, `PinSafety`, `SessionSafety`, `DragFollowsPlaces` | a height the thresholds make sense for (`HeightAssumption`); every marker has a pin, cells are not markers, finitely many markers |
| `GetDocumentsProofs` | `CallSafety`, `CacheOnlyOffline`, the safety half of `ImplementsOneAnswer` (`AnsweredOnce`) | every call has a query |
| `LimboDocumentsProofs` | `LimboSafety`, `SyncedIsTrue` | only the bound on events |
| `WatchTargetsProofs` | `AggregatorSafety`, `CurrentIsBackendState` | finitely many targets and documents |
| `ListenStreamProofs` | `ListenSafety`, `RetriesSlowDown` | delays are positive and ordered, at least one failure to Offline |
| `ClientPartsProofs` | `StreamSafety`, `FinishGivenAlone`, `QueueSafety`, `StoreSafety` | only the bounds |

Bounds are constants of which the assumptions say only that they are numbers, so
the theorems hold for behaviours of any length. What is finite in the code (sets
of documents, markers) is assumed finite where something is counted.

### The arguments

**Sheets.** `Bookkeeping` (what is current, added or being dismissed has been
made) is what makes a fresh sheet fresh: not pending, not a child, not the old
one. `OneSwapAtATime` (without overlap at most one dismissal is in flight, and the
current sheet waits for it) is what keeps a completion from hitting a sheet that
has appeared. A swap, a completion and an appearance each have a lemma; the four
phases of a drag share one, since they leave the swap alone.

**Lookups.** What the loop returns for every array is an induction over its
rounds, with the least round that fails as the counterexample to refute
(`Induction`): after `n` rounds the array has as many entries as rounds that found
something (`Hits`), and the k-th of them is the k-th entry (`FoundSoFar`).
`DataInv` says that a dictionary is empty until its collection is answered, so an
answer either leaves it or fills it for the first time (`FilledOnce`). Hence
`LookupsSettle`.

**What the sheets show.** `AppInv` joins the data, the sheets, the map and what
each sheet holds (`Shows`: its class's form, and all or nothing of the
dictionaries as they are now). An answer keeps `Whole` because the dictionary was
empty before, so what a sheet has of it is empty too. `UserInReach` needs the
button shown whenever the map does not follow, also before the first location;
`MarkerPerBar` needs that the bars are answered once. `SheetsRefinement` carries
what is proved of the swap over to the app.

**Drag, pins, runs.** `DragInv`: a sheet is below the screen only once dismissed.
`PinInv` compares the two ways to scale with products of naturals.
`SessionInv`: only a request made while services were off, or the user in
Settings, decides the authorization.

**Images.** `OnePlace` (a request is read from disk, joining, with one live task
or arriving, never two of these, and answered at most once) and `TableFits` (a
running task is the table's entry for its URL, and an entry is running or the one
the delegate queue has found) are what `ImageSafety` leaves implicit. A marker
asks for one URL only (`RowsAndPins`), which is why its late answers do no harm.

**getDocuments.** `CallFits` follows a call: waiting for its listener, listening,
answered, muted unless the answer was an error. `ErrorIsLast` and `CacheIsOwed`
are about the order of the main queue, which decides which of several events a
call takes. `AddedOnce`: the worker has one task at most that adds a call's
listener, so once it has run the call listens and is not waiting for it too.

**Limbo documents.** `CurrentKnowsLimbo` and `KeysAreListed`: the keys of every
target, listened to or not, are what the backend lists but for what is owed, and
the shared cache has their documents unless refused. The run's `SyncedIsTrue` is
about synced views only, and says too little of a view on its way there.

**Watch targets.** The argument follows what is under way. Reading messages takes
a view from one set of documents to the next; an inbox is `Right` for a target if
that ends with what the backend has now, with every snapshot's token that of the
documents reached (`Run`), or if a filter on the way stops it (`Breaks`). A target
listened to either has requests or answers under way, the last of which makes the
rest right (`Waits`), or reads an inbox that is right for its view (`Flowing`).
With `OutstandingIsOwed` the client knows which of the two it is. `TokensFit` then
gives `CurrentIsBackendState` at every snapshot. The two scenarios described with
the module are where an attempt at this proof failed.

**Listen stream.** The code's functions are operators on two records, and so are
the lemmas: what starting, stopping, closing and failing do to a stream that is
`InOrder` and a tracker that is `Sound`. Two facts had to be added:
with the network off there is no stream and the state is Offline, also while
nothing is listened to (`DisabledIsStopped`); and tracker and stream fit at all
times (`TrackerFits`).

**Call, worker queue, table of targets.** `CallInv`: every completion is with gRPC
or waits as one task, there is one of a kind, and a wait for gRPC empties all of
them first (`OpsFit`, `OneEach`, `StageFits`). `WorkerInv`: the mutex protects what
it should, slots and schedule agree (`SlotsFit`, `HandlesFit`), and the queue is in
the order of the enqueues, so what has run is too (`QueueFits`, `RanFits`).
`StoreInv`: whichever of the three tokens (on disk, in memory, in the listen) the
target goes on from, its keys are right about every document the backend does not
name to a target that resumes there (`RightSince`, `StoreSound`).

### Only model-checked

Liveness: `EveryViewSyncs`, `ListenProgress`, `EveryImageArrives`,
`EveryOperationRuns`, `StreamEnds`, `EveryTargetSettles`, and with their fairness
`ImplementsSlot` and `ImplementsOneAnswer`. The prover has no rules for fairness.
`RowsWithinList` is violated.

## Plan

1. Done: the sheets, the catalog, the map, their composition; proofs of the
   sheets.
2. Done: the drag in points (`SheetDrag`), pins, images, launch and location;
   the path of `getDocuments` through Firestore, from the single answer down to
   the call and the worker queue, with the table of targets beside it.
3. Done: proofs of every safety property of the runs.
4. Left: theorems that lean on these and that no run states, such as the swap's
   properties for the app itself, through `SheetsRefinement`; where `CrawlApp`
   rests on `OneAnswer`, the step that joins them.

## Not modelled

Of the app: the application delegate, cells, headers, layout, colours and
wording (no state); `LocationHelper.swift` (unfinished, not in the target); the
tests (empty templates). Sheets are never removed from the view hierarchy:
`children` only grows in the model as well, and no property speaks of memory.

Of Firestore, what an app that reads whole collections never reaches: documents
by reference, filters and orders, writes and the mutation queue, transactions,
garbage collection, the index-free engine. The worker queue's `EnqueueBlocking`
and the end of its executor, and gRPC calls other than the stream, are left out
too: the calls in the way of a listen use neither. Of Kingfisher: processors,
retries, cancellation of a download and the prefetcher, which the app does not
ask for.

The other vendored libraries (BoringSSL, gRPC's core, abseil, nanopb, LevelDB,
Google's utilities, Firebase's core, the Maps binaries) are more than four fifths of the
lines of `src/` and are seen only as what they answer. The models are of the app
and of what its own behaviour rests on, a few thousand lines; a network stack or
a cryptographic library is another project, and would say nothing about this one.
