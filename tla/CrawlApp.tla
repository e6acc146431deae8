------------------------------- MODULE CrawlApp -------------------------------
(***************************************************************************)
(* The app once HomeViewController has appeared: the bottom sheets, the    *)
(* data and the map together, and what each sheet shows.  Screens tell     *)
(* HomeViewController of taps through NotificationCenter, which calls the  *)
(* observer before post returns: a tap and its handler are one step.       *)
(*                                                                         *)
(* A screen reads the dictionaries at up to three moments, with other      *)
(* events in between: when it is made (the two lists), when its view is    *)
(* loaded (a bar, a crawl), and when its table is laid out (the number of  *)
(* rows of the two lists).                                                 *)
(*                                                                         *)
(* Drags are left to BottomSheets.  A tap can come from any sheet that has *)
(* appeared and is not being dismissed, also from one a drag has pulled    *)
(* back to the screen.                                                     *)
(***************************************************************************)
EXTENDS Catalog, SequencesExt

CONSTANTS
  Small, Standard      \* the view controllers of the two classes of sheets

\* The collections are finite, and a bar's place is none of the other places the
\* camera is sent to.
ASSUME AppAssumption ==
  /\ IsFiniteSet(BarId) /\ IsFiniteSet(CrawlId)
  /\ BarId \intersect {"city", "user", "elsewhere"} = {}

VARIABLES
  currentBottomSheet, made, children, front, appeared, frame, smallMode,
  pending, panning, overlapped,
  followUser, myLocationButton, camera, location, markers,
  content              \* what each sheet shows

Sheets == INSTANCE BottomSheets
Map == INSTANCE MapView

sheetVars == <<currentBottomSheet, made, children, front, appeared, frame,
               smallMode, pending, panning, overlapped>>
mapVars == <<followUser, myLocationButton, camera, location, markers>>
vars == <<sheetVars, catalogVars, mapVars, content>>

Sheet == Small \union Standard

(***************************************************************************)
(* What a view controller holds: its class, the bar or crawl it was given  *)
(* if any, the ids of the rows of its table (of the crawl section, for a   *)
(* bar), the deals, whether viewDidLoad has run, and the number of rows    *)
(* the table was laid out with.                                            *)
(***************************************************************************)
Screen(class, subject, listed) ==
  [class |-> class, subject |-> subject, listed |-> listed, deals |-> <<>>,
   loaded |-> FALSE, rows |-> 0]

NoSubject == "none"
Unmade == Screen("none", NoSubject, <<>>)
ListSelection == Screen("ListSelection", NoSubject, <<>>)
BarScreen(b) == Screen("Bar", b, <<>>)

\* Slip: openCrawlVC makes the view controller of a bar.
SlipCrawlScreen(c) == Screen("Bar", c, <<>>)
CrawlScreen(c) == Screen("Crawl", c, <<>>)

\* Array(Bars.allBars.values), in whatever order the dictionary has.
BarLists == {Screen("BarList", NoSubject, q) : q \in SetToSeqs(allBars)}
CrawlLists == {Screen("CrawlList", NoSubject, q) : q \in SetToSeqs(allCrawls)}

\* loadBar and loadCrawl resolve the references, once and for all.
LoadBar(v) == [v EXCEPT !.listed = getAllCrawlsForBarId(v.subject),
                        !.deals = getAllDealsForBarId(v.subject)]
LoadCrawl(v) == [v EXCEPT !.listed = getAllBarsForCrawlId(v.subject)]

\* viewDidLoad, the first time the view is asked for.
Loaded(v) ==
  IF v.loaded THEN v
  ELSE [(CASE v.class = "Bar" -> LoadBar(v)
           [] v.class = "Crawl" -> LoadCrawl(v)
           [] OTHER -> v) EXCEPT !.loaded = TRUE]

\* numberOfRowsInSection: the two lists count the dictionary, not the array.
NumberOfRows(v) ==
  CASE v.class = "BarList" -> Cardinality(allBars)
    [] v.class = "CrawlList" -> Cardinality(allCrawls)
    [] OTHER -> Len(v.listed)

AppTypeOK ==
  /\ Sheets!TypeOK /\ CatalogTypeOK /\ Map!MapTypeOK
  /\ DOMAIN content = Sheet
  /\ \A s \in Sheet :
       LET v == content[s]
       IN  CASE v.class = "none" -> s \notin made
             [] v.class = "ListSelection" -> s \in Small
             [] v.class = "Bar" -> /\ s \in Standard /\ v.subject \in BarId
                                   /\ v.listed \in Seq(CrawlId)
                                   /\ v.deals \in Seq(DealId)
             [] v.class = "Crawl" -> /\ s \in Standard /\ v.subject \in CrawlId
                                     /\ v.listed \in Seq(BarId)
             [] v.class = "BarList" -> s \in Standard /\ v.listed \in Seq(BarId)
             [] v.class = "CrawlList" -> s \in Standard /\ v.listed \in Seq(CrawlId)
-----------------------------------------------------------------------------
Init ==
  /\ Sheets!Init /\ CatalogInit /\ Map!Init
  /\ content = [s \in Sheet |-> IF s = currentBottomSheet THEN Loaded(ListSelection)
                                                          ELSE Unmade]

SheetsIdle == UNCHANGED <<sheetVars, content>>

\* One of the open*VC functions: the fresh sheet s, made as v, replaces the
\* current one, whose view is loaded by its dismissal if it was not before.
Open(s, v) ==
  /\ running
  /\ Sheets!ChangeBottomSheetView(s)
  /\ content' = [content EXCEPT ![s] = v,
                                ![currentBottomSheet] = Loaded(@)]
  /\ UNCHANGED catalogVars

\* getBar finds nothing for an id that is not loaded, and nothing happens.
BarTapped(b, s) ==
  /\ b \in allBars
  /\ Map!BarTapped(b)
  /\ s \in Standard
  /\ Open(s, BarScreen(b))

CrawlTapped(c, s) ==
  /\ c \in allCrawls
  /\ UNCHANGED mapVars
  /\ s \in Standard
  /\ Open(s, CrawlScreen(c))

\* The sheets that can be touched.
Tappable(t) == t \in appeared /\ pending[t] = 0

\* didSelectRowAt: the id in the row goes out with the notification.
RowTapped(t, i, s) ==
  /\ Tappable(t)
  /\ i \in 1..content[t].rows
  /\ i \in DOMAIN content[t].listed
  /\ IF content[t].class \in {"Bar", "CrawlList"}
       THEN CrawlTapped(content[t].listed[i], s)
       ELSE BarTapped(content[t].listed[i], s)

ShowBarList(t, s) ==
  /\ Tappable(t) /\ content[t].class = "ListSelection"
  /\ s \in Standard
  /\ \E v \in BarLists : Open(s, v)
  /\ UNCHANGED mapVars

ShowCrawlList(t, s) ==
  /\ Tappable(t) /\ content[t].class = "ListSelection"
  /\ s \in Standard
  /\ \E v \in CrawlLists : Open(s, v)
  /\ UNCHANGED mapVars

\* The close button of every other screen.
CloseSheet(t, s) ==
  /\ Tappable(t) /\ content[t].class # "ListSelection"
  /\ Map!OpenListSelection
  /\ s \in Small
  /\ Open(s, ListSelection)

\* A marker's bar is always found, as the markers were made from allBars.
DidTapMarker(b, s) ==
  /\ Map!DidTapMarker(b)
  /\ b \in allBars
  /\ s \in Standard
  /\ Open(s, BarScreen(b))

\* openNewBottomSheet asks for the view of the current sheet.
DismissalCompleted(s) ==
  /\ running
  /\ Sheets!DismissalCompleted(s)
  /\ content' = [content EXCEPT ![currentBottomSheet] = Loaded(@)]
  /\ UNCHANGED <<catalogVars, mapVars>>

\* The table is laid out before viewDidAppear.  The cell of its first row is
\* always asked for, and traps if the array is empty; an array that is not empty
\* has every row.
ViewDidAppear(s) ==
  LET v == content[s]
  IN  /\ running
      /\ Sheets!ViewDidAppear(s)
      /\ content' = [content EXCEPT ![s].rows = NumberOfRows(v)]
      /\ running' = (v.listed = <<>> => NumberOfRows(v) = 0)
      /\ UNCHANGED <<allBars, allCrawls, allDeals, awaited, mapVars>>

\* Slip: "allBarsLoaded" is posted before the dictionary is filled.
SlipPostFirst(docs) ==
  /\ BarsArrived(docs)
  /\ Map!LoadBars(allBars)
  /\ SheetsIdle

\* "allBarsLoaded" has loadBars as its observer, unless the app has crashed.
AllBarsLoaded(docs) ==
  /\ BarsArrived(docs)
  /\ IF running' THEN Map!LoadBars(allBars') ELSE UNCHANGED mapVars
  /\ SheetsIdle

\* Nobody observes "allCrawlsLoaded" and "allDealsLoaded".
OtherAnswer ==
  /\ \/ \E docs \in SUBSET CrawlId : CrawlsArrived(docs)
     \/ \E docs \in SUBSET DealId : DealsArrived(docs)
     \/ \E collection \in Collections : QueryFailed(collection)
  /\ SheetsIdle /\ UNCHANGED mapVars

MapMoved ==
  /\ running
  /\ Map!DidUpdateLocations \/ Map!WillMove \/ Map!DidTapMyLocationButton
  /\ SheetsIdle /\ UNCHANGED catalogVars

\* A tap, with the sheet it makes.
Tap(s) ==
  \/ \E t \in Sheet :
       \/ \E i \in 1..content[t].rows : RowTapped(t, i, s)
       \/ ShowBarList(t, s)
       \/ ShowCrawlList(t, s)
       \/ CloseSheet(t, s)
  \/ \E b \in BarId : DidTapMarker(b, s)

Next ==
  \/ \E s \in Sheet : Tap(s) \/ DismissalCompleted(s) \/ ViewDidAppear(s)
  \/ \E docs \in SUBSET BarId : AllBarsLoaded(docs)
  \/ OtherAnswer
  \/ MapMoved

Spec == Init /\ [][Next]_vars
-----------------------------------------------------------------------------
(***************************************************************************)
(* Properties                                                              *)
(***************************************************************************)

\* The order of a list is the dictionary's, but it has each value once.
ListsAll(listed, ids) == Len(listed) = Cardinality(ids) /\ ToSet(listed) = ids

\* No sheet shows a part of what there is.  A list is empty or has the whole
\* dictionary; the two tables of a bar and the table of a crawl are each empty
\* or what the lookup gives now, however long ago they were looked up.
AllOrNothing ==
  \A s \in Sheet :
    LET v == content[s]
    IN  /\ v.class = "BarList" => v.listed = <<>> \/ ListsAll(v.listed, allBars)
        /\ v.class = "CrawlList" => v.listed = <<>> \/ ListsAll(v.listed, allCrawls)
        /\ v.class = "Bar" =>
             /\ v.listed \in {<<>>, getAllCrawlsForBarId(v.subject)}
             /\ v.deals \in {<<>>, getAllDealsForBarId(v.subject)}
        /\ v.class = "Crawl" =>
             v.listed \in {<<>>, getAllBarsForCrawlId(v.subject)}

\* While the sheet of a bar is the current one, the camera is on that bar, unless
\* the user has moved the map by hand or has asked it to follow.
CameraOnBar ==
  LET v == content[currentBottomSheet]
  IN  v.class = "Bar" => camera \in {v.subject, "elsewhere"} \/ followUser

\* The map never hides both the user and the button that leads there.
UserInReach == Map!UserInReach

\* The map has one marker for each bar loaded: loadBars, which does not look for
\* markers made before, runs once and after the dictionary is filled.
MarkerPerBar ==
  \A b \in BarId : markers[b] = IF b \in allBars THEN 1 ELSE 0

\* A table is not laid out with more rows than its sheet has in its array.
RowsWithinList == \A s \in Sheet : content[s].rows \leq Len(content[s].listed)
=============================================================================
