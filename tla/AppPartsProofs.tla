---------------------------- MODULE AppPartsProofs ----------------------------
(***************************************************************************)
(* Proofs about the parts of the app of MCAppParts: the drag of a sheet in *)
(* points, the size of a pin, the location over the runs of the app, and   *)
(* the loading of images.  For each part an inductive invariant, what it   *)
(* implies, and the theorem that the composed specification has it.        *)
(***************************************************************************)
EXTENDS MCAppParts, SequenceTheorems, FiniteSetTheorems, TLAPS

\* A behaviour of the parts is one of each of them.
LEMMA PartsStep ==
  ASSUME [PartsNext]_partsVars
  PROVE  /\ Next \/ UNCHANGED vars
         /\ Drag!Next \/ UNCHANGED dragVars
         /\ Pins!Next \/ UNCHANGED pinVars
         /\ App!Next \/ UNCHANGED sessionVars
BY DEF PartsNext, partsVars

-----------------------------------------------------------------------------
(* The drag of a sheet *)

\* A sheet is below the screen only once it has been dismissed; that makes a drag
\* begin only on a sheet that can be touched.
DragInv ==
  /\ Drag!DragTypeOK
  /\ Drag!StrandedOnlyByCancel
  /\ ~dismissed => y # Height

\* The rests and their neighbourhoods do not meet, on any screen.
LEMMA ScreenIsHigh ==
  /\ Height \in Nat /\ Height > 440
  /\ Drag!SmallRest = Height - 200 /\ Drag!BigRest = 200
BY AppAssumption DEF Drag!HeightAssumption, Drag!Margin, Drag!Slack, Drag!SmallRest, Drag!BigRest

\* The end of a drag asks of the edge no more than its place.
LEMMA PlacesOfPoints ==
  ASSUME y \in Drag!BigRest..Drag!SmallRest \union {Height}
  PROVE  /\ Drag!Place \in {"below", "small", "nearSmall", "middle", "nearBig", "big"}
         /\ Drag!Place = "below" <=> y = Height
         /\ y = Drag!SmallRest => Drag!Place = "small"
         /\ y = Drag!BigRest => Drag!Place = "big"
         /\ Drag!Place \in {"below", "small", "nearSmall"} <=> y > Drag!SmallRest - 20
         /\ Drag!Place \in {"nearBig", "big"} <=> y < Drag!BigRest + 20
BY ScreenIsHigh DEF Drag!Place, Drag!Slack

\* A finger moves the edge between the rests.
LEMMA ClampBetweenRests ==
  ASSUME NEW n \in Int
  PROVE  Drag!Clamp(n) \in Drag!BigRest..Drag!SmallRest
BY ScreenIsHigh DEF Drag!Clamp

\* A step of the drag keeps its invariant.
LEMMA DragStep ==
  ASSUME DragInv, Drag!Next \/ UNCHANGED dragVars
  PROVE  DragInv'
<1> USE DEF DragInv, Drag!DragTypeOK, Drag!StrandedOnlyByCancel
<1>0. /\ Drag!SmallRest' = Drag!SmallRest /\ Drag!BigRest' = Drag!BigRest
      /\ Drag!SmallRest \in Drag!BigRest..Drag!SmallRest
      /\ Drag!BigRest \in Drag!BigRest..Drag!SmallRest
      /\ Height \notin Drag!BigRest..Drag!SmallRest
  BY ScreenIsHigh DEF Drag!SmallRest, Drag!BigRest, Drag!Margin
<1>1. CASE Drag!PanBegan
  BY <1>0, <1>1 DEF Drag!PanBegan
<1>2. CASE \E translation \in -Height..Height : Drag!PanChanged(translation)
  <2>1. PICK translation \in -Height..Height : Drag!PanChanged(translation)
    BY <1>2
  <2>2. y + translation \in Int
    BY <2>1, ScreenIsHigh
  <2>3. y' \in Drag!BigRest..Drag!SmallRest
    BY <2>1, <2>2, ClampBetweenRests DEF Drag!PanChanged
  <2> QED
    BY <1>0, <2>1, <2>3 DEF Drag!PanChanged
<1>3. CASE Drag!PanEnded
  <2>1. smallMode' \in BOOLEAN
    <3>1. CASE smallMode
      <4>1. smallMode' = (y > Drag!SmallRest - Drag!Slack)
        BY <1>3, <3>1, Zenon DEF Drag!PanEnded
      <4> QED
        BY <4>1
    <3>2. CASE ~smallMode
      BY <1>3, <3>2, Zenon DEF Drag!PanEnded
    <3> QED
      BY <3>1, <3>2
  <2> QED
    BY <1>0, <1>3, <2>1 DEF Drag!PanEnded
<1>4. CASE Drag!PanCancelled
  BY <1>0, <1>4 DEF Drag!PanCancelled
<1>5. CASE Drag!DismissBottomSheet
  BY <1>0, <1>5 DEF Drag!DismissBottomSheet
<1>6. CASE UNCHANGED dragVars
  BY <1>0, <1>6 DEF dragVars
<1> QED
  BY <1>1, <1>2, <1>3, <1>4, <1>5, <1>6 DEF Drag!Next

\* A step of the drag in points is one of BottomSheets in places.
LEMMA DragFollows ==
  ASSUME DragInv, Drag!Next \/ UNCHANGED dragVars
  PROVE  Drag!Places!Next \/ UNCHANGED dragVars
<1> DEFINE frame == [s \in {"sheet", "next"} |-> IF s = "sheet" THEN Drag!Place ELSE "below"]
           mode == [s \in {"sheet", "next"} |-> IF s = "sheet" THEN smallMode ELSE TRUE]
           pending == [s \in {"sheet", "next"} |-> IF s = "sheet" /\ dismissed THEN 1 ELSE 0]
<1>1. Drag!Places!Sheet = {"sheet", "next"}
  BY DEF Drag!Places!Sheet
<1>2. DragInv'
  BY DragStep
<1>3. CASE Drag!PanBegan
  <2>1. Drag!Places!PanBegan("sheet")
    BY <1>3, PlacesOfPoints DEF Drag!PanBegan, Drag!Places!PanBegan, Drag!Places!Touchable,
       Drag!Places!OnScreen, DragInv, Drag!DragTypeOK, Drag!Place
  <2> QED
    BY <1>1, <2>1 DEF Drag!Places!Next
<1>4. CASE \E translation \in -Height..Height : Drag!PanChanged(translation)
  <2>1. panning /\ UNCHANGED <<smallMode, panning, dismissed>>
    BY <1>4 DEF Drag!PanChanged
  <2>2. y' \in Drag!BigRest..Drag!SmallRest
    <3>1. PICK translation \in -Height..Height : Drag!PanChanged(translation)
      BY <1>4
    <3>2. y + translation \in Int
      BY <3>1, ScreenIsHigh DEF DragInv, Drag!DragTypeOK
    <3> QED
      BY <3>1, <3>2, ClampBetweenRests DEF Drag!PanChanged
  <2>3. Drag!Place' \in Drag!Places!Panned
    BY <2>2, ScreenIsHigh DEF Drag!Place, Drag!Slack, Drag!SmallRest, Drag!BigRest, Drag!Margin,
                              Drag!Places!Panned
  <2>4. Drag!Places!PanChanged("sheet")
    BY <2>1, <2>3 DEF Drag!Places!PanChanged
  <2> QED
    BY <1>1, <2>4 DEF Drag!Places!Next
<1>5. CASE Drag!PanEnded
  <2>1. panning /\ panning' = FALSE /\ UNCHANGED dismissed
    BY <1>5 DEF Drag!PanEnded
  <2>2. /\ smallMode \in BOOLEAN /\ smallMode' \in BOOLEAN
        /\ smallMode' <=> \/ smallMode /\ Drag!Place \in {"below", "small", "nearSmall"}
                          \/ ~smallMode /\ Drag!Place \notin {"nearBig", "big"}
    <3>1. /\ Drag!Place \in {"below", "small", "nearSmall"} <=> y > Drag!SmallRest - 20
          /\ Drag!Place \in {"nearBig", "big"} <=> y < Drag!BigRest + 20
      BY PlacesOfPoints DEF DragInv, Drag!DragTypeOK
    <3>2. smallMode \in BOOLEAN /\ smallMode' \in BOOLEAN
      BY <1>2 DEF DragInv, Drag!DragTypeOK
    <3>3. smallMode => (smallMode' <=> y > Drag!SmallRest - 20)
      BY <1>5, Zenon DEF Drag!PanEnded, Drag!Slack
    <3>4. ~smallMode => (smallMode' <=> ~(y < Drag!BigRest + 20))
      BY <1>5, Zenon DEF Drag!PanEnded, Drag!Slack
    <3> QED
      BY <3>1, <3>2, <3>3, <3>4
  <2>3. Drag!Place' = IF smallMode' THEN "small" ELSE "big"
    <3>1. y' = IF smallMode' THEN Drag!SmallRest ELSE Drag!BigRest
      BY <1>5, Zenon DEF Drag!PanEnded
    <3>2. CASE smallMode'
      <4>1. y' = Drag!SmallRest
        BY <3>1, <3>2
      <4> QED
        BY <3>2, <4>1, ScreenIsHigh DEF Drag!Place, Drag!SmallRest, Drag!BigRest, Drag!Margin, Drag!Slack
    <3>3. CASE ~smallMode'
      <4>1. y' = Drag!BigRest
        BY <3>1, <3>3
      <4> QED
        BY <3>3, <4>1, ScreenIsHigh DEF Drag!Place, Drag!SmallRest, Drag!BigRest, Drag!Margin, Drag!Slack
    <3> QED
      BY <3>2, <3>3
  <2>4. Drag!Places!StaysSmall("sheet") = smallMode'
    <3>1. Drag!Places!StaysSmall("sheet") <=> smallMode'
      BY <2>2 DEF Drag!Places!StaysSmall, Drag!Places!PastSmallEdge, Drag!Places!PastBigEdge
    <3> QED
      BY <2>2, <3>1, Zenon DEF Drag!Places!StaysSmall
  <2>5. /\ mode' = [mode EXCEPT !["sheet"] = smallMode']
        /\ frame' = [frame EXCEPT !["sheet"] = Drag!Place']
        /\ pending' = pending
    BY <2>1
  <2>6. Drag!Place' = IF Drag!Places!StaysSmall("sheet") THEN "small" ELSE "big"
    BY <2>3, <2>4
  <2>7. /\ mode' = [mode EXCEPT !["sheet"] = Drag!Places!StaysSmall("sheet")]
        /\ frame' = [frame EXCEPT !["sheet"] = IF Drag!Places!StaysSmall("sheet") THEN "small" ELSE "big"]
    BY <2>4, <2>5, <2>6, Zenon
  <2>8. Drag!Places!PanEnded("sheet")
    BY <2>1, <2>5, <2>7 DEF Drag!Places!PanEnded, Drag!Places!AnimateTo
  <2> QED
    BY <1>1, <2>8 DEF Drag!Places!Next
<1>6. CASE Drag!PanCancelled
  <2>1. Drag!Places!PanCancelled("sheet")
    BY <1>6 DEF Drag!PanCancelled, Drag!Places!PanCancelled, Drag!Place
  <2> QED
    BY <1>1, <2>1 DEF Drag!Places!Next
<1>7. CASE Drag!DismissBottomSheet
  <2>1. ~dismissed /\ dismissed' = TRUE /\ UNCHANGED <<smallMode, panning>> /\ Drag!Place' = "below"
    BY <1>7, ScreenIsHigh DEF Drag!DismissBottomSheet, Drag!Place, Drag!SmallRest, Drag!BigRest,
                              Drag!Margin, Drag!Slack
  <2>2. ~Drag!Places!InFlight
    BY <1>1, <2>1 DEF Drag!Places!InFlight
  <2>3. /\ frame' = [frame EXCEPT !["sheet"] = "below"]
        /\ pending' = [pending EXCEPT !["sheet"] = @ + 1]
        /\ mode' = mode
    <3>1. mode' = mode /\ frame' = [frame EXCEPT !["sheet"] = "below"]
      BY <2>1
    <3>2. pending["sheet"] + 1 = 1
      BY <2>1
    <3>3. pending' = [pending EXCEPT !["sheet"] = 1]
      BY <2>1
    <3> QED
      BY <3>1, <3>2, <3>3, Zenon
  <2>4. FALSE = (FALSE \/ Drag!Places!InFlight)
    BY <2>2
  <2>5. /\ (IF dismissed THEN "next" ELSE "sheet") = "sheet"
        /\ (IF dismissed THEN "next" ELSE "sheet")' = "next"
        /\ (IF dismissed THEN {"sheet", "next"} ELSE {"sheet"}) = {"sheet"}
        /\ (IF dismissed THEN {"sheet", "next"} ELSE {"sheet"})' = {"sheet"} \union {"next"}
        /\ (IF panning THEN {"sheet"} ELSE {})' = IF panning THEN {"sheet"} ELSE {}
    BY <2>1
  <2>6. "next" \in Drag!Places!Sheet \ {"sheet"}
    BY <1>1
  <2>7. Drag!Places!DismissBottomSheet(IF dismissed THEN "next" ELSE "sheet")
    BY <2>3, <2>5, Zenon DEF Drag!Places!DismissBottomSheet
  <2>8. Drag!Places!ChangeBottomSheetView("next")
    BY <2>3, <2>4, <2>5, <2>6, <2>7, Zenon DEF Drag!Places!ChangeBottomSheetView
  <2> QED
    BY <1>1, <2>8 DEF Drag!Places!Next
<1> QED
  BY <1>3, <1>4, <1>5, <1>6, <1>7 DEF Drag!Next

\* The drag in points keeps to the places of BottomSheets, and leaves a sheet
\* between its rests only when the system cancels it (DragFollowsPlaces of
\* SheetDrag), on every screen.
THEOREM DragIsSafe == PartsSpec => DragFollowsPlaces
<1>1. PartsInit => DragInv
  <2> SUFFICES ASSUME PartsInit PROVE DragInv
    OBVIOUS
  <2>1. Drag!Init
    BY DEF PartsInit
  <2>2. y = Drag!SmallRest /\ smallMode = TRUE /\ panning = FALSE /\ dismissed = FALSE /\ cancelled = FALSE
    BY <2>1 DEF Drag!Init
  <2>3. Drag!SmallRest \in Drag!BigRest..Drag!SmallRest /\ Drag!SmallRest # Height
    BY ScreenIsHigh
  <2>4. Drag!DragTypeOK
    BY <2>2, <2>3 DEF Drag!DragTypeOK
  <2>5. Drag!StrandedOnlyByCancel
    BY <2>2 DEF Drag!StrandedOnlyByCancel
  <2> QED
    BY <2>2, <2>3, <2>4, <2>5 DEF DragInv
<1>2. DragInv /\ [PartsNext]_partsVars => DragInv'
  BY DragStep, PartsStep
<1>3. DragInv => Drag!DragTypeOK /\ Drag!StrandedOnlyByCancel
  BY DEF DragInv
<1>4. DragInv /\ [PartsNext]_partsVars => [Drag!Places!Next]_(Drag!vars)
  BY DragFollows, PartsStep DEF dragVars, Drag!vars
<1> QED
  BY <1>1, <1>2, <1>3, <1>4, PTL
     DEF PartsSpec, DragFollowsPlaces, Drag!DragFollowsPlaces, Drag!PointsFollowPlaces

-----------------------------------------------------------------------------
(* The size of a pin *)

\* A pin has its own size or the one it is scaled to.
PinInv ==
  /\ size.width \in Nat \ {0} /\ size.height \in Nat \ {0}
  /\ \/ newSize = [width |-> Pins!Over(size.width, 1), height |-> Pins!Over(size.height, 1)]
     \/ newSize = Pins!Scaled(size)

\* Both keep the proportions of the image, and the limits are those of the longer
\* side, whatever the size of the image.
THEOREM PinsAreSafe == PartsSpec => []PinSafety
<1>1. PartsInit => PinInv
  <2> SUFFICES ASSUME PartsInit PROVE PinInv
    OBVIOUS
  <2>1. Pins!Init
    BY DEF PartsInit
  <2>2. Pins!Sides \subseteq Nat \ {0}
    BY AppAssumption DEF Pins!Sides
  <2> QED
    BY <2>1, <2>2 DEF Pins!Init, PinInv
<1>2. PinInv /\ [PartsNext]_partsVars => PinInv'
  <2> SUFFICES ASSUME PinInv, Pins!Next \/ UNCHANGED pinVars PROVE PinInv'
    BY PartsStep
  <2>1. size' = size /\ (newSize' = newSize \/ newSize' = Pins!Scaled(size'))
    BY DEF Pins!Next, Pins!resizePinImage, pinVars
  <2> QED
    BY <2>1 DEF PinInv, Pins!Scaled, Pins!Over
<1>3. PinInv => PinSafety
  <2> SUFFICES ASSUME PinInv PROVE Pins!AspectKept /\ Pins!OversizedPins
    BY DEF PinSafety, Pins!PinSafety
  <2> DEFINE w == size.width
             h == size.height
  <2>1. w \in Nat \ {0} /\ h \in Nat \ {0}
    BY DEF PinInv
  <2>2. Pins!AspectKept
    <3>1. CASE newSize = [width |-> Pins!Over(w, 1), height |-> Pins!Over(h, 1)]
      BY <2>1, <3>1 DEF Pins!AspectKept, Pins!Over
    <3>2. CASE newSize = Pins!Scaled(size) /\ w > h
      BY <2>1, <3>2 DEF Pins!AspectKept, Pins!Scaled, Pins!Over, Pins!maxWidth
    <3>3. CASE newSize = Pins!Scaled(size) /\ ~(w > h)
      BY <2>1, <3>3 DEF Pins!AspectKept, Pins!Scaled, Pins!Over, Pins!maxHeight
    <3> QED
      BY <3>1, <3>2, <3>3 DEF PinInv
  <2>3. Pins!OversizedPins
    BY <2>1 DEF Pins!OversizedPins, Pins!Resized, Pins!Fits, Pins!AtMost, Pins!Scaled, Pins!Over,
                Pins!maxWidth, Pins!maxHeight
  <2> QED
    BY <2>2, <2>3
<1> QED
  BY <1>1, <1>2, <1>3, PTL DEF PartsSpec

-----------------------------------------------------------------------------
(* The runs of the app *)

\* Only a request made while services were off, or the user in Settings, decides
\* the authorization; a run that updates has not asked, and one on the launch
\* screen has done neither.
SessionInv ==
  /\ App!SessionSafety
  /\ auth # "notDetermined" \/ asking => everOff \/ bySettings
  /\ updating => run \notin askedIn
  /\ screen = "launch" => run \notin askedIn \union locatedIn
  /\ screen # "off" => run > 0

\* A step of the app, the system or the user keeps the invariant.
LEMMA SessionStep ==
  ASSUME SessionInv, App!Next \/ UNCHANGED sessionVars
  PROVE  SessionInv'
<1> USE DEF SessionInv, App!SessionSafety, App!SessionTypeOK, App!NeverAskedWithServicesOn,
            App!AnswerTakesNextRun
<1>1. CASE App!Launch
  <2>1. /\ run' = run + 1 /\ run' \in 1..MaxRuns /\ screen' = "launch" /\ loggedIn' = TRUE
        /\ run' \notin 1..run /\ 1..run \subseteq 1..run'
        /\ UNCHANGED <<services, auth, asking, updating, locatedIn, askedIn, bySettings, everOff>>
        /\ screen = "off"
    BY <1>1, AppAssumption DEF App!Launch
  <2>2. loggedIn' = (screen' # "off")
    BY <2>1
  <2> QED
    BY <2>1, <2>2
<1>2. CASE App!HomeAppears
  <2>1. /\ screen = "launch" /\ screen' = "home"
        /\ UNCHANGED <<run, loggedIn, services, auth, locatedIn, bySettings>>
        /\ \/ services /\ updating' = TRUE /\ UNCHANGED <<asking, askedIn, everOff>>
           \/ /\ asking' \in BOOLEAN /\ askedIn' = askedIn \union {run} /\ everOff' = TRUE
              /\ UNCHANGED updating
    <3>1. CASE services
      <4>1. everOff' = everOff
        BY <1>2, <3>1, Zenon DEF App!HomeAppears
      <4> QED
        BY <1>2, <3>1, <4>1 DEF App!HomeAppears, App!GetUserLocation
    <3>2. CASE ~services
      <4>1. everOff' = TRUE
        BY <1>2, <3>2, Zenon DEF App!HomeAppears
      <4>2. asking' \in BOOLEAN
        BY <1>2, <3>2, Zenon DEF App!HomeAppears, App!GetUserLocation
      <4> QED
        BY <1>2, <3>2, <4>1, <4>2 DEF App!HomeAppears, App!GetUserLocation
    <3> QED
      BY <3>1, <3>2
  <2>2. loggedIn' = (screen' # "off")
    BY <2>1
  <2>3. run \in 1..run
    BY <2>1
  <2>4. ~updating /\ ~asking
    BY <2>1
  <2>5. App!SessionTypeOK'
    <3>1. askedIn' \subseteq 1..run'
      BY <2>1, <2>3
    <3>2. loggedIn' \in BOOLEAN /\ services' \in BOOLEAN /\ everOff' \in BOOLEAN
          /\ asking' \in BOOLEAN /\ updating' \in BOOLEAN /\ bySettings' \in BOOLEAN
      BY <2>1
    <3> QED
      BY <2>1, <2>2, <3>1, <3>2
  <2>6. App!NeverAskedWithServicesOn' /\ App!AnswerTakesNextRun'
    BY <2>1
  <2>7. /\ auth' # "notDetermined" \/ asking' => everOff' \/ bySettings'
        /\ updating' => run' \notin askedIn'
    BY <2>1, <2>4
  <2> QED
    BY <2>1, <2>5, <2>6, <2>7
<1>3. CASE App!DidUpdateLocations
  BY <1>3 DEF App!DidUpdateLocations
<1>4. CASE App!UserAnswers
  BY <1>4 DEF App!UserAnswers
<1>5. CASE App!UserSetsServices
  BY <1>5 DEF App!UserSetsServices
<1>6. CASE App!UserSetsAuthorization
  BY <1>6 DEF App!UserSetsAuthorization
<1>7. CASE App!Terminated
  BY <1>7 DEF App!Terminated
<1>8. CASE UNCHANGED sessionVars
  BY <1>8 DEF sessionVars
<1> QED
  BY <1>1, <1>2, <1>3, <1>4, <1>5, <1>6, <1>7, <1>8 DEF App!Next

\* Over any number of runs of the app, the user whose Location Services have always
\* been on gets it to use them only through the Settings, and a run that asks gets
\* no location (SessionSafety of Session).
THEOREM SessionsAreSafe == PartsSpec => []SessionSafety
<1>1. PartsInit => SessionInv
  <2> SUFFICES ASSUME PartsInit PROVE SessionInv
    OBVIOUS
  <2>1. App!Init
    BY DEF PartsInit
  <2>2. loggedIn = (screen # "off")
    BY <2>1 DEF App!Init
  <2>3. App!SessionTypeOK
    <3>1. /\ run = 0 /\ screen = "off" /\ auth = "notDetermined"
          /\ services \in BOOLEAN /\ bySettings \in BOOLEAN /\ everOff \in BOOLEAN
          /\ asking = FALSE /\ updating = FALSE /\ locatedIn = {} /\ askedIn = {}
      BY <2>1 DEF App!Init
    <3>2. MaxRuns \in Nat
      BY AppAssumption
    <3>3. run \in 0..MaxRuns /\ locatedIn \subseteq 1..run /\ askedIn \subseteq 1..run
      BY <3>1, <3>2
    <3>4. /\ screen \in {"off", "launch", "home"} /\ auth \in {"notDetermined", "whenInUse", "denied"}
          /\ asking \in BOOLEAN /\ updating \in BOOLEAN /\ (asking \/ updating => screen = "home")
      BY <3>1
    <3> QED
      BY <2>2, <3>1, <3>3, <3>4, Zenon DEF App!SessionTypeOK
  <2> QED
    BY <2>1, <2>3 DEF App!Init, SessionInv, App!SessionSafety, App!NeverAskedWithServicesOn,
                      App!AnswerTakesNextRun
<1>2. SessionInv /\ [PartsNext]_partsVars => SessionInv'
  BY SessionStep, PartsStep
<1>3. SessionInv => SessionSafety
  BY DEF SessionInv, SessionSafety
<1> QED
  BY <1>1, <1>2, <1>3, PTL DEF PartsSpec

-----------------------------------------------------------------------------
(* The loading of images *)

Made == 1..Len(requests)

\* The delegate queue has not yet read the callbacks of the task.
Live(task) == task \in running \/ finishing.task = task

\* Request id will be answered by that task.
Served(id, task) == id \in callbacks[task] /\ Live(task)

Arriving(id) == \E a \in arrived : a.id = id

\* Nobody holds a request that was not made, and there is room for those to come.
KnownIds ==
  /\ Len(requests) + Len(todo) <= MaxRequests
  /\ reading \subseteq Made /\ running \subseteq Made
  /\ \A a \in arrived : a.id \in Made
  /\ joining # Nobody => joining.id \in Made /\ joining.task \in Made
  /\ finishing.task \in Made \union {0}
  /\ \A t \in Id : callbacks[t] \subseteq Made
  /\ \A u \in Url : tasks[u] \in Made \union {0}
  /\ \A c \in Cell : taskIdentifier[c] \in Made \union {0}
  /\ \A id \in Id \ Made : answers[id] = 0

\* A cell waits for the request of its row only, and every request of a marker is
\* for its pin.
RowsAndPins ==
  /\ \A c \in Cell : LET id == taskIdentifier[c] IN
       id # 0 => requests[id].view = c /\ UrlOf(id) = asked[c]
  /\ \A i \in Made : LET m == requests[i].view IN
       m \in Marker => UrlOf(i) = pinURL[m] /\ asked[m] = pinURL[m]
  /\ \A i \in 1..Len(todo) : LET m == todo[i].view IN
       m \in Marker => todo[i].url = pinURL[m]
  /\ \A m \in Marker :
       image[m] \notin {"blank", "black"} => image[m] = pinURL[m] /\ asked[m] = pinURL[m]

\* The table of tasks: a running task is in it, and a task of it is running or the
\* one the delegate queue has found there.
TableFits ==
  /\ \A t \in running : tasks[UrlOf(t)] = t
  /\ \A u \in Url : LET t == tasks[u] IN
       t # 0 => /\ UrlOf(t) = u
                /\ t \in running \/ (finishing.task = t /\ finishing.step = "found")
  /\ finishing.task \notin running
  /\ finishing.step = "found" => tasks[UrlOf(finishing.task)] = finishing.task

\* A request is in one place at most, and answered at most once.
OnePlace ==
  /\ \A id \in Id :
       /\ answers[id] <= 1
       /\ answers[id] > 0 => id \notin reading /\ joining.id # id /\ ~Arriving(id)
       /\ id \in reading => joining.id # id /\ ~Arriving(id)
       /\ joining.id = id => ~Arriving(id)
  /\ \A id, t \in Id : Served(id, t) =>
       /\ answers[id] = 0 /\ id \notin reading /\ joining.id # id /\ ~Arriving(id)
       /\ \A s \in Id : Served(id, s) => s = t
  /\ \A a, b \in arrived : a.id = b.id => a = b

ImageInv ==
  /\ ImageTypeOK /\ KnownIds
  /\ ShowsItsRow /\ RowsAndPins
  /\ TableFits /\ OnePlace /\ LostOnlyByLateJoin

\* What the types and the bounds give every proof below.
LEMMA ImageBasics ==
  ASSUME ImageTypeOK, KnownIds
  PROVE  /\ MaxRequests \in Nat /\ Id \subseteq Nat \ {0}
         /\ Len(requests) \in Nat /\ Len(todo) \in Nat
         /\ DOMAIN requests = Made /\ Made \subseteq Id
         /\ \A i \in Made : requests[i].view \in View /\ UrlOf(i) \in Url
         /\ joining = Nobody <=> joining.id = 0
         /\ joining # Nobody => joining.id \in Id /\ joining.task \in Id
         /\ finishing = Nothing <=> finishing.task = 0
         /\ finishing # Nothing <=> finishing.step \in {"found", "removed"}
         /\ finishing # Nothing => finishing.ok \in BOOLEAN
<1> DEFINE T == [view : View, url : Url]
<1>1. requests \in Seq(T) /\ todo \in Seq(T) /\ Len(requests) <= MaxRequests
  BY DEF ImageTypeOK
<1>2. \A r \in T : r.view \in View /\ r.url \in Url
  OBVIOUS
<1> HIDE DEF T
<1>3. /\ Len(requests) \in Nat /\ DOMAIN requests = 1..Len(requests) /\ Len(todo) \in Nat
      /\ \A i \in 1..Len(requests) : requests[i] \in T
  BY <1>1, LenProperties, ElementOfSeq
<1>4. MaxRequests \in Nat
  BY ImageAssumption
<1>5. \A i \in Made : requests[i].view \in View /\ UrlOf(i) \in Url
  BY <1>2, <1>3 DEF Made, UrlOf
<1>6. /\ joining = Nobody <=> joining.id = 0
      /\ joining # Nobody => joining.id \in Id /\ joining.task \in Id
  BY <1>4 DEF ImageTypeOK, Nobody, Id
<1>7. /\ finishing = Nothing <=> finishing.task = 0
      /\ finishing # Nothing <=> finishing.step \in {"found", "removed"}
      /\ finishing # Nothing => finishing.ok \in BOOLEAN
  BY <1>4 DEF ImageTypeOK, Nothing, Id
<1> QED
  BY <1>1, <1>3, <1>4, <1>5, <1>6, <1>7 DEF Made, Id

\* A cell shows the image of its request and waits no more; a marker takes what
\* comes, which can only be its pin.
LEMMA AnswerShows ==
  ASSUME ImageInv, NEW id \in Made, NEW ok \in BOOLEAN,
         Complete(requests[id].view, UrlOf(id), id, ok, taskIdentifier, image),
         UNCHANGED <<requests, todo, asked>>
  PROVE  /\ image' \in [View -> Url \union {"blank", "black"}]
         /\ taskIdentifier' \in [Cell -> Id \union {0}]
         /\ \A c \in Cell : taskIdentifier'[c] \in Made \union {0}
         /\ answers' = [answers EXCEPT ![id] = @ + 1]
         /\ ShowsItsRow' /\ RowsAndPins'
<1> DEFINE v == requests[id].view
           u == UrlOf(id)
<1>1. /\ Made \subseteq Id /\ 0 \notin Id /\ v \in View /\ u \in Url
  BY ImageBasics DEF ImageInv
<1>2. /\ image \in [View -> Url \union {"blank", "black"}]
      /\ taskIdentifier \in [Cell -> Id \union {0}]
      /\ \A c \in Cell : taskIdentifier[c] \in Made \union {0}
  BY DEF ImageInv, ImageTypeOK, KnownIds
<1>3. answers' = [answers EXCEPT ![id] = @ + 1]
  BY DEF Complete
<1>4. CASE v \in Cell /\ taskIdentifier[v] = id
  <2>1. /\ taskIdentifier' = [taskIdentifier EXCEPT ![v] = 0]
        /\ image' = image \/ image' = [image EXCEPT ![v] = u]
    BY <1>4 DEF Complete
  <2>2. u = asked[v] /\ v \notin Marker
    BY <1>1, <1>4, ImageAssumption DEF ImageInv, RowsAndPins
  <2> HIDE DEF v, u
  <2>3. ShowsItsRow'
    BY <1>1, <1>2, <2>1, <2>2 DEF ImageInv, ShowsItsRow
  <2>4. \A c \in Cell : taskIdentifier'[c] \in {taskIdentifier[c], 0}
    BY <1>2, <1>4, <2>1
  <2>5. \A m \in Marker : image'[m] = image[m]
    BY <1>2, <2>1, <2>2 DEF View
  <2>6. RowsAndPins'
    BY <1>2, <2>4, <2>5 DEF ImageInv, RowsAndPins, Made, UrlOf
  <2> QED
    BY <1>1, <1>2, <1>3, <2>1, <2>3, <2>4, <2>6
<1>5. CASE v \in Cell /\ taskIdentifier[v] # id
  <2>1. taskIdentifier' = taskIdentifier /\ image' = image
    BY <1>5 DEF Complete
  <2> QED
    BY <1>1, <1>2, <1>3, <2>1 DEF ImageInv, ShowsItsRow, RowsAndPins, Made, UrlOf
<1>6. CASE v \in Marker
  <2>1. v \notin Cell
    BY <1>6, ImageAssumption
  <2>2. /\ taskIdentifier' = taskIdentifier
        /\ image' = [image EXCEPT ![v] = IF ok THEN u ELSE "black"]
    BY <2>1 DEF Complete
  <2>3. u = pinURL[v] /\ asked[v] = pinURL[v]
    BY <1>6 DEF ImageInv, RowsAndPins
  <2> HIDE DEF v, u
  <2>4. \A w \in View : image'[w] = IF w = v THEN (IF ok THEN u ELSE "black") ELSE image[w]
    BY <1>1, <1>2, <2>2
  <2>5. ShowsItsRow'
    BY <1>1, <1>2, <2>3, <2>4 DEF ImageInv, ShowsItsRow
  <2>6. RowsAndPins'
    BY <1>1, <1>2, <2>2, <2>3, <2>4 DEF ImageInv, RowsAndPins, Made, UrlOf, View
  <2> QED
    BY <1>1, <1>2, <1>3, <2>2, <2>5, <2>6
<1> QED
  BY <1>1, <1>4, <1>5, <1>6 DEF View

\* A request that is answered leaves the place it was in.
LEMMA AnswerMoves ==
  ASSUME ImageInv, NEW id \in Made, answers' = [answers EXCEPT ![id] = @ + 1],
         \/ id \in reading /\ reading' = reading \ {id} /\ arrived' = arrived
         \/ \E a \in arrived : a.id = id /\ arrived' = arrived \ {a} /\ reading' = reading,
         UNCHANGED <<requests, joining, callbacks, running, finishing, late>>
  PROVE  OnePlace' /\ LostOnlyByLateJoin' /\ answers' \in [Id -> Nat]
<1>1. Made \subseteq Id /\ DOMAIN requests = Made /\ answers \in [Id -> Nat]
  BY ImageBasics DEF ImageInv, ImageTypeOK
<1>2. answers[id] = 0
  BY <1>1 DEF ImageInv, OnePlace, Arriving
<1>3. \A i \in Id : answers'[i] = IF i = id THEN 1 ELSE answers[i]
  BY <1>1, <1>2
<1>4. id \notin reading' /\ ~Arriving(id)'
  BY <1>1 DEF ImageInv, OnePlace, Arriving
<1>5. /\ reading' \subseteq reading
      /\ \A i : Arriving(i)' => Arriving(i)
      /\ \A i : i # id => (i \in reading' <=> i \in reading) /\ (Arriving(i)' <=> Arriving(i))
      /\ arrived' \subseteq arrived
  BY DEF Arriving
<1>6. \A i, t : Served(i, t)' <=> Served(i, t)
  BY DEF Served, Live
<1>7. joining.id # id /\ \A t \in Id : ~Served(id, t)
  BY <1>1 DEF ImageInv, OnePlace, Arriving
<1>8. OnePlace'
  BY <1>1, <1>3, <1>4, <1>5, <1>6, <1>7 DEF ImageInv, OnePlace
<1>9. LostOnlyByLateJoin'
  <2>1. \A i \in Made : Held(i)' \/ i \in late
    <3> SUFFICES ASSUME NEW i \in Made PROVE Held(i)' \/ i \in late
      OBVIOUS
    <3>1. CASE i = id
      BY <1>1, <1>3, <3>1 DEF Held
    <3>2. CASE i # id
      BY <1>1, <1>3, <1>5, <3>2 DEF ImageInv, LostOnlyByLateJoin, Held, Arriving
    <3> QED
      BY <3>1, <3>2
  <2> QED
    BY <1>1, <2>1 DEF LostOnlyByLateJoin
<1> QED
  BY <1>1, <1>3, <1>8, <1>9

\* An image read from disk, or one that arrives, is shown where it belongs.
LEMMA AnswerStep ==
  ASSUME ImageInv, (\E id \in Id : ReadFromDisk(id)) \/ (\E a \in arrived : Arrive(a))
  PROVE  ImageInv'
<1>1. PICK id \in Made, ok \in BOOLEAN :
        /\ Complete(requests[id].view, UrlOf(id), id, ok, taskIdentifier, image)
        /\ \/ id \in reading /\ reading' = reading \ {id} /\ arrived' = arrived
           \/ \E a \in arrived : a.id = id /\ arrived' = arrived \ {a} /\ reading' = reading
        /\ cache' = cache \/ cache' = [cache EXCEPT ![UrlOf(id)] = "memory"]
        /\ UNCHANGED <<requests, todo, joining, asked, tasks, callbacks, running, finishing, late>>
  <2>1. ASSUME NEW id \in Id, ReadFromDisk(id)
        PROVE  id \in Made /\ (cache[UrlOf(id)] # "none") \in BOOLEAN
    BY <2>1 DEF ReadFromDisk, ImageInv, KnownIds
  <2>2. ASSUME NEW a \in arrived, Arrive(a)
        PROVE  a.id \in Made /\ a.ok \in BOOLEAN
    BY <2>2 DEF ImageInv, KnownIds, ImageTypeOK
  <2>3. CASE \E id \in Id : ReadFromDisk(id)
    BY <2>1, <2>3 DEF ReadFromDisk, netVars
  <2>4. CASE \E a \in arrived : Arrive(a)
    BY <2>2, <2>4 DEF Arrive, netVars
  <2> QED
    BY <2>3, <2>4
<1>2. /\ image' \in [View -> Url \union {"blank", "black"}]
      /\ taskIdentifier' \in [Cell -> Id \union {0}]
      /\ \A c \in Cell : taskIdentifier'[c] \in Made \union {0}
      /\ answers' = [answers EXCEPT ![id] = @ + 1]
      /\ ShowsItsRow' /\ RowsAndPins'
  BY <1>1, AnswerShows
<1>3. OnePlace' /\ LostOnlyByLateJoin' /\ answers' \in [Id -> Nat]
  BY <1>1, <1>2, AnswerMoves
<1>4. ImageTypeOK'
  <2>1. cache' \in [Url -> {"none", "disk", "memory"}]
    BY <1>1 DEF ImageInv, ImageTypeOK
  <2>2. reading' \subseteq Id /\ arrived' \subseteq [id : Id, ok : BOOLEAN]
    BY <1>1 DEF ImageInv, ImageTypeOK
  <2> QED
    BY <1>1, <1>2, <1>3, <2>1, <2>2 DEF ImageInv, ImageTypeOK
<1>5. KnownIds'
  BY <1>1, <1>2 DEF ImageInv, KnownIds, ImageTypeOK, Made
<1>6. TableFits'
  BY <1>1 DEF ImageInv, TableFits, UrlOf
<1> QED
  BY <1>2, <1>3, <1>4, <1>5, <1>6 DEF ImageInv

\* The rows and the pins that are asked for, each of them with room for it.
LEMMA AskStep ==
  ASSUME ImageInv, LoadBars \/ \E c \in Cell, u \in Url : CellForRow(c, u)
  PROVE  ImageInv'
<1> DEFINE T == [view : View, url : Url]
<1>1. /\ todo' \in Seq(T) /\ Len(requests) + Len(todo') <= MaxRequests
      /\ \A i \in 1..Len(todo') : LET m == todo'[i].view IN m \in Marker => todo'[i].url = pinURL[m]
  <2>1. CASE LoadBars
    <3> DEFINE n == Cardinality(Marker)
    <3>1. n \in Nat
      BY ImageAssumption, FS_CardinalityType
    <3>2. Len(requests) + n <= MaxRequests
      BY <2>1 DEF LoadBars, Room
    <3>3. PICK order \in SetToSeqs(Marker) :
            todo' = [i \in DOMAIN order |-> [view |-> order[i], url |-> pinURL[order[i]]]]
      BY <2>1 DEF LoadBars
    <3> HIDE DEF n
    <3>4. order \in [1..n -> Marker]
      BY <3>3 DEF SetToSeqs, n
    <3>5. todo' = [i \in 1..n |-> [view |-> order[i], url |-> pinURL[order[i]]]]
      BY <3>3, <3>4
    <3>6. \A i \in 1..n : [view |-> order[i], url |-> pinURL[order[i]]] \in T
      BY <3>4, ImageAssumption DEF View
    <3>7. todo' \in [1..n -> T]
      BY <3>5, <3>6
    <3> HIDE DEF T
    <3>8. todo' \in Seq(T) /\ Len(todo') = n
      BY <3>1, <3>7
    <3> QED
      BY <3>1, <3>2, <3>4, <3>5, <3>8
  <2>2. CASE \E c \in Cell, u \in Url : CellForRow(c, u)
    <3>0. PICK c \in Cell, u \in Url : CellForRow(c, u)
      BY <2>2
    <3> DEFINE r == [view |-> c, url |-> u]
    <3>1. todo' = <<r>> /\ Len(requests) + 1 <= MaxRequests
      BY <3>0 DEF CellForRow, Room
    <3>2. r \in T /\ r.view \notin Marker
      BY ImageAssumption DEF View
    <3> HIDE DEF r, T
    <3>3. todo' \in Seq(T) /\ Len(todo') = 1 /\ todo'[1] = r
      BY <3>1, <3>2
    <3>4. \A i \in 1..Len(todo') : todo'[i].view \notin Marker
      BY <3>2, <3>3
    <3>5. Len(requests) + Len(todo') <= MaxRequests
      BY <3>1, <3>3
    <3> QED
      BY <3>3, <3>4, <3>5
  <2> QED
    BY <2>1, <2>2
<1>2. UNCHANGED <<requests, joining, image, asked, taskIdentifier, cache, reading, tasks, callbacks,
                  running, finishing, arrived, answers, late>>
  BY DEF LoadBars, CellForRow, netVars
<1>3. ImageTypeOK'
  BY <1>1, <1>2 DEF ImageInv, ImageTypeOK
<1> HIDE DEF T
<1>4. KnownIds' /\ RowsAndPins'
  BY <1>1, <1>2 DEF ImageInv, KnownIds, RowsAndPins, Made, UrlOf
<1>5. ShowsItsRow' /\ TableFits' /\ OnePlace' /\ LostOnlyByLateJoin'
  BY <1>2 DEF ImageInv, ShowsItsRow, TableFits, OnePlace, LostOnlyByLateJoin, UrlOf, Served, Live,
              Arriving, Held
<1> QED
  BY <1>3, <1>4, <1>5 DEF ImageInv

\* A row without a photograph, an image that leaves the cache, or nothing.
LEMMA ForgetStep ==
  ASSUME ImageInv, \/ \E c \in Cell : CellForRowWithoutUrl(c)
                   \/ \E u \in Url : Evict(u)
                   \/ UNCHANGED vars
  PROVE  ImageInv'
<1>1. CASE \E c \in Cell : CellForRowWithoutUrl(c)
  <2>1. PICK c \in Cell : CellForRowWithoutUrl(c)
    BY <1>1
  <2>2. /\ image' = [image EXCEPT ![c] = "blank"]
        /\ asked' = [asked EXCEPT ![c] = NoUrl]
        /\ taskIdentifier' = [taskIdentifier EXCEPT ![c] = 0]
        /\ UNCHANGED <<requests, todo, joining, cache, reading, tasks, callbacks, running, finishing,
                       arrived, answers, late>>
    BY <2>1 DEF CellForRowWithoutUrl, netVars
  <2>3. c \in View /\ c \notin Marker
    BY ImageAssumption DEF View
  <2>4. ImageTypeOK'
    BY <2>2, <2>3 DEF ImageInv, ImageTypeOK
  <2>5. KnownIds'
    BY <2>2 DEF ImageInv, ImageTypeOK, KnownIds, Made
  <2>6. ShowsItsRow'
    BY <2>2, <2>3 DEF ImageInv, ImageTypeOK, ShowsItsRow
  <2>7. /\ \A d \in Cell : taskIdentifier'[d] # 0 => d # c /\ taskIdentifier'[d] = taskIdentifier[d]
        /\ \A w \in View : w # c => asked'[w] = asked[w] /\ image'[w] = image[w]
    BY <2>2 DEF ImageInv, ImageTypeOK
  <2>8. RowsAndPins'
    BY <2>2, <2>3, <2>7 DEF ImageInv, RowsAndPins, Made, UrlOf, View
  <2>9. TableFits' /\ OnePlace' /\ LostOnlyByLateJoin'
    BY <2>2 DEF ImageInv, TableFits, OnePlace, LostOnlyByLateJoin, UrlOf, Served, Live, Arriving, Held
  <2> QED
    BY <2>4, <2>5, <2>6, <2>8, <2>9 DEF ImageInv
<1>2. CASE (\E u \in Url : Evict(u)) \/ UNCHANGED vars
  <2>1. /\ UNCHANGED <<requests, todo, joining, image, asked, taskIdentifier, reading, tasks, callbacks,
                       running, finishing, arrived, answers, late>>
        /\ cache' \in [Url -> {"none", "disk", "memory"}]
    BY <1>2 DEF Evict, vars, mainVars, netVars, ImageInv, ImageTypeOK
  <2>2. ImageTypeOK' /\ KnownIds' /\ ShowsItsRow' /\ RowsAndPins'
    BY <2>1 DEF ImageInv, ImageTypeOK, KnownIds, ShowsItsRow, RowsAndPins, Made, UrlOf
  <2>3. TableFits' /\ OnePlace' /\ LostOnlyByLateJoin'
    BY <2>1 DEF ImageInv, TableFits, OnePlace, LostOnlyByLateJoin, UrlOf, Served, Live, Arriving, Held
  <2> QED
    BY <2>2, <2>3 DEF ImageInv
<1> QED
  BY <1>1, <1>2

\* A request joins the task it has found: it will be answered if the delegate queue
\* has not read the callbacks yet, and is late otherwise.
LEMMA JoinStep ==
  ASSUME ImageInv, AppendCallback
  PROVE  ImageInv'
<1>0. PICK id, t : id = joining.id /\ t = joining.task
  OBVIOUS
<1>1. /\ joining # Nobody /\ joining' = Nobody
      /\ callbacks' = [callbacks EXCEPT ![t] = @ \union {id}]
      /\ late' = IF Answered(t) THEN late \union {id} ELSE late
      /\ UNCHANGED <<requests, todo, image, asked, taskIdentifier, cache, reading, tasks, running,
                     finishing, arrived, answers>>
  BY <1>0 DEF AppendCallback
<1>2. /\ Made \subseteq Id /\ 0 \notin Id /\ DOMAIN requests = Made
      /\ joining'.id = 0 /\ id \in Made /\ t \in Made
      /\ callbacks \in [Id -> SUBSET Id] /\ UrlOf(t) \in Url
  BY <1>0, <1>1, ImageBasics DEF ImageInv, KnownIds, ImageTypeOK, Nobody
<1>3. \A s \in Id : callbacks'[s] = IF s = t THEN callbacks[t] \union {id} ELSE callbacks[s]
  BY <1>1, <1>2
<1>4. ImageTypeOK'
  <2>1. callbacks' \in [Id -> SUBSET Id] /\ late' \subseteq Id
    BY <1>1, <1>2 DEF ImageInv, ImageTypeOK
  <2> QED
    BY <1>1, <2>1 DEF ImageInv, ImageTypeOK
<1>5. KnownIds'
  BY <1>1, <1>2, <1>3 DEF ImageInv, KnownIds, Made
<1>6. ShowsItsRow' /\ RowsAndPins' /\ TableFits'
  BY <1>1 DEF ImageInv, ShowsItsRow, RowsAndPins, TableFits, Made, UrlOf
<1>7. /\ answers[id] = 0 /\ id \notin reading /\ ~Arriving(id)
      /\ \A s \in Id : ~Served(id, s)
  BY <1>0, <1>1, <1>2 DEF ImageInv, ImageTypeOK, OnePlace
<1>8. /\ \A i, s \in Id : Served(i, s)' <=> Served(i, s) \/ (i = id /\ s = t /\ Live(t))
      /\ \A i : Arriving(i)' <=> Arriving(i)
      /\ \A s : Live(s)' <=> Live(s)
  BY <1>1, <1>2, <1>3 DEF Served, Live, Arriving
<1>9. OnePlace'
  <2>1. \A i \in Id : joining'.id # i
    BY <1>2
  <2>2. ASSUME NEW i \in Id, NEW s \in Id, Served(i, s)'
        PROVE  /\ answers[i] = 0 /\ i \notin reading /\ ~Arriving(i)
               /\ \A r \in Id : Served(i, r)' => r = s
    BY <1>7, <1>8, <2>2 DEF ImageInv, OnePlace
  <2> QED
    BY <1>1, <1>8, <2>1, <2>2 DEF ImageInv, OnePlace
<1>10. LostOnlyByLateJoin'
  <2>1. Live(t) \/ id \in late'
    <3>1. ~Live(t) => tasks[UrlOf(t)] # t /\ finishing.task # t
      BY <1>2 DEF ImageInv, TableFits, Live
    <3> QED
      BY <1>1, <3>1 DEF Answered
  <2>2. ASSUME NEW i \in Made PROVE Held(i)' \/ i \in late'
    <3>1. CASE i = id /\ id \notin late'
      <4>1. Served(id, t)'
        BY <1>2, <1>8, <2>1, <3>1
      <4> QED
        BY <1>2, <3>1, <4>1 DEF Held, Served, Live
    <3>2. CASE i # id
      <4>1. Held(i) \/ i \in late
        BY <1>2 DEF ImageInv, LostOnlyByLateJoin
      <4>2. i \in late => i \in late'
        BY <1>1
      <4>3. Held(i) => Held(i)'
        BY <1>0, <1>1, <1>2, <1>3, <3>2 DEF Held
      <4> QED
        BY <4>1, <4>2, <4>3
    <3> QED
      BY <3>1, <3>2
  <2> QED
    BY <1>1, <1>2, <2>2 DEF LostOnlyByLateJoin
<1> QED
  BY <1>4, <1>5, <1>6, <1>9, <1>10 DEF ImageInv

\* A download ends; only a task of the table can have been running.
LEMMA DidCompleteStep ==
  ASSUME ImageInv, Network
  PROVE  ImageInv'
<1>1. PICK t \in running, ok \in BOOLEAN : DidComplete(t, ok)
  BY DEF Network
<1>2. t \in Id /\ t # 0 /\ tasks[UrlOf(t)] = t /\ Made \subseteq Id
  BY ImageBasics DEF ImageInv, KnownIds, TableFits
<1>3. /\ finishing = Nothing /\ finishing.task = 0
      /\ running' = running \ {t}
      /\ finishing' = [task |-> t, ok |-> ok, step |-> "found"]
      /\ UNCHANGED <<requests, todo, joining, image, asked, taskIdentifier, cache, reading, tasks,
                     callbacks, arrived, answers, late>>
  BY <1>1, <1>2 DEF DidComplete, mainVars, Nothing
<1>4. finishing'.task = t /\ finishing'.step = "found"
  BY <1>3
<1>5. ImageTypeOK'
  BY <1>2, <1>3 DEF ImageInv, ImageTypeOK
<1>6. KnownIds' /\ ShowsItsRow' /\ RowsAndPins'
  BY <1>3, <1>4 DEF ImageInv, KnownIds, ShowsItsRow, RowsAndPins, Made, UrlOf
<1>7. TableFits'
  BY <1>2, <1>3, <1>4 DEF ImageInv, TableFits, UrlOf
<1>8. \A s \in Id : Live(s)' <=> Live(s)
  BY <1>2, <1>3, <1>4, ImageBasics DEF Live, ImageInv
<1>9. \A i, s \in Id : Served(i, s)' <=> Served(i, s)
  BY <1>3, <1>8 DEF Served
<1>10. OnePlace'
  BY <1>3, <1>9 DEF ImageInv, OnePlace, Arriving
<1>11. LostOnlyByLateJoin'
  <2>1. \A i : Held(i) => Held(i)'
    BY <1>3, <1>8 DEF Held, Live
  <2> QED
    BY <1>3, <2>1 DEF ImageInv, LostOnlyByLateJoin
<1> QED
  BY <1>5, <1>6, <1>7, <1>10, <1>11 DEF ImageInv

\* The task leaves the table; requests may still join it.
LEMMA RemoveTaskStep ==
  ASSUME ImageInv, RemoveTask
  PROVE  ImageInv'
<1>1. /\ finishing.step = "found"
      /\ tasks' = [tasks EXCEPT ![UrlOf(finishing.task)] = 0]
      /\ finishing' = [finishing EXCEPT !.step = "removed"]
      /\ UNCHANGED <<requests, todo, joining, image, asked, taskIdentifier, cache, reading, callbacks,
                     running, arrived, answers, late>>
  BY DEF RemoveTask, mainVars
<1>2. finishing \in [task : Id, ok : BOOLEAN, step : {"found", "removed"}]
  BY <1>1 DEF ImageInv, ImageTypeOK, Nothing
<1>3. /\ finishing' \in [task : Id, ok : BOOLEAN, step : {"found", "removed"}]
      /\ finishing'.task = finishing.task /\ finishing'.step = "removed"
  BY <1>1, <1>2
<1>4. /\ finishing.task \in Made /\ finishing.task # 0 /\ 0 \notin Id /\ Made \subseteq Id
      /\ \A i \in Made : UrlOf(i) \in Url
  BY <1>2, ImageBasics DEF ImageInv, KnownIds
<1>5. tasks[UrlOf(finishing.task)] = finishing.task
  BY <1>1 DEF ImageInv, TableFits
<1>6. tasks \in [Url -> Id \union {0}]
  BY DEF ImageInv, ImageTypeOK
<1>7. /\ tasks' \in [Url -> Id \union {0}]
      /\ \A u \in Url : tasks'[u] = IF u = UrlOf(finishing.task) THEN 0 ELSE tasks[u]
  BY <1>1, <1>6
<1>8. ImageTypeOK'
  BY <1>1, <1>3, <1>7 DEF ImageInv, ImageTypeOK
<1>9. KnownIds'
  BY <1>1, <1>3, <1>7 DEF ImageInv, KnownIds, Made
<1>10. ShowsItsRow' /\ RowsAndPins'
  BY <1>1 DEF ImageInv, ShowsItsRow, RowsAndPins, Made, UrlOf
<1>11. TableFits'
  <2>1. \A t \in running : t \in Made /\ tasks[UrlOf(t)] = t /\ t # finishing.task
    BY DEF ImageInv, KnownIds, TableFits
  <2>2. \A t \in running : tasks'[UrlOf(t)] = t
    BY <1>4, <1>5, <1>7, <2>1
  <2>3. \A u \in Url : tasks'[u] # 0 =>
          UrlOf(tasks'[u]) = u /\ tasks'[u] \in running
    BY <1>5, <1>7 DEF ImageInv, TableFits
  <2> QED
    BY <1>1, <1>3, <2>2, <2>3 DEF ImageInv, TableFits, UrlOf
<1>12. \A i, s \in Id : Served(i, s)' <=> Served(i, s)
  BY <1>1, <1>3 DEF Served, Live
<1>13. OnePlace'
  BY <1>1, <1>12 DEF ImageInv, OnePlace, Arriving
<1>14. LostOnlyByLateJoin'
  <2>1. \A i : Held(i) => Held(i)'
    BY <1>1, <1>3 DEF Held
  <2> QED
    BY <1>1, <2>1 DEF ImageInv, LostOnlyByLateJoin
<1> QED
  BY <1>8, <1>9, <1>10, <1>11, <1>13, <1>14 DEF ImageInv

\* Whoever has joined the task by now is answered on the main thread.
LEMMA TaskDoneStep ==
  ASSUME ImageInv, TaskDone
  PROVE  ImageInv'
<1>1. PICK t, ok : t = finishing.task /\ ok = finishing.ok
  OBVIOUS
<1>2. /\ finishing.step = "removed" /\ finishing' = Nothing
      /\ arrived' = arrived \union {[id |-> id, ok |-> ok] : id \in callbacks[t]}
      /\ UNCHANGED <<requests, todo, joining, image, asked, taskIdentifier, cache, reading, tasks,
                     callbacks, running, answers, late>>
  BY <1>1 DEF TaskDone, mainVars
<1>3. finishing \in [task : Id, ok : BOOLEAN, step : {"found", "removed"}]
  BY <1>2 DEF ImageInv, ImageTypeOK, Nothing
<1>4. /\ t \in Id /\ t # 0 /\ ok \in BOOLEAN /\ 0 \notin Id /\ Made \subseteq Id
      /\ callbacks[t] \subseteq Made
  BY <1>1, <1>3, ImageBasics DEF ImageInv, KnownIds
<1>5. finishing'.task = 0 /\ finishing'.step = "idle"
  BY <1>2 DEF Nothing
<1>6. /\ \A a \in arrived' : a \in arrived \/ (a.id \in callbacks[t] /\ a = [id |-> a.id, ok |-> ok])
      /\ \A i : Arriving(i)' <=> Arriving(i) \/ i \in callbacks[t]
  <2>1. \A i \in callbacks[t] : [id |-> i, ok |-> ok] \in arrived' /\ [id |-> i, ok |-> ok].id = i
    BY <1>2
  <2>2. \A a \in arrived' : a \in arrived \/ (a.id \in callbacks[t] /\ a = [id |-> a.id, ok |-> ok])
    BY <1>2
  <2> QED
    BY <1>2, <2>1, <2>2 DEF Arriving
<1>7. ImageTypeOK'
  <2>1. arrived' \subseteq [id : Id, ok : BOOLEAN]
    <3> SUFFICES ASSUME NEW a \in arrived' PROVE a \in [id : Id, ok : BOOLEAN]
      OBVIOUS
    <3>1. CASE a \in arrived
      BY <3>1 DEF ImageInv, ImageTypeOK
    <3>2. CASE a.id \in callbacks[t] /\ a = [id |-> a.id, ok |-> ok]
      <4>1. PICK i \in Id : a = [id |-> i, ok |-> ok]
        BY <1>4, <3>2
      <4> QED
        BY <1>4, <4>1
    <3> QED
      BY <1>6, <3>1, <3>2
  <2> QED
    BY <1>2, <2>1 DEF ImageInv, ImageTypeOK
<1>8. KnownIds'
  BY <1>2, <1>4, <1>5, <1>6 DEF ImageInv, KnownIds, Made
<1>9. ShowsItsRow' /\ RowsAndPins'
  BY <1>2 DEF ImageInv, ShowsItsRow, RowsAndPins, Made, UrlOf
<1>10. TableFits'
  <2>1. \A u \in Url : tasks[u] # 0 => tasks[u] \in running
    BY <1>2 DEF ImageInv, TableFits
  <2>2. 0 \notin running
    BY <1>4 DEF ImageInv, KnownIds
  <2> QED
    BY <1>2, <1>5, <2>1, <2>2 DEF ImageInv, TableFits, UrlOf
<1>11. /\ Live(t) /\ t \notin running
       /\ \A s \in Id : Live(s)' <=> Live(s) /\ s # t
  BY <1>1, <1>2, <1>4, <1>5 DEF ImageInv, TableFits, Live
<1>12. \A i, s \in Id : Served(i, s)' <=> Served(i, s) /\ s # t
  BY <1>2, <1>11 DEF Served
<1>13. \A i \in callbacks[t] :
         /\ answers[i] = 0 /\ i \notin reading /\ joining.id # i /\ ~Arriving(i)
         /\ \A s \in Id : ~Served(i, s)'
  <2>1. \A i \in callbacks[t] : i \in Id /\ Served(i, t)
    BY <1>4, <1>11 DEF Served
  <2> QED
    BY <1>4, <1>12, <2>1 DEF ImageInv, OnePlace
<1>14. OnePlace'
  <2>1. \A a, b \in arrived' : a.id = b.id => a = b
    <3>1. \A a \in arrived : a.id \notin callbacks[t]
      BY <1>13 DEF Arriving
    <3> QED
      BY <1>6, <3>1 DEF ImageInv, OnePlace
  <2>2. \A i \in Id :
          /\ answers[i] <= 1
          /\ answers[i] > 0 => i \notin reading /\ joining.id # i /\ ~Arriving(i)'
          /\ i \in reading => joining.id # i /\ ~Arriving(i)'
          /\ joining.id = i => ~Arriving(i)'
    BY <1>6, <1>13 DEF ImageInv, OnePlace
  <2>3. \A i, s \in Id : Served(i, s)' =>
          /\ answers[i] = 0 /\ i \notin reading /\ joining.id # i /\ ~Arriving(i)'
          /\ \A r \in Id : Served(i, r)' => r = s
    BY <1>6, <1>12, <1>13 DEF ImageInv, OnePlace
  <2> QED
    BY <1>2, <2>1, <2>2, <2>3 DEF OnePlace
<1>15. LostOnlyByLateJoin'
  <2>1. \A i : Held(i) => Held(i)'
    BY <1>1, <1>2, <1>6, <1>11 DEF Held, Live, Arriving
  <2> QED
    BY <1>2, <2>1 DEF ImageInv, LostOnlyByLateJoin
<1> QED
  BY <1>7, <1>8, <1>9, <1>10, <1>14, <1>15 DEF ImageInv

\* The request that is made next is a new one, and what was asked before stays.
LEMMA NewRequest ==
  ASSUME ImageInv, todo # <<>>, joining = Nobody,
         requests' = Append(requests, Head(todo)), todo' = Tail(todo),
         NEW v, NEW u, NEW id, v = Head(todo).view, u = Head(todo).url, id = Len(requests) + 1
  PROVE  /\ v \in View /\ u \in Url /\ id \in Id /\ id \notin Made /\ id # 0
         /\ v \in Marker => u = pinURL[v]
         /\ Made' = Made \union {id} /\ DOMAIN requests' = Made'
         /\ \A i \in Made : requests'[i] = requests[i]
         /\ requests'[id].view = v /\ requests'[id].url = u
         /\ \A i \in 1..Len(todo') : i + 1 \in 1..Len(todo) /\ todo'[i] = todo[i + 1]
         /\ Len(requests') + Len(todo') <= MaxRequests /\ Len(requests') <= MaxRequests
         /\ requests' \in Seq([view : View, url : Url]) /\ todo' \in Seq([view : View, url : Url])
         /\ answers[id] = 0 /\ id \notin reading /\ id \notin running /\ ~Arriving(id)
         /\ finishing.task # id /\ joining.id = 0
         /\ \A t \in Id : id \notin callbacks[t]
         /\ \A i \in Made : i \in Id /\ i # id
<1> DEFINE T == [view : View, url : Url]
<1>1. requests \in Seq(T) /\ todo \in Seq(T) /\ Len(requests) + Len(todo) <= MaxRequests
  BY DEF ImageInv, ImageTypeOK, KnownIds
<1>2. \A r \in T : r.view \in View /\ r.url \in Url
  OBVIOUS
<1> HIDE DEF T
<1>3. /\ Head(todo) \in T /\ Head(todo) = todo[1] /\ Len(todo) \in Nat \ {0}
      /\ Tail(todo) \in Seq(T) /\ Len(Tail(todo)) = Len(todo) - 1
      /\ \A i \in 1..Len(Tail(todo)) : Tail(todo)[i] = todo[i + 1]
  BY <1>1, HeadTailProperties
<1>4. /\ requests' \in Seq(T) /\ Len(requests) \in Nat /\ Len(requests') = id
      /\ \A i \in 1..Len(requests) : requests'[i] = requests[i]
      /\ requests'[id] = Head(todo)
  BY <1>1, <1>3, AppendProperties
<1>5. MaxRequests \in Nat
  BY ImageAssumption
<1>6. id \in Id /\ id \notin Made /\ id # 0 /\ \A i \in Made : i \in Id /\ i # id
  BY <1>1, <1>3, <1>4, <1>5 DEF Id, Made
<1>7. Made' = Made \union {id} /\ DOMAIN requests' = Made'
  BY <1>4, LenProperties DEF Made
<1>8. v \in Marker => u = pinURL[v]
  BY <1>3 DEF ImageInv, RowsAndPins
<1>9. /\ \A i \in 1..Len(todo') : i + 1 \in 1..Len(todo) /\ todo'[i] = todo[i + 1]
      /\ Len(requests') + Len(todo') <= MaxRequests /\ Len(requests') <= MaxRequests
  BY <1>1, <1>3, <1>4, <1>5
<1>10. /\ answers[id] = 0 /\ id \notin reading /\ id \notin running /\ ~Arriving(id)
       /\ finishing.task # id /\ joining.id = 0
       /\ \A t \in Id : id \notin callbacks[t]
  BY <1>6 DEF ImageInv, KnownIds, Arriving, Nobody
<1> QED
  BY <1>2, <1>3, <1>4, <1>6, <1>7, <1>8, <1>9, <1>10 DEF Made, T

\* A view that asks anew shows nothing of another row, and the cell waits for the
\* new request, if at all.
LEMMA RequestShows ==
  ASSUME ImageInv, todo # <<>>, joining = Nobody,
         requests' = Append(requests, Head(todo)), todo' = Tail(todo),
         NEW v, NEW u, NEW id, v = Head(todo).view, u = Head(todo).url, id = Len(requests) + 1,
         asked' = [asked EXCEPT ![v] = u],
         NEW x \in {id, 0}, NEW z,
         v \in Cell => /\ z \in {"blank", u}
                       /\ taskIdentifier' = [taskIdentifier EXCEPT ![v] = x]
                       /\ image' = [image EXCEPT ![v] = z],
         v \notin Cell => /\ z \in {image[v], u}
                          /\ taskIdentifier' = taskIdentifier
                          /\ image' = [image EXCEPT ![v] = z]
  PROVE  /\ asked' \in [View -> Url \union {NoUrl}]
         /\ image' \in [View -> Url \union {"blank", "black"}]
         /\ taskIdentifier' \in [Cell -> Id \union {0}]
         /\ \A c \in Cell : taskIdentifier'[c] \in Made' \union {0}
         /\ ShowsItsRow' /\ RowsAndPins'
<1>1. /\ v \in View /\ u \in Url /\ id \in Id /\ id \notin Made /\ id # 0
      /\ v \in Marker => u = pinURL[v]
      /\ Made' = Made \union {id}
      /\ \A i \in Made : requests'[i] = requests[i]
      /\ requests'[id].view = v /\ requests'[id].url = u
      /\ \A i \in 1..Len(todo') : i + 1 \in 1..Len(todo) /\ todo'[i] = todo[i + 1]
  BY NewRequest
<1>2. /\ asked \in [View -> Url \union {NoUrl}]
      /\ image \in [View -> Url \union {"blank", "black"}]
      /\ taskIdentifier \in [Cell -> Id \union {0}]
      /\ \A c \in Cell : taskIdentifier[c] \in Made \union {0}
  BY DEF ImageInv, ImageTypeOK, KnownIds
<1>3. v \in Cell => v \notin Marker
  BY ImageAssumption
<1>4. /\ \A w \in View : asked'[w] = IF w = v THEN u ELSE asked[w]
      /\ \A w \in View : image'[w] = IF w = v THEN z ELSE image[w]
      /\ \A c \in Cell : taskIdentifier'[c] = IF c = v THEN x ELSE taskIdentifier[c]
      /\ asked' \in [View -> Url \union {NoUrl}]
      /\ image' \in [View -> Url \union {"blank", "black"}]
      /\ taskIdentifier' \in [Cell -> Id \union {0}]
  BY <1>1, <1>2
<1>5. \A c \in Cell : taskIdentifier'[c] \in Made' \union {0}
  BY <1>1, <1>2, <1>4
<1>6. v \notin Cell => (z \notin {"blank", "black"} => z = u)
  BY <1>1 DEF ImageInv, RowsAndPins, View
<1>7. ShowsItsRow'
  BY <1>1, <1>4, <1>6 DEF ImageInv, ShowsItsRow
<1>8. RowsAndPins'
  <2>1. \A c \in Cell : taskIdentifier'[c] # 0 =>
          /\ requests'[taskIdentifier'[c]].view = c
          /\ requests'[taskIdentifier'[c]].url = asked'[c]
    <3> SUFFICES ASSUME NEW c \in Cell, taskIdentifier'[c] # 0
                 PROVE  /\ requests'[taskIdentifier'[c]].view = c
                        /\ requests'[taskIdentifier'[c]].url = asked'[c]
      OBVIOUS
    <3>1. CASE c = v
      BY <1>1, <1>4, <3>1 DEF View
    <3>2. CASE c # v
      <4>1. taskIdentifier'[c] = taskIdentifier[c] /\ asked'[c] = asked[c]
        BY <1>4, <3>2 DEF View
      <4>2. taskIdentifier[c] \in Made
        BY <1>2, <4>1
      <4>3. requests[taskIdentifier[c]].view = c /\ requests[taskIdentifier[c]].url = asked[c]
        BY <4>1 DEF ImageInv, RowsAndPins, UrlOf
      <4> QED
        BY <1>1, <4>1, <4>2, <4>3
    <3> QED
      BY <3>1, <3>2
  <2>2. \A i \in Made' : requests'[i].view \in Marker =>
          /\ requests'[i].url = pinURL[requests'[i].view]
          /\ asked'[requests'[i].view] = pinURL[requests'[i].view]
    <3> SUFFICES ASSUME NEW i \in Made', requests'[i].view \in Marker
                 PROVE  /\ requests'[i].url = pinURL[requests'[i].view]
                        /\ asked'[requests'[i].view] = pinURL[requests'[i].view]
      OBVIOUS
    <3>1. CASE i = id
      BY <1>1, <1>4, <3>1
    <3>2. CASE i \in Made
      <4>1. requests'[i] = requests[i]
        BY <1>1, <3>2
      <4>2. /\ requests[i].url = pinURL[requests[i].view]
            /\ asked[requests[i].view] = pinURL[requests[i].view]
        BY <3>2, <4>1 DEF ImageInv, RowsAndPins, UrlOf
      <4>3. asked'[requests[i].view] \in {asked[requests[i].view], pinURL[requests[i].view]}
        BY <1>1, <1>4, <4>1 DEF View
      <4> QED
        BY <4>1, <4>2, <4>3
    <3> QED
      BY <1>1, <3>1, <3>2
  <2>3. \A i \in 1..Len(todo') : todo'[i].view \in Marker => todo'[i].url = pinURL[todo'[i].view]
    BY <1>1 DEF ImageInv, RowsAndPins
  <2>4. \A m \in Marker : image'[m] \notin {"blank", "black"} =>
          image'[m] = pinURL[m] /\ asked'[m] = pinURL[m]
    BY <1>1, <1>3, <1>4, <1>6 DEF ImageInv, RowsAndPins, View
  <2> QED
    BY <2>1, <2>2, <2>3, <2>4 DEF RowsAndPins, UrlOf
<1> QED
  BY <1>4, <1>5, <1>7, <1>8

\* A request is made: answered from memory, read from disk, or downloaded, by a
\* task of its own or by the one that is in the table.
LEMMA RetrieveStep ==
  ASSUME ImageInv, RetrieveImage
  PROVE  ImageInv'
<1>1. PICK v, u, id : v = Head(todo).view /\ u = Head(todo).url /\ id = Len(requests) + 1
  OBVIOUS
<1> DEFINE identifier == IF v \in Cell THEN [taskIdentifier EXCEPT ![v] = id] ELSE taskIdentifier
           shown == IF v \in Cell THEN [image EXCEPT ![v] = "blank"] ELSE image
<1>2. /\ todo # <<>> /\ joining = Nobody
      /\ requests' = Append(requests, Head(todo)) /\ todo' = Tail(todo)
      /\ asked' = [asked EXCEPT ![v] = u]
      /\ UNCHANGED <<cache, arrived, late>>
      /\ IF cache[u] = "memory" THEN Complete(v, u, id, TRUE, identifier, shown)
           ELSE taskIdentifier' = identifier /\ image' = shown /\ UNCHANGED answers
      /\ reading' = IF cache[u] = "disk" THEN reading \union {id} ELSE reading
      /\ IF cache[u] = "none" THEN DownloadImage(id, u) ELSE UNCHANGED <<joining, netVars>>
  BY <1>1 DEF RetrieveImage
<1>2a. /\ todo # <<>> /\ joining = Nobody
      /\ requests' = Append(requests, Head(todo)) /\ todo' = Tail(todo)
  BY <1>2
<1>3. /\ v \in View /\ u \in Url /\ id \in Id /\ id \notin Made /\ id # 0
      /\ Made' = Made \union {id} /\ DOMAIN requests' = Made'
      /\ \A i \in Made : requests'[i] = requests[i]
      /\ requests'[id].view = v /\ requests'[id].url = u
      /\ Len(requests') + Len(todo') <= MaxRequests /\ Len(requests') <= MaxRequests
      /\ answers[id] = 0 /\ id \notin reading /\ id \notin running /\ ~Arriving(id)
      /\ finishing.task # id /\ joining.id = 0
      /\ \A t \in Id : id \notin callbacks[t]
      /\ \A i \in Made : i \in Id /\ i # id
  BY <1>1, <1>2a, NewRequest
<1>3a. requests' \in Seq([view : View, url : Url]) /\ todo' \in Seq([view : View, url : Url])
  BY <1>1, <1>2a, NewRequest, Zenon
<1>4. /\ image \in [View -> Url \union {"blank", "black"}]
      /\ taskIdentifier \in [Cell -> Id \union {0}]
      /\ answers \in [Id -> Nat] /\ tasks \in [Url -> Id \union {0}]
      /\ callbacks \in [Id -> SUBSET Id] /\ running \subseteq Id /\ reading \subseteq Id
      /\ cache[u] \in {"none", "disk", "memory"}
  BY <1>3 DEF ImageInv, ImageTypeOK
<1>5. /\ asked' \in [View -> Url \union {NoUrl}]
      /\ image' \in [View -> Url \union {"blank", "black"}]
      /\ taskIdentifier' \in [Cell -> Id \union {0}]
      /\ \A c \in Cell : taskIdentifier'[c] \in Made' \union {0}
      /\ ShowsItsRow' /\ RowsAndPins'
  <2>1. CASE v \in Cell /\ cache[u] = "memory"
    <3>1. identifier = [taskIdentifier EXCEPT ![v] = id] /\ shown = [image EXCEPT ![v] = "blank"]
      BY <2>1
    <3>2. identifier[v] = id
      BY <1>4, <2>1, <3>1
    <3>3. taskIdentifier' = [identifier EXCEPT ![v] = 0] /\ image' = [shown EXCEPT ![v] = u]
      BY <1>2, <2>1, <3>2 DEF Complete
    <3>4. taskIdentifier' = [taskIdentifier EXCEPT ![v] = 0] /\ image' = [image EXCEPT ![v] = u]
      BY <1>3, <1>4, <2>1, <3>1, <3>3
    <3> QED
      BY <1>1, <1>2, <2>1, <3>4, RequestShows
  <2>2. CASE v \in Cell /\ cache[u] # "memory"
    <3>1. taskIdentifier' = [taskIdentifier EXCEPT ![v] = id] /\ image' = [image EXCEPT ![v] = "blank"]
      BY <1>2, <2>2
    <3> QED
      BY <1>1, <1>2, <2>2, <3>1, RequestShows
  <2>3. CASE v \notin Cell /\ cache[u] = "memory"
    <3>1. taskIdentifier' = taskIdentifier /\ image' = [image EXCEPT ![v] = u]
      BY <1>2, <2>3 DEF Complete
    <3> QED
      BY <1>1, <1>2, <2>3, <3>1, RequestShows
  <2>4. CASE v \notin Cell /\ cache[u] # "memory"
    <3>1. taskIdentifier' = taskIdentifier /\ image' = [image EXCEPT ![v] = image[v]]
      BY <1>2, <1>4, <2>4
    <3> QED
      BY <1>1, <1>2, <2>4, <3>1, RequestShows
  <2> QED
    BY <2>1, <2>2, <2>3, <2>4
<1> HIDE DEF identifier, shown
<1>6. \A i \in Made : requests'[i].url = UrlOf(i)
  BY <1>3 DEF UrlOf
<1>7. /\ reading \subseteq Made /\ running \subseteq Made
      /\ finishing.task \in Made \union {0} /\ \A w \in Url : tasks[w] \in Made \union {0}
      /\ \A t \in Id : callbacks[t] \subseteq Made
      /\ \A a \in arrived : a.id \in Made
      /\ \A i \in Id \ Made : answers[i] = 0
  BY DEF ImageInv, KnownIds
<1>8. /\ \A i : Arriving(i)' <=> Arriving(i)
      /\ \A i \in Made : Held(i) \/ i \in late
      /\ \A i \in Id : joining.id # i
  BY <1>2, <1>3, ImageBasics DEF Arriving, ImageInv, LostOnlyByLateJoin
<1>9. CASE cache[u] \in {"memory", "disk"}
  <2>1. /\ UNCHANGED <<joining, tasks, callbacks, running, finishing>>
        /\ \/ answers' = [answers EXCEPT ![id] = @ + 1] /\ reading' = reading
           \/ answers' = answers /\ reading' = reading \union {id}
    BY <1>2, <1>9 DEF Complete, netVars
  <2>2. /\ \A i \in Id : i # id => answers'[i] = answers[i] /\ (i \in reading' <=> i \in reading)
        /\ answers' \in [Id -> Nat] /\ reading' \subseteq Made' /\ answers'[id] <= 1
        /\ answers'[id] > 0 <=> id \notin reading'
    BY <1>3, <1>4, <1>7, <2>1
  <2>3. ImageTypeOK'
    BY <1>2, <1>3, <1>3a, <1>5, <2>1, <2>2 DEF ImageInv, ImageTypeOK
  <2>4. KnownIds'
    BY <1>2, <1>3, <1>5, <1>7, <2>1, <2>2 DEF ImageInv, KnownIds
  <2>5. TableFits'
    <3>1. /\ \A t \in running : requests'[t].url = UrlOf(t)
          /\ \A w \in Url : tasks[w] # 0 => requests'[tasks[w]].url = UrlOf(tasks[w])
          /\ finishing.step = "found" => requests'[finishing.task].url = UrlOf(finishing.task)
      <4>1. finishing.step = "found" => finishing.task # 0
        BY ImageBasics DEF ImageInv
      <4> QED
        BY <1>6, <1>7, <4>1
    <3> QED
      BY <2>1, <3>1 DEF ImageInv, TableFits, UrlOf
  <2>6. \A i, t : Served(i, t)' <=> Served(i, t)
    BY <2>1 DEF Served, Live
  <2>7. \A t \in Id : ~Served(id, t)
    BY <1>3 DEF Served
  <2>8. OnePlace'
    BY <1>2, <1>3, <1>8, <2>1, <2>2, <2>6, <2>7 DEF ImageInv, OnePlace
  <2>9. LostOnlyByLateJoin'
    <3>1. \A i \in Made : Held(i) => Held(i)'
      BY <1>2, <1>3, <2>1, <2>2 DEF Held
    <3>2. Held(id)'
      BY <1>3, <2>2 DEF Held
    <3> QED
      BY <1>2, <1>3, <1>8, <3>1, <3>2 DEF LostOnlyByLateJoin
  <2> QED
    BY <1>5, <2>3, <2>4, <2>5, <2>8, <2>9 DEF ImageInv
<1>10. CASE cache[u] = "none" /\ tasks[u] = 0
  <2>1. /\ tasks' = [tasks EXCEPT ![u] = id] /\ callbacks' = [callbacks EXCEPT ![id] = {id}]
        /\ running' = running \union {id}
        /\ UNCHANGED <<joining, finishing, answers, reading>>
    BY <1>2, <1>10 DEF DownloadImage
  <2>2. /\ \A w \in Url : tasks'[w] = IF w = u THEN id ELSE tasks[w]
        /\ \A t \in Id : callbacks'[t] = IF t = id THEN {id} ELSE callbacks[t]
        /\ tasks' \in [Url -> Id \union {0}] /\ callbacks' \in [Id -> SUBSET Id]
    BY <1>3, <1>4, <2>1
  <2>3. ImageTypeOK'
    BY <1>2, <1>3, <1>3a, <1>5, <2>1, <2>2 DEF ImageInv, ImageTypeOK
  <2>4. KnownIds'
    BY <1>2, <1>3, <1>5, <1>7, <2>1, <2>2 DEF ImageInv, KnownIds
  <2>5. TableFits'
    <3>1. \A t \in running : requests'[t].url = UrlOf(t) /\ UrlOf(t) # u /\ UrlOf(t) \in Url /\ tasks[UrlOf(t)] = t
      <4>1. \A t \in Made : UrlOf(t) \in Url
        BY ImageBasics DEF ImageInv
      <4>2. 0 \notin running
        BY <1>4 DEF Id
      <4> QED
        BY <1>6, <1>7, <1>10, <4>1, <4>2 DEF ImageInv, TableFits
    <3>2. requests'[id].url = u
      BY <1>3
    <3>3. \A t \in running' : tasks'[requests'[t].url] = t
      BY <1>3, <2>1, <2>2, <3>1, <3>2
    <3>4. \A w \in Url : tasks'[w] # 0 =>
            /\ requests'[tasks'[w]].url = w
            /\ tasks'[w] \in running' \/ (finishing.task = tasks'[w] /\ finishing.step = "found")
      <4> SUFFICES ASSUME NEW w \in Url, NEW t, t = tasks'[w], t # 0
                   PROVE  /\ requests'[t].url = w
                          /\ t \in running' \/ (finishing.task = t /\ finishing.step = "found")
        OBVIOUS
      <4>1. CASE w = u
        BY <2>1, <2>2, <3>2, <4>1
      <4>2. CASE w # u
        <5>1. t = tasks[w] /\ t \in Made
          BY <1>7, <2>2, <4>2
        <5> QED
          BY <1>6, <2>1, <5>1 DEF ImageInv, TableFits
      <4> QED
        BY <4>1, <4>2
    <3>5. finishing.task \notin running'
      BY <1>3, <2>1 DEF ImageInv, TableFits
    <3>6. finishing.step = "found" => tasks'[requests'[finishing.task].url] = finishing.task
      <4> SUFFICES ASSUME finishing.step = "found" PROVE tasks'[requests'[finishing.task].url] = finishing.task
        OBVIOUS
      <4>1. finishing.task \in Made /\ finishing.task # 0 /\ UrlOf(finishing.task) \in Url
        <5>1. finishing.task # 0
          BY ImageBasics DEF ImageInv
        <5> QED
          BY <1>7, <5>1, ImageBasics DEF ImageInv
      <4>2. tasks[UrlOf(finishing.task)] = finishing.task
        BY DEF ImageInv, TableFits
      <4>3. UrlOf(finishing.task) # u
        BY <1>10, <4>1, <4>2
      <4>4. requests'[finishing.task].url = UrlOf(finishing.task)
        BY <1>3, <4>1 DEF UrlOf
      <4> QED
        BY <2>1, <2>2, <4>1, <4>2, <4>3, <4>4 DEF UrlOf
    <3> QED
      BY <2>1, <3>3, <3>4, <3>5, <3>6 DEF TableFits, UrlOf
  <2>6. /\ \A t \in Id : Live(t)' <=> Live(t) \/ t = id
        /\ ~Live(id)
    BY <1>3, <2>1 DEF Live
  <2>7. \A i, t \in Id : Served(i, t)' <=> Served(i, t) \/ (i = id /\ t = id)
    BY <1>3, <2>2, <2>6 DEF Served
  <2>8. OnePlace'
    <3>1. \A t \in Id : ~Served(id, t)
      BY <1>3 DEF Served
    <3>2. \A i, t \in Id : Served(i, t)' =>
            /\ answers[i] = 0 /\ i \notin reading /\ joining.id # i /\ ~Arriving(i)'
            /\ \A s \in Id : Served(i, s)' => s = t
      BY <1>3, <1>8, <2>7, <3>1 DEF ImageInv, OnePlace
    <3> QED
      BY <1>2, <1>8, <2>1, <3>2 DEF ImageInv, OnePlace
  <2>9. LostOnlyByLateJoin'
    <3>1. \A i \in Made : Held(i) => Held(i)'
      BY <1>2, <1>3, <2>1, <2>2, <2>6 DEF Held, Live
    <3>2. Held(id)'
      BY <1>3, <2>1, <2>2 DEF Held
    <3> QED
      BY <1>2, <1>3, <1>8, <3>1, <3>2 DEF LostOnlyByLateJoin
  <2> QED
    BY <1>5, <2>3, <2>4, <2>5, <2>8, <2>9 DEF ImageInv
<1>11. CASE cache[u] = "none" /\ tasks[u] # 0
  <2>1. /\ joining' = [id |-> id, task |-> tasks[u]]
        /\ UNCHANGED <<tasks, callbacks, running, finishing, answers, reading>>
    BY <1>2, <1>11 DEF DownloadImage
  <2>2. tasks[u] \in Made /\ joining'.id = id /\ joining'.task = tasks[u]
    BY <1>3, <1>7, <1>11, <2>1
  <2>3. ImageTypeOK'
    BY <1>2, <1>3, <1>3a, <1>5, <2>1, <2>2 DEF ImageInv, ImageTypeOK
  <2>4. KnownIds'
    BY <1>2, <1>3, <1>5, <1>7, <2>1, <2>2 DEF ImageInv, KnownIds
  <2>5. TableFits'
    <3>1. /\ \A t \in running : requests'[t].url = UrlOf(t)
          /\ \A w \in Url : tasks[w] # 0 => requests'[tasks[w]].url = UrlOf(tasks[w])
          /\ finishing.step = "found" => requests'[finishing.task].url = UrlOf(finishing.task)
      <4>1. finishing.step = "found" => finishing.task # 0
        BY ImageBasics DEF ImageInv
      <4> QED
        BY <1>6, <1>7, <4>1
    <3> QED
      BY <2>1, <3>1 DEF ImageInv, TableFits, UrlOf
  <2>6. \A i, t : Served(i, t)' <=> Served(i, t)
    BY <2>1 DEF Served, Live
  <2>7. \A t \in Id : ~Served(id, t)
    BY <1>3 DEF Served
  <2>8. OnePlace'
    BY <1>2, <1>3, <1>8, <2>1, <2>2, <2>6, <2>7 DEF ImageInv, OnePlace
  <2>9. LostOnlyByLateJoin'
    <3>1. \A i \in Made : Held(i) => Held(i)'
      BY <1>2, <1>3, <1>8, <2>1 DEF Held
    <3>2. Held(id)'
      BY <2>2 DEF Held
    <3> QED
      BY <1>2, <1>3, <1>8, <3>1, <3>2 DEF LostOnlyByLateJoin
  <2> QED
    BY <1>5, <2>3, <2>4, <2>5, <2>8, <2>9 DEF ImageInv
<1> QED
  BY <1>4, <1>9, <1>10, <1>11

\* With no request made, the table is empty.
LEMMA ImageInit ==
  ASSUME Init
  PROVE  ImageInv
<1> USE DEF Init
<1>1. requests = <<>> /\ todo = <<>> /\ Len(requests) = 0 /\ Len(todo) = 0
  OBVIOUS
<1>2. /\ MaxRequests \in Nat /\ Id \subseteq Nat \ {0} /\ Made = {} /\ DOMAIN requests = {}
  BY <1>1, ImageAssumption DEF Id, Made
<1>3. finishing.task = 0 /\ finishing.step = "idle" /\ joining.id = 0
  BY DEF Nothing, Nobody
<1>4. ImageTypeOK
  <2>1. cache \in [Url -> {"none", "disk", "memory"}]
    OBVIOUS
  <2>2. requests \in Seq([view : View, url : Url]) /\ todo \in Seq([view : View, url : Url])
    BY <1>1
  <2> QED
    BY <1>1, <1>2, <2>1, <2>2 DEF ImageTypeOK
<1>5. KnownIds
  BY <1>1, <1>2, <1>3 DEF KnownIds
<1>6. ShowsItsRow
  BY DEF ShowsItsRow
<1>7. RowsAndPins
  BY <1>1, <1>2 DEF RowsAndPins, View
<1>8. TableFits /\ LostOnlyByLateJoin
  BY <1>2, <1>3 DEF TableFits, LostOnlyByLateJoin
<1>9. OnePlace
  BY <1>2, <1>3 DEF OnePlace, Served, Arriving
<1> QED
  BY <1>4, <1>5, <1>6, <1>7, <1>8, <1>9 DEF ImageInv

\* A step of the app, of Kingfisher or of the network keeps the invariant.
LEMMA ImageStep ==
  ASSUME ImageInv, Next \/ UNCHANGED vars
  PROVE  ImageInv'
BY AskStep, ForgetStep, JoinStep, AnswerStep, DidCompleteStep, RemoveTaskStep, TaskDoneStep, RetrieveStep
   DEF Next, MainThread, DelegateQueue

\* No view ever shows the image of another row, whatever the order in which images
\* come; a request is answered at most once, no URL is downloaded twice at a time,
\* and the late join is the only way to lose a request (ImageSafety of
\* ImageLoading), for any views, URLs and number of requests.
THEOREM ImagesAreSafe == PartsSpec => []ImageSafety
<1>1. PartsInit => ImageInv
  BY ImageInit DEF PartsInit
<1>2. ImageInv /\ [PartsNext]_partsVars => ImageInv'
  BY ImageStep, PartsStep
<1>3. ImageInv => ImageSafety
  <2> SUFFICES ASSUME ImageInv PROVE SharedDownloads
    BY DEF ImageInv, ImageSafety
  <2>1. \A s, t \in running : UrlOf(s) = UrlOf(t) => s = t
    BY DEF ImageInv, TableFits
  <2> QED
    BY <2>1 DEF ImageInv, OnePlace, SharedDownloads
<1> QED
  BY <1>1, <1>2, <1>3, PTL DEF PartsSpec
-----------------------------------------------------------------------------
=============================================================================
