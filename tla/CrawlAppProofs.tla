---------------------------- MODULE CrawlAppProofs ----------------------------
(***************************************************************************)
(* Proofs about CrawlApp and the Catalog it extends: what the loops of the *)
(* lookups return for every array of references, that the sheets of the    *)
(* app are those of BottomSheets, and the inductive invariant behind what  *)
(* the sheets show and where the camera is.                                *)
(***************************************************************************)
EXTENDS CrawlApp, SequenceTheorems, FiniteSetTheorems, WellFoundedInduction, TLAPS

-----------------------------------------------------------------------------
(* What the loop of a lookup returns *)

\* Induction over the natural numbers, for a set.
LEMMA Induction ==
  ASSUME NEW S, 0 \in S, \A n \in Nat : n \in S => n + 1 \in S
  PROVE  \A n \in Nat : n \in S
<1> DEFINE T == {n \in Nat : n \notin S}
<1> SUFFICES ASSUME T # {} PROVE FALSE
  BY Zenon
<1>1. PICK n \in T : \A m \in T : ~(<<m, n>> \in OpToRel(<, Nat))
  BY WFMin, NatLessThanWellFounded
<1>2. n \in Nat /\ n \notin S
  OBVIOUS
<1> HIDE DEF T
<1>3. n - 1 \in Nat /\ n - 1 < n /\ (n - 1) + 1 = n
  BY <1>2
<1>4. n - 1 \notin T
  BY <1>1, <1>2, <1>3 DEF OpToRel
<1>5. n - 1 \in S
  BY <1>3, <1>4 DEF T
<1> QED
  BY <1>2, <1>3, <1>5

\* One round of the loop, from the array f[i - 1] after the rounds before.
Round(f, refs, loaded, i) ==
  IF i = 0 THEN <<>>
  ELSE IF refs[i] \in loaded THEN Append(f[i - 1], refs[i])
  ELSE f[i - 1]

\* f has the arrays of the first n rounds.
Rounds(f, refs, loaded, n) == f = [i \in 0..n |-> Round(f, refs, loaded, i)]

\* The loop ends, after any number of rounds.
LEMMA LoopRuns ==
  ASSUME NEW refs, NEW loaded
  PROVE  \A n \in Nat : \E f : Rounds(f, refs, loaded, n)
<1> DEFINE S == {n \in Nat : \E f : Rounds(f, refs, loaded, n)}
<1>1. 0 \in S
  <2> DEFINE g == [i \in 0..0 |-> <<>>]
  <2>1. Rounds(g, refs, loaded, 0)
    BY DEF Rounds, Round
  <2> QED
    BY <2>1, Zenon
<1>2. ASSUME NEW n \in Nat, n \in S PROVE n + 1 \in S
  <2>1. PICK f : Rounds(f, refs, loaded, n)
    BY <1>2
  <2> DEFINE g == [i \in 0..(n + 1) |-> IF i \leq n THEN f[i] ELSE Round(f, refs, loaded, i)]
  <2>2. ASSUME NEW i \in 0..(n + 1) PROVE g[i] = Round(g, refs, loaded, i)
    <3>1. i # 0 => g[i - 1] = f[i - 1]
      OBVIOUS
    <3>2. g[i] = Round(f, refs, loaded, i)
      BY <2>1 DEF Rounds
    <3> QED
      BY <3>1, <3>2 DEF Round
  <2>3. g = [i \in 0..(n + 1) |-> g[i]]
    OBVIOUS
  <2> HIDE DEF g
  <2>4. Rounds(g, refs, loaded, n + 1)
    BY <2>2, <2>3 DEF Rounds
  <2> QED
    BY <2>4
<1> HIDE DEF S
<1>3. \A n \in Nat : n \in S
  BY <1>1, <1>2, Induction
<1> QED
  BY <1>3 DEF S

\* Found is the array after the last round.
LEMMA FoundIsLast ==
  ASSUME NEW refs, NEW loaded, Len(refs) \in Nat
  PROVE  \E f : Rounds(f, refs, loaded, Len(refs)) /\ Found(refs, loaded) = f[Len(refs)]
<1> DEFINE g == CHOOSE f : Rounds(f, refs, loaded, Len(refs))
<1>1. Rounds(g, refs, loaded, Len(refs))
  BY LoopRuns, Zenon
<1>2. Found(refs, loaded) = g[Len(refs)]
  BY Zenon DEF Found, Rounds, Round
<1> QED
  BY <1>1, <1>2, Zenon

\* The rounds up to n that find their reference.
Hits(refs, loaded, n) == {j \in 1..n : refs[j] \in loaded}

\* A round that finds its reference counts for one more.
LEMMA HitsCount ==
  ASSUME NEW refs, NEW loaded, NEW n \in Nat
  PROVE  /\ Cardinality(Hits(refs, loaded, n)) \in Nat
         /\ Cardinality(Hits(refs, loaded, 0)) = 0
         /\ Cardinality(Hits(refs, loaded, n + 1)) =
              Cardinality(Hits(refs, loaded, n)) + (IF refs[n + 1] \in loaded THEN 1 ELSE 0)
         /\ \A i \in Hits(refs, loaded, n) :
              Cardinality(Hits(refs, loaded, i)) \in 1..Cardinality(Hits(refs, loaded, n))
<1>1. ASSUME NEW m \in Nat PROVE IsFiniteSet(Hits(refs, loaded, m))
  <2>1. IsFiniteSet(1..m)
    BY FS_Interval
  <2> QED
    BY <2>1, FS_Subset DEF Hits
<1>2. ASSUME NEW m \in Nat PROVE Cardinality(Hits(refs, loaded, m)) \in Nat
  BY <1>1, FS_CardinalityType
<1>3. Hits(refs, loaded, 0) = {}
  BY DEF Hits
<1>4. ASSUME refs[n + 1] \in loaded
      PROVE  Cardinality(Hits(refs, loaded, n + 1)) = Cardinality(Hits(refs, loaded, n)) + 1
  <2>1. Hits(refs, loaded, n + 1) = Hits(refs, loaded, n) \union {n + 1}
    BY <1>4 DEF Hits
  <2>2. n + 1 \notin Hits(refs, loaded, n)
    BY DEF Hits
  <2> QED
    BY <1>1, <2>1, <2>2, FS_AddElement
<1>5. ASSUME refs[n + 1] \notin loaded
      PROVE  Cardinality(Hits(refs, loaded, n + 1)) = Cardinality(Hits(refs, loaded, n))
  <2>1. Hits(refs, loaded, n + 1) = Hits(refs, loaded, n)
    BY <1>5 DEF Hits
  <2> QED
    BY <2>1
<1>6. ASSUME NEW i \in Hits(refs, loaded, n)
      PROVE  Cardinality(Hits(refs, loaded, i)) \in 1..Cardinality(Hits(refs, loaded, n))
  <2>1. i \in Nat /\ i \in Hits(refs, loaded, i)
    BY DEF Hits
  <2>2. Hits(refs, loaded, i) \in SUBSET Hits(refs, loaded, n)
    BY DEF Hits
  <2>3. Cardinality(Hits(refs, loaded, i)) \leq Cardinality(Hits(refs, loaded, n))
    BY <1>1, <2>2, FS_Subset
  <2>4. Cardinality(Hits(refs, loaded, i)) # 0
    BY <1>1, <2>1, FS_EmptySet
  <2> QED
    BY <1>2, <2>1, <2>3, <2>4
<1>7. Cardinality({}) = 0
  BY FS_EmptySet
<1>8. Cardinality(Hits(refs, loaded, n + 1)) =
        Cardinality(Hits(refs, loaded, n)) + (IF refs[n + 1] \in loaded THEN 1 ELSE 0)
  BY <1>2, <1>4, <1>5
<1> QED
  BY <1>2, <1>3, <1>6, <1>7, <1>8

\* After n rounds the array has the references found so far, each at its place.
FoundSoFar(array, S, refs, loaded, n) ==
  /\ array \in Seq(S)
  /\ Len(array) = Cardinality(Hits(refs, loaded, n))
  /\ \A i \in Hits(refs, loaded, n) : array[Cardinality(Hits(refs, loaded, i))] = refs[i]

\* A round keeps what the rounds before have found.
LEMMA RoundFinds ==
  ASSUME NEW S, NEW refs \in Seq(S), NEW loaded, NEW n \in Nat, n + 1 \leq Len(refs),
         NEW array, FoundSoFar(array, S, refs, loaded, n)
  PROVE  FoundSoFar(IF refs[n + 1] \in loaded THEN Append(array, refs[n + 1]) ELSE array,
                    S, refs, loaded, n + 1)
<1> DEFINE Count(i) == Cardinality(Hits(refs, loaded, i))
<1>1. /\ Count(n) \in Nat
      /\ Count(n + 1) = Count(n) + (IF refs[n + 1] \in loaded THEN 1 ELSE 0)
      /\ \A i \in Hits(refs, loaded, n) : Count(i) \in 1..Count(n)
  BY HitsCount
<1>2. refs[n + 1] \in S
  BY ElementOfSeq
<1>3. /\ array \in Seq(S) /\ Len(array) = Count(n)
      /\ \A i \in Hits(refs, loaded, n) : array[Count(i)] = refs[i]
  BY DEF FoundSoFar
<1>4. CASE refs[n + 1] \in loaded
  <2> DEFINE longer == Append(array, refs[n + 1])
  <2>1. /\ longer \in Seq(S) /\ Len(longer) = Len(array) + 1
        /\ longer[Len(array) + 1] = refs[n + 1]
        /\ \A k \in 1..Len(array) : longer[k] = array[k]
    BY <1>2, <1>3, AppendProperties
  <2>2. Hits(refs, loaded, n + 1) = Hits(refs, loaded, n) \union {n + 1}
    BY <1>4 DEF Hits
  <2> HIDE DEF longer, Count
  <2>3. \A i \in Hits(refs, loaded, n) : longer[Count(i)] = refs[i]
    BY <1>1, <1>3, <2>1
  <2>4. longer[Count(n + 1)] = refs[n + 1]
    BY <1>1, <1>3, <1>4, <2>1
  <2>5. Len(longer) = Count(n + 1)
    BY <1>1, <1>3, <1>4, <2>1
  <2>6. FoundSoFar(longer, S, refs, loaded, n + 1)
    BY <2>1, <2>2, <2>3, <2>4, <2>5 DEF FoundSoFar, Count
  <2> QED
    BY <1>4, <2>6 DEF longer
<1>5. CASE refs[n + 1] \notin loaded
  <2>1. Hits(refs, loaded, n + 1) = Hits(refs, loaded, n)
    BY <1>5 DEF Hits
  <2> QED
    BY <1>3, <1>5, <2>1 DEF FoundSoFar
<1> QED
  BY <1>4, <1>5

\* The loop of a lookup finds every reference that is loaded, in order and as often
\* as it is referred to, and nothing else, for any array of references.
LEMMA FoundResolves ==
  ASSUME NEW S, NEW refs \in Seq(S), NEW loaded
  PROVE  /\ Found(refs, loaded) \in Seq(S)
         /\ Resolves(Found(refs, loaded), refs, loaded)
<1>1. Len(refs) \in Nat /\ DOMAIN refs = 1..Len(refs)
  BY LenProperties
<1>2. PICK f : /\ Rounds(f, refs, loaded, Len(refs))
               /\ Found(refs, loaded) = f[Len(refs)]
  BY <1>1, FoundIsLast, Zenon
<1> DEFINE T == {n \in Nat : n \leq Len(refs) => FoundSoFar(f[n], S, refs, loaded, n)}
<1>3. 0 \in T
  <2>1. f[0] = <<>>
    BY <1>1, <1>2 DEF Rounds, Round
  <2>2. Hits(refs, loaded, 0) = {} /\ Cardinality({}) = 0
    BY FS_EmptySet DEF Hits
  <2>3. FoundSoFar(<<>>, S, refs, loaded, 0)
    BY <2>2, EmptySeq DEF FoundSoFar
  <2> QED
    BY <2>1, <2>3
<1>4. ASSUME NEW n \in Nat, n \in T PROVE n + 1 \in T
  <2> SUFFICES ASSUME n + 1 \leq Len(refs)
               PROVE  FoundSoFar(f[n + 1], S, refs, loaded, n + 1)
    OBVIOUS
  <2>1. f[n + 1] = IF refs[n + 1] \in loaded THEN Append(f[n], refs[n + 1]) ELSE f[n]
    <3>1. n + 1 \in 0..Len(refs) /\ n + 1 # 0 /\ (n + 1) - 1 = n
      BY <1>1
    <3>2. f[n + 1] = Round(f, refs, loaded, n + 1)
      BY <1>2, <3>1 DEF Rounds
    <3> QED
      BY <3>1, <3>2 DEF Round
  <2>2. FoundSoFar(f[n], S, refs, loaded, n)
    BY <1>1, <1>4
  <2> HIDE DEF T
  <2> QED
    BY <2>1, <2>2, RoundFinds
<1> HIDE DEF T
<1>5. \A n \in Nat : n \in T
  BY <1>3, <1>4, Induction
<1>6. FoundSoFar(f[Len(refs)], S, refs, loaded, Len(refs))
  BY <1>1, <1>5 DEF T
<1>7. {i \in DOMAIN refs : refs[i] \in loaded} = Hits(refs, loaded, Len(refs))
  BY <1>1 DEF Hits
<1>8. ASSUME NEW i \in Hits(refs, loaded, Len(refs))
      PROVE  {j \in Hits(refs, loaded, Len(refs)) : j \leq i} = Hits(refs, loaded, i)
  BY <1>1 DEF Hits
<1> QED
  BY <1>2, <1>6, <1>7, <1>8 DEF FoundSoFar, Resolves

\* Nothing is found where nothing is loaded.
LEMMA NothingFound ==
  ASSUME NEW S, NEW refs \in Seq(S)
  PROVE  Found(refs, {}) = <<>>
<1>1. {i \in DOMAIN refs : refs[i] \in {}} = {} /\ Cardinality({}) = 0
  BY FS_EmptySet
<1>2. Len(Found(refs, {})) = 0 /\ Found(refs, {}) \in Seq(S)
  BY <1>1, FoundResolves DEF Resolves
<1> QED
  BY <1>2, EmptySeq

-----------------------------------------------------------------------------
(* The dictionaries *)

\* A dictionary is empty until its collection is answered.
DataInv ==
  /\ CatalogTypeOK
  /\ "bars" \in awaited => allBars = {}
  /\ "crawls" \in awaited => allCrawls = {}
  /\ "deals" \in awaited => allDeals = {}

\* Nothing is loaded at first.
LEMMA DataInit ==
  ASSUME CatalogInit
  PROVE  DataInv
BY DEF CatalogInit, DataInv, CatalogTypeOK, Collections

\* How an answer changes the dictionaries: each is what it was, or is filled for
\* the first time.
FilledOnce ==
  /\ allBars' = allBars \/ allBars = {}
  /\ allCrawls' = allCrawls \/ allCrawls = {}
  /\ allDeals' = allDeals \/ allDeals = {}

\* An answer keeps the invariant, and changes no dictionary that has been filled.
LEMMA DataStep ==
  ASSUME DataInv, CatalogNext \/ UNCHANGED catalogVars
  PROVE  DataInv' /\ FilledOnce
<1> USE DEF DataInv, CatalogTypeOK, FilledOnce
<1>1. ASSUME NEW docs \in SUBSET BarId, BarsArrived(docs)
      PROVE  DataInv' /\ FilledOnce
  BY <1>1 DEF BarsArrived, Answer, Decode
<1>2. ASSUME NEW docs \in SUBSET CrawlId, CrawlsArrived(docs)
      PROVE  DataInv' /\ FilledOnce
  BY <1>2 DEF CrawlsArrived, Answer, Decode
<1>3. ASSUME NEW docs \in SUBSET DealId, DealsArrived(docs)
      PROVE  DataInv' /\ FilledOnce
  BY <1>3 DEF DealsArrived, Answer, Decode
<1>4. ASSUME NEW collection \in Collections, QueryFailed(collection)
      PROVE  DataInv' /\ FilledOnce
  BY <1>4 DEF QueryFailed, Answer
<1>5. CASE UNCHANGED catalogVars
  BY <1>5 DEF catalogVars
<1> QED
  BY <1>1, <1>2, <1>3, <1>4, <1>5 DEF CatalogNext

\* The lookups as operators on the dictionaries they read.
LEMMA LookupsOfDictionaries ==
  /\ \A b : getAllCrawlsForBarId(b) =
              IF b \in allBars THEN Found(crawlIds[b], allCrawls) ELSE <<>>
  /\ \A b : getAllDealsForBarId(b) =
              IF b \in allBars THEN Found(dealIds[b], allDeals) ELSE <<>>
  /\ \A c : getAllBarsForCrawlId(c) =
              IF c \in allCrawls THEN Found(barIds[c], allBars) ELSE <<>>
BY DEF getAllCrawlsForBarId, getAllDealsForBarId, getAllBarsForCrawlId

\* The references of a document are an array.
LEMMA ReferencesAreArrays ==
  /\ \A b \in BarId : crawlIds[b] \in Seq(CrawlId) /\ dealIds[b] \in Seq(DealId)
  /\ \A c \in CrawlId : barIds[c] \in Seq(BarId)
BY ReferencesAreIds

\* The dictionaries hold ids, before and after every answer (CatalogTypeOK of
\* Catalog).
THEOREM DictionariesHoldIds == CatalogSpec => []CatalogTypeOK
<1>1. CatalogInit => DataInv
  BY DataInit
<1>2. DataInv /\ [CatalogNext]_catalogVars => DataInv'
  BY DataStep
<1>3. DataInv => CatalogTypeOK
  BY DEF DataInv
<1> QED
  BY <1>1, <1>2, <1>3, PTL DEF CatalogSpec

\* In whatever state the answers have left the dictionaries, a lookup returns the
\* references that resolve and no other, in their order and as often as they occur
\* (LookupsResolve of Catalog).
THEOREM LookupsAreRight == CatalogSpec => []LookupsResolve
<1>1. LookupsResolve
  <2>1. ASSUME NEW S, NEW refs \in Seq(S)
        PROVE  Resolves(<<>>, refs, {})
    BY <2>1, FoundResolves, NothingFound
  <2>2. ASSUME NEW b \in BarId
        PROVE  /\ Resolves(getAllCrawlsForBarId(b), crawlIds[b],
                                IF b \in allBars THEN allCrawls ELSE {})
               /\ Resolves(getAllDealsForBarId(b), dealIds[b],
                                IF b \in allBars THEN allDeals ELSE {})
    BY <2>1, LookupsOfDictionaries, ReferencesAreArrays, FoundResolves
  <2>3. ASSUME NEW c \in CrawlId
        PROVE  Resolves(getAllBarsForCrawlId(c), barIds[c],
                             IF c \in allCrawls THEN allBars ELSE {})
    BY <2>1, LookupsOfDictionaries, ReferencesAreArrays, FoundResolves
  <2> QED
    BY <2>2, <2>3 DEF LookupsResolve
<1> QED
  BY <1>1, PTL

\* A lookup that has found something gives the same answer ever after
\* (LookupsSettle of Catalog): both dictionaries it read have been filled.
THEOREM LookupsAreFinal == CatalogSpec => LookupsSettle
<1>1. CatalogInit => DataInv
  BY DataInit
<1>2. DataInv /\ [CatalogNext]_catalogVars => DataInv'
  BY DataStep
<1>3. ASSUME DataInv, [CatalogNext]_catalogVars
      PROVE  /\ \A b \in BarId :
                  /\ getAllCrawlsForBarId(b) # <<>> => UNCHANGED getAllCrawlsForBarId(b)
                  /\ getAllDealsForBarId(b) # <<>> => UNCHANGED getAllDealsForBarId(b)
             /\ \A c \in CrawlId :
                  getAllBarsForCrawlId(c) # <<>> => UNCHANGED getAllBarsForCrawlId(c)
  <2>1. FilledOnce
    BY <1>3, DataStep
  <2>2. ASSUME NEW b \in BarId
        PROVE  /\ getAllCrawlsForBarId(b) # <<>> => UNCHANGED getAllCrawlsForBarId(b)
               /\ getAllDealsForBarId(b) # <<>> => UNCHANGED getAllDealsForBarId(b)
    BY <2>1, ReferencesAreArrays, NothingFound
       DEF FilledOnce, getAllCrawlsForBarId, getAllDealsForBarId
  <2>3. ASSUME NEW c \in CrawlId
        PROVE  getAllBarsForCrawlId(c) # <<>> => UNCHANGED getAllBarsForCrawlId(c)
    BY <2>1, ReferencesAreArrays, NothingFound DEF FilledOnce, getAllBarsForCrawlId
  <2> QED
    BY <2>2, <2>3
<1> QED
  BY <1>1, <1>2, <1>3, PTL DEF CatalogSpec, LookupsSettle

-----------------------------------------------------------------------------
(* The sheets *)

\* The parts of a step of the app that swap sheets.
SheetStep ==
  \/ \E s \in Sheet : \/ Sheets!ChangeBottomSheetView(s)
                      \/ Sheets!DismissalCompleted(s)
                      \/ Sheets!ViewDidAppear(s)
  \/ UNCHANGED sheetVars

\* Of every step of the app the sheets see one of theirs, or nothing.
LEMMA SheetsSeeTheirSteps ==
  ASSUME [Next]_vars
  PROVE  SheetStep
BY DEF Next, Tap, RowTapped, ShowBarList, ShowCrawlList, CloseSheet, DidTapMarker,
       BarTapped, CrawlTapped, Open, DismissalCompleted, ViewDidAppear, AllBarsLoaded,
       OtherAnswer, MapMoved, SheetsIdle, SheetStep, vars

\* The sheets of the app behave as BottomSheets says, so that what is proved there
\* (BottomSheetsProofs) holds of the app: the openings, however they come about, are
\* calls of changeBottomSheetView with a fresh sheet.
THEOREM SheetsRefinement == Spec => Sheets!SafeSpec
<1>1. Init => Sheets!Init
  BY DEF Init
<1>2. [Next]_vars => [Sheets!Next]_(Sheets!vars)
  BY SheetsSeeTheirSteps DEF SheetStep, Sheets!Next, Sheets!vars, sheetVars, Sheet, Sheets!Sheet
<1> QED
  BY <1>1, <1>2, PTL DEF Spec, Sheets!SafeSpec

\* The sheet held has been made.
SheetInv == Sheets!TypeOK /\ currentBottomSheet \in made

\* It holds at first, of the list selection.
LEMMA SheetInit ==
  ASSUME Sheets!Init
  PROVE  SheetInv
<1>1. PICK s \in Small :
        /\ currentBottomSheet = s /\ made = {s} /\ children = {s} /\ front = s
        /\ appeared = {} /\ panning = {} /\ overlapped = FALSE
        /\ frame = [t \in Sheets!Sheet |-> "below"]
        /\ smallMode = [t \in Sheets!Sheet |-> TRUE]
        /\ pending = [t \in Sheets!Sheet |-> 0]
  BY DEF Sheets!Init
<1>2. s \in Sheets!Sheet /\ "below" \in Sheets!Places
  BY DEF Sheets!Sheet, Sheets!Places
<1> QED
  BY <1>1, <1>2 DEF SheetInv, Sheets!TypeOK

\* A step of the sheets keeps it.
LEMMA SheetInvStep ==
  ASSUME SheetInv, SheetStep
  PROVE  SheetInv'
<1> USE DEF SheetInv, Sheets!TypeOK
<1>0. Sheet = Sheets!Sheet /\ {"below", "small"} \subseteq Sheets!Places
  BY DEF Sheet, Sheets!Sheet, Sheets!Places, Sheets!Panned
<1>1. ASSUME NEW s \in Sheet, Sheets!ChangeBottomSheetView(s) PROVE SheetInv'
  BY <1>0, <1>1 DEF Sheets!ChangeBottomSheetView, Sheets!DismissBottomSheet, Sheets!InFlight
<1>2. ASSUME NEW s \in Sheet, Sheets!DismissalCompleted(s) PROVE SheetInv'
  BY <1>0, <1>2 DEF Sheets!DismissalCompleted, Sheets!OpenNewBottomSheet
<1>3. ASSUME NEW s \in Sheet, Sheets!ViewDidAppear(s) PROVE SheetInv'
  BY <1>0, <1>3 DEF Sheets!ViewDidAppear, Sheets!AnimateTo
<1>4. CASE UNCHANGED sheetVars
  BY <1>4 DEF sheetVars
<1> QED
  BY <1>1, <1>2, <1>3, <1>4 DEF SheetStep

-----------------------------------------------------------------------------
(* The map *)

\* The values of the map, and the user in reach.  That needs the button to be shown
\* whenever the map does not follow, before the user's place is reported too.
MapInv ==
  /\ Map!MapTypeOK
  /\ Map!UserInReach
  /\ ~followUser => myLocationButton

\* The map starts at the city.
LEMMA MapInit ==
  ASSUME Map!Init
  PROVE  MapInv /\ \A b \in BarId : markers[b] = 0
BY AppAssumption DEF Map!Init, MapInv, Map!MapTypeOK, Map!UserInReach

\* The steps of the map that leave the markers alone.
MapStep ==
  \/ \E b \in BarId : Map!BarTapped(b) \/ Map!DidTapMarker(b)
  \/ Map!OpenListSelection
  \/ Map!DidUpdateLocations
  \/ Map!WillMove
  \/ Map!DidTapMyLocationButton
  \/ UNCHANGED mapVars

\* They keep the user in reach.
LEMMA MapInvStep ==
  ASSUME MapInv, MapStep
  PROVE  MapInv' /\ markers' = markers
<1> USE DEF MapInv, Map!MapTypeOK, Map!UserInReach
<1>1. ASSUME NEW b \in BarId, Map!BarTapped(b) \/ Map!DidTapMarker(b)
      PROVE  MapInv' /\ markers' = markers
  BY <1>1, AppAssumption DEF Map!BarTapped, Map!DidTapMarker, Map!Follow
<1>2. ASSUME Map!OpenListSelection \/ Map!DidTapMyLocationButton
      PROVE  MapInv' /\ markers' = markers
  <2>1. /\ followUser' = TRUE /\ myLocationButton' = FALSE
        /\ camera' = IF location = "unknown" THEN camera ELSE "user"
        /\ location' = location /\ markers' = markers
    BY <1>2 DEF Map!OpenListSelection, Map!DidTapMyLocationButton, Map!Follow, Map!SendToUser
  <2> QED
    BY <2>1
<1>3. ASSUME Map!DidUpdateLocations
      PROVE  MapInv' /\ markers' = markers
  BY <1>3 DEF Map!DidUpdateLocations
<1>4. ASSUME Map!WillMove
      PROVE  MapInv' /\ markers' = markers
  BY <1>4 DEF Map!WillMove, Map!Follow
<1>5. ASSUME UNCHANGED mapVars
      PROVE  MapInv' /\ markers' = markers
  BY <1>5 DEF mapVars
<1> QED
  BY <1>1, <1>2, <1>3, <1>4, <1>5 DEF MapStep

\* The markers made for the bars loaded are the first ones.
LEMMA LoadBarsStep ==
  ASSUME MapInv, NEW bars, Map!LoadBars(bars), \A b \in BarId : markers[b] = 0
  PROVE  MapInv' /\ \A b \in BarId : markers'[b] = IF b \in bars THEN 1 ELSE 0
BY DEF MapInv, Map!MapTypeOK, Map!UserInReach, Map!LoadBars

-----------------------------------------------------------------------------
(* What the sheets show *)

\* What a sheet can hold: ScreenType says so of the fields, Fits of a class.
ScreenType ==
  [class : {"none", "ListSelection", "Bar", "Crawl", "BarList", "CrawlList"},
   subject : {NoSubject} \union BarId \union CrawlId,
   listed : Seq(BarId) \union Seq(CrawlId), deals : Seq(DealId),
   loaded : BOOLEAN, rows : Nat]

Fits(s, v) ==
  /\ v.class = "ListSelection" => s \in Small
  /\ v.class = "Bar" => s \in Standard /\ v.subject \in BarId /\ v.listed \in Seq(CrawlId)
  /\ v.class = "Crawl" => s \in Standard /\ v.subject \in CrawlId /\ v.listed \in Seq(BarId)
  /\ v.class = "BarList" => s \in Standard /\ v.listed \in Seq(BarId)
  /\ v.class = "CrawlList" => s \in Standard /\ v.listed \in Seq(CrawlId)

\* v shows all of what the dictionaries hold, or nothing (AllOrNothing).
Whole(v, bars, crawls, deals) ==
  /\ v.class = "BarList" => v.listed = <<>> \/ ListsAll(v.listed, bars)
  /\ v.class = "CrawlList" => v.listed = <<>> \/ ListsAll(v.listed, crawls)
  /\ v.class = "Bar" =>
       /\ v.listed \in {<<>>, IF v.subject \in bars
                                THEN Found(crawlIds[v.subject], crawls) ELSE <<>>}
       /\ v.deals \in {<<>>, IF v.subject \in bars
                               THEN Found(dealIds[v.subject], deals) ELSE <<>>}
  /\ v.class = "Crawl" =>
       v.listed \in {<<>>, IF v.subject \in crawls
                             THEN Found(barIds[v.subject], bars) ELSE <<>>}

Shows(s, v) == v \in ScreenType /\ Fits(s, v) /\ Whole(v, allBars, allCrawls, allDeals)

\* AllOrNothing in these words.
LEMMA AllOrNothingIsWhole ==
  AllOrNothing <=> \A s \in Sheet : Whole(content[s], allBars, allCrawls, allDeals)
BY LookupsOfDictionaries DEF AllOrNothing, Whole

\* A list of an empty set is empty.
LEMMA ListOfNothing ==
  ASSUME NEW S, NEW q \in Seq(S), ListsAll(q, {})
  PROVE  q = <<>>
<1>1. Cardinality({}) = 0
  BY FS_EmptySet
<1> QED
  BY <1>1, EmptySeq DEF ListsAll

\* What was shown stays whole when a dictionary is filled for the first time.
LEMMA WholeStaysWhole ==
  ASSUME NEW s \in Sheet, NEW v, Shows(s, v), FilledOnce
  PROVE  Whole(v, allBars', allCrawls', allDeals')
<1>1. v \in ScreenType /\ Fits(s, v) /\ Whole(v, allBars, allCrawls, allDeals)
  BY DEF Shows
<1>2. CASE v.class = "BarList"
  BY <1>1, <1>2, ListOfNothing DEF Fits, Whole, FilledOnce
<1>3. CASE v.class = "CrawlList"
  BY <1>1, <1>3, ListOfNothing DEF Fits, Whole, FilledOnce
<1>4. CASE v.class = "Bar"
  <2>1. /\ crawlIds[v.subject] \in Seq(CrawlId) /\ dealIds[v.subject] \in Seq(DealId)
    BY <1>1, <1>4, ReferencesAreArrays DEF Fits
  <2>2. /\ Found(crawlIds[v.subject], {}) = <<>>
        /\ Found(dealIds[v.subject], {}) = <<>>
    BY <2>1, NothingFound
  <2> QED
    BY <1>1, <1>4, <2>2 DEF Whole, FilledOnce
<1>5. CASE v.class = "Crawl"
  <2>1. barIds[v.subject] \in Seq(BarId)
    BY <1>1, <1>5, ReferencesAreArrays DEF Fits
  <2>2. Found(barIds[v.subject], {}) = <<>>
    BY <2>1, NothingFound
  <2> QED
    BY <1>1, <1>5, <2>2 DEF Whole, FilledOnce
<1>6. CASE v.class \in {"none", "ListSelection"}
  BY <1>6 DEF Whole
<1> QED
  BY <1>1, <1>2, <1>3, <1>4, <1>5, <1>6 DEF ScreenType

\* The two lists hold the dictionary as it is.
LEMMA ListsAreWhole ==
  ASSUME NEW ids, IsFiniteSet(ids), NEW q \in SetToSeqs(ids)
  PROVE  q \in Seq(ids) /\ ListsAll(q, ids)
<1> DEFINE n == Cardinality(ids)
<1>1. n \in Nat
  BY FS_CardinalityType
<1>2. q \in [1..n -> ids] /\ \A i, j \in 1..n : i # j => q[i] # q[j]
  BY DEF SetToSeqs
<1> HIDE DEF n
<1>3. q \in Seq(ids) /\ Len(q) = n
  BY <1>1, <1>2, IsASeq, LenProperties
<1>4. q \in Injection(1..n, ids)
  BY <1>2 DEF Injection, IsInjective
<1>5. Cardinality(1..n) = n
  BY <1>1, FS_Interval
<1>6. q \in Surjection(1..n, ids)
  BY <1>4, <1>5, FS_Injection DEF n
<1>7. ToSet(q) = ids
  BY <1>2, <1>6 DEF ToSet, Surjection
<1> QED
  BY <1>3, <1>7 DEF ListsAll, n

\* viewDidLoad fills a screen with what the dictionaries give.
LEMMA LoadedShows ==
  ASSUME NEW s \in Sheet, NEW v, Shows(s, v)
  PROVE  Shows(s, Loaded(v)) /\ Loaded(v).class = v.class /\ Loaded(v).subject = v.subject
<1>1. v \in ScreenType /\ Fits(s, v) /\ Whole(v, allBars, allCrawls, allDeals)
  BY DEF Shows
<1>2. CASE v.loaded
  BY <1>2 DEF Loaded
<1>3. CASE ~v.loaded /\ v.class = "Bar"
  <2> DEFINE crawls == getAllCrawlsForBarId(v.subject)
             deals == getAllDealsForBarId(v.subject)
  <2>1. v.subject \in BarId
    BY <1>1, <1>3 DEF Fits
  <2>2. /\ crawls = IF v.subject \in allBars THEN Found(crawlIds[v.subject], allCrawls)
                                             ELSE <<>>
        /\ deals = IF v.subject \in allBars THEN Found(dealIds[v.subject], allDeals)
                                            ELSE <<>>
    BY LookupsOfDictionaries
  <2>3. crawls \in Seq(CrawlId) /\ deals \in Seq(DealId)
    BY <2>1, <2>2, ReferencesAreArrays, FoundResolves, EmptySeq
  <2> HIDE DEF crawls, deals
  <2>4. Loaded(v) = [v EXCEPT !.listed = crawls, !.deals = deals, !.loaded = TRUE]
    BY <1>3 DEF Loaded, LoadBar, crawls, deals
  <2>5. /\ Loaded(v) \in ScreenType
        /\ Loaded(v).class = v.class /\ Loaded(v).subject = v.subject
        /\ Loaded(v).listed = crawls /\ Loaded(v).deals = deals
    BY <1>1, <2>3, <2>4 DEF ScreenType
  <2>6. Fits(s, Loaded(v))
    BY <1>1, <1>3, <2>3, <2>5 DEF Fits
  <2>7. Whole(Loaded(v), allBars, allCrawls, allDeals)
    BY <1>3, <2>2, <2>5 DEF Whole
  <2> QED
    BY <2>5, <2>6, <2>7 DEF Shows
<1>4. CASE ~v.loaded /\ v.class = "Crawl"
  <2> DEFINE bars == getAllBarsForCrawlId(v.subject)
  <2>1. v.subject \in CrawlId
    BY <1>1, <1>4 DEF Fits
  <2>2. bars = IF v.subject \in allCrawls THEN Found(barIds[v.subject], allBars) ELSE <<>>
    BY LookupsOfDictionaries
  <2>3. bars \in Seq(BarId)
    BY <2>1, <2>2, ReferencesAreArrays, FoundResolves, EmptySeq
  <2> HIDE DEF bars
  <2>4. Loaded(v) = [v EXCEPT !.listed = bars, !.loaded = TRUE]
    BY <1>4 DEF Loaded, LoadCrawl, bars
  <2>5. /\ Loaded(v) \in ScreenType
        /\ Loaded(v).class = v.class /\ Loaded(v).subject = v.subject
        /\ Loaded(v).listed = bars
    BY <1>1, <2>3, <2>4 DEF ScreenType
  <2>6. Fits(s, Loaded(v))
    BY <1>1, <1>4, <2>3, <2>5 DEF Fits
  <2>7. Whole(Loaded(v), allBars, allCrawls, allDeals)
    BY <1>4, <2>2, <2>5 DEF Whole
  <2> QED
    BY <2>5, <2>6, <2>7 DEF Shows
<1>5. CASE ~v.loaded /\ v.class \notin {"Bar", "Crawl"}
  <2>1. Loaded(v) = [v EXCEPT !.loaded = TRUE]
    BY <1>5 DEF Loaded
  <2>2. /\ Loaded(v) \in ScreenType
        /\ Loaded(v).class = v.class /\ Loaded(v).subject = v.subject
        /\ Loaded(v).listed = v.listed
    BY <1>1, <2>1 DEF ScreenType
  <2> QED
    BY <1>1, <1>5, <2>2 DEF Shows, Fits, Whole
<1> QED
  BY <1>1, <1>2, <1>3, <1>4, <1>5 DEF Shows

-----------------------------------------------------------------------------
(* The app *)

\* The inductive invariant: the parts', that a marker is made once for each bar
\* loaded, that sheets show all or nothing of what the dictionaries hold, and that a
\* sheet in use has been made.
AppInv ==
  /\ DataInv /\ SheetInv /\ MapInv
  /\ MarkerPerBar
  /\ DOMAIN content = Sheet
  /\ \A s \in Sheet : Shows(s, content[s])
  /\ \A s \in Sheet : content[s].class = "none" => s \notin made
  /\ CameraOnBar

\* A tap replaces the current sheet by a fresh one, which shows v.
LEMMA OpenStep ==
  ASSUME AppInv, NEW s \in Sheet, NEW v, Open(s, v), Shows(s, v), v.class # "none",
         MapStep,
         v.class = "Bar" => camera' = v.subject
  PROVE  AppInv'
<1>1. /\ DataInv /\ SheetInv /\ MapInv /\ MarkerPerBar
      /\ DOMAIN content = Sheet
      /\ \A t \in Sheet : Shows(t, content[t])
      /\ \A t \in Sheet : content[t].class = "none" => t \notin made
  BY DEF AppInv
<1>2. /\ Sheets!ChangeBottomSheetView(s)
      /\ content' = [content EXCEPT ![s] = v, ![currentBottomSheet] = Loaded(@)]
      /\ UNCHANGED catalogVars
  BY DEF Open
<1>3. /\ s \notin made /\ made' = made \union {s} /\ currentBottomSheet' = s
      /\ currentBottomSheet \in made /\ currentBottomSheet \in Sheet
  BY <1>1, <1>2 DEF Sheets!ChangeBottomSheetView, SheetInv, Sheets!TypeOK, Sheet, Sheets!Sheet
<1>4. /\ DOMAIN content' = Sheet
      /\ \A t \in Sheet : content'[t] = IF t = s THEN v
                                        ELSE IF t = currentBottomSheet THEN Loaded(content[t])
                                        ELSE content[t]
  BY <1>1, <1>2, <1>3
<1>5. /\ allBars' = allBars /\ allCrawls' = allCrawls /\ allDeals' = allDeals
      /\ awaited' = awaited /\ running' = running
  BY <1>2 DEF catalogVars
<1>6. DataInv'
  BY <1>1, <1>5 DEF DataInv, CatalogTypeOK, Collections
<1>7. SheetInv'
  BY <1>1, <1>2, SheetInvStep DEF SheetStep
<1>8. MapInv' /\ markers' = markers
  BY <1>1, MapInvStep
<1>9. MarkerPerBar'
  BY <1>1, <1>5, <1>8 DEF MarkerPerBar
<1>10. ASSUME NEW t \in Sheet
       PROVE  /\ Shows(t, content'[t])
              /\ content'[t].class = "none" => t \notin made'
  <2>1. Shows(t, content[t]) /\ Shows(t, Loaded(content[t]))
        /\ Loaded(content[t]).class = content[t].class
    BY <1>1, LoadedShows
  <2>2. content[t].class = "none" => t \notin made
    BY <1>1
  <2> QED
    BY <1>3, <1>4, <2>1, <2>2
<1>11. \A t \in Sheet : Shows(t, content[t])'
  BY <1>5, <1>10 DEF Shows
<1>12. CameraOnBar'
  BY <1>3, <1>4 DEF CameraOnBar
<1> QED
  BY <1>4, <1>6, <1>7, <1>8, <1>9, <1>10, <1>11, <1>12 DEF AppInv

\* The screens that are made of nothing, of a bar, of a crawl and of a list show all
\* or nothing.
LEMMA FreshScreens ==
  /\ \A s \in Sheet : Shows(s, Unmade)
  /\ \A s \in Small : Shows(s, ListSelection)
  /\ \A s \in Standard, b \in BarId : Shows(s, BarScreen(b))
  /\ \A s \in Standard, c \in CrawlId : Shows(s, CrawlScreen(c))
  /\ DataInv => \A s \in Standard : \A v \in BarLists \union CrawlLists : Shows(s, v)
<1> USE DEF Shows, ScreenType, Fits, Whole, Screen
<1>1. <<>> \in Seq(BarId) /\ <<>> \in Seq(CrawlId) /\ <<>> \in Seq(DealId)
  BY EmptySeq
<1>2. \A s \in Sheet : Shows(s, Unmade)
  BY <1>1 DEF Unmade
<1>3. \A s \in Small : Shows(s, ListSelection)
  BY <1>1 DEF ListSelection
<1>4. \A s \in Standard, b \in BarId : Shows(s, BarScreen(b))
  BY <1>1 DEF BarScreen
<1>5. \A s \in Standard, c \in CrawlId : Shows(s, CrawlScreen(c))
  BY <1>1 DEF CrawlScreen
<1>6. ASSUME DataInv, NEW s \in Standard, NEW v \in BarLists PROVE Shows(s, v)
  <2>1. IsFiniteSet(allBars) /\ allBars \subseteq BarId
    BY <1>6, AppAssumption, FS_Subset DEF DataInv, CatalogTypeOK
  <2>2. PICK q \in SetToSeqs(allBars) : v = Screen("BarList", NoSubject, q)
    BY DEF BarLists
  <2>3. q \in Seq(BarId) /\ ListsAll(q, allBars)
    BY <2>1, ListsAreWhole, SeqMonotonic
  <2> QED
    BY <1>1, <2>2, <2>3
<1>7. ASSUME DataInv, NEW s \in Standard, NEW v \in CrawlLists PROVE Shows(s, v)
  <2>1. IsFiniteSet(allCrawls) /\ allCrawls \subseteq CrawlId
    BY <1>7, AppAssumption, FS_Subset DEF DataInv, CatalogTypeOK
  <2>2. PICK q \in SetToSeqs(allCrawls) : v = Screen("CrawlList", NoSubject, q)
    BY DEF CrawlLists
  <2>3. q \in Seq(CrawlId) /\ ListsAll(q, allCrawls)
    BY <2>1, ListsAreWhole, SeqMonotonic
  <2> QED
    BY <1>1, <2>2, <2>3
<1> QED
  BY <1>2, <1>3, <1>4, <1>5, <1>6, <1>7

\* A tap on a row, a button or a marker.
LEMMA TapStep ==
  ASSUME AppInv, NEW s \in Sheet, Tap(s)
  PROVE  AppInv'
<1> DEFINE OpensBar == \E b \in BarId : /\ s \in Standard /\ Open(s, BarScreen(b))
                                        /\ Map!BarTapped(b) \/ Map!DidTapMarker(b)
           OpensCrawl == \E c \in CrawlId : /\ s \in Standard /\ Open(s, CrawlScreen(c))
                                            /\ UNCHANGED mapVars
           OpensList == \E v \in BarLists \union CrawlLists :
                          s \in Standard /\ Open(s, v) /\ UNCHANGED mapVars
           Closes == s \in Small /\ Open(s, ListSelection) /\ Map!OpenListSelection
<1>0. allBars \subseteq BarId /\ allCrawls \subseteq CrawlId /\ DataInv
  BY DEF AppInv, DataInv, CatalogTypeOK
<1>1. OpensBar \/ OpensCrawl \/ OpensList \/ Closes
  <2>1. ASSUME NEW t \in Sheet, NEW i, RowTapped(t, i, s) PROVE OpensBar \/ OpensCrawl
    BY <1>0, <2>1 DEF RowTapped, BarTapped, CrawlTapped
  <2>2. ASSUME NEW t \in Sheet, ShowBarList(t, s) \/ ShowCrawlList(t, s) PROVE OpensList
    BY <2>2 DEF ShowBarList, ShowCrawlList
  <2>3. ASSUME NEW t \in Sheet, CloseSheet(t, s) PROVE Closes
    BY <2>3 DEF CloseSheet
  <2>4. ASSUME NEW b \in BarId, DidTapMarker(b, s) PROVE OpensBar
    BY <2>4 DEF DidTapMarker
  <2> HIDE DEF OpensBar, OpensCrawl, OpensList, Closes
  <2> QED
    BY <2>1, <2>2, <2>3, <2>4 DEF Tap
<1>2. CASE OpensBar
  <2>1. PICK b \in BarId : /\ s \in Standard /\ Open(s, BarScreen(b))
                           /\ Map!BarTapped(b) \/ Map!DidTapMarker(b)
    BY <1>2
  <2>2. MapStep /\ camera' = b
    BY <2>1 DEF MapStep, Map!BarTapped, Map!DidTapMarker
  <2>3. BarScreen(b).class = "Bar" /\ BarScreen(b).subject = b
    BY DEF BarScreen, Screen
  <2> QED
    BY <2>1, <2>2, <2>3, FreshScreens, OpenStep
<1>3. CASE OpensCrawl
  <2>1. PICK c \in CrawlId : s \in Standard /\ Open(s, CrawlScreen(c)) /\ UNCHANGED mapVars
    BY <1>3
  <2>2. CrawlScreen(c).class = "Crawl"
    BY DEF CrawlScreen, Screen
  <2> QED
    BY <2>1, <2>2, FreshScreens, OpenStep DEF MapStep
<1>4. CASE OpensList
  <2>1. PICK v \in BarLists \union CrawlLists :
          s \in Standard /\ Open(s, v) /\ UNCHANGED mapVars
    BY <1>4
  <2>2. v.class \in {"BarList", "CrawlList"}
    BY DEF BarLists, CrawlLists, Screen
  <2> QED
    BY <1>0, <2>1, <2>2, FreshScreens, OpenStep DEF MapStep
<1>5. CASE Closes
  <2>1. ListSelection.class = "ListSelection"
    BY DEF ListSelection, Screen
  <2> QED
    BY <1>5, <2>1, FreshScreens, OpenStep DEF MapStep
<1> HIDE DEF OpensBar, OpensCrawl, OpensList, Closes
<1> QED
  BY <1>1, <1>2, <1>3, <1>4, <1>5

\* A dismissal that ends loads the view of the sheet that is current by then.
LEMMA DismissalStep ==
  ASSUME AppInv, NEW s \in Sheet, DismissalCompleted(s)
  PROVE  AppInv'
<1>1. /\ DataInv /\ SheetInv /\ MapInv /\ MarkerPerBar /\ CameraOnBar
      /\ DOMAIN content = Sheet
      /\ \A t \in Sheet : Shows(t, content[t])
      /\ \A t \in Sheet : content[t].class = "none" => t \notin made
  BY DEF AppInv
<1>2. /\ Sheets!DismissalCompleted(s)
      /\ content' = [content EXCEPT ![currentBottomSheet] = Loaded(@)]
      /\ UNCHANGED <<catalogVars, mapVars>>
  BY DEF DismissalCompleted
<1>3. /\ made' = made /\ currentBottomSheet' = currentBottomSheet
      /\ currentBottomSheet \in Sheet
  BY <1>1, <1>2 DEF Sheets!DismissalCompleted, SheetInv, Sheets!TypeOK, Sheet, Sheets!Sheet
<1>4. /\ DOMAIN content' = Sheet
      /\ \A t \in Sheet : content'[t] = IF t = currentBottomSheet THEN Loaded(content[t])
                                        ELSE content[t]
  BY <1>1, <1>2, <1>3
<1>5. /\ allBars' = allBars /\ allCrawls' = allCrawls /\ allDeals' = allDeals
      /\ awaited' = awaited /\ running' = running
      /\ camera' = camera /\ followUser' = followUser /\ UNCHANGED mapVars
  BY <1>2 DEF catalogVars, mapVars
<1>6. DataInv'
  BY <1>1, <1>5 DEF DataInv, CatalogTypeOK, Collections
<1>7. SheetInv'
  BY <1>1, <1>2, SheetInvStep DEF SheetStep
<1>8. MapInv' /\ markers' = markers
  BY <1>1, <1>5, MapInvStep DEF MapStep
<1>9. MarkerPerBar'
  BY <1>1, <1>5, <1>8 DEF MarkerPerBar
<1>10. ASSUME NEW t \in Sheet
       PROVE  /\ Shows(t, content'[t])
              /\ content'[t].class = content[t].class
              /\ content'[t].subject = content[t].subject
  <2>1. Shows(t, content[t]) /\ Shows(t, Loaded(content[t]))
        /\ Loaded(content[t]).class = content[t].class
        /\ Loaded(content[t]).subject = content[t].subject
    BY <1>1, LoadedShows
  <2> QED
    BY <1>4, <2>1
<1>11. \A t \in Sheet : Shows(t, content[t])'
  BY <1>5, <1>10 DEF Shows
<1>12. CameraOnBar'
  BY <1>1, <1>3, <1>5, <1>10 DEF CameraOnBar
<1>13. \A t \in Sheet : content'[t].class = "none" => t \notin made'
  BY <1>1, <1>3, <1>10
<1> QED
  BY <1>4, <1>6, <1>7, <1>8, <1>9, <1>11, <1>12, <1>13 DEF AppInv

\* A sheet that appears is laid out with some number of rows, whether or not the
\* app survives it.
LEMMA AppearStep ==
  ASSUME AppInv, NEW s \in Sheet, ViewDidAppear(s)
  PROVE  AppInv'
<1>1. /\ DataInv /\ SheetInv /\ MapInv /\ MarkerPerBar /\ CameraOnBar
      /\ DOMAIN content = Sheet
      /\ \A t \in Sheet : Shows(t, content[t])
      /\ \A t \in Sheet : content[t].class = "none" => t \notin made
  BY DEF AppInv
<1> DEFINE n == NumberOfRows(content[s])
<1>2. /\ Sheets!ViewDidAppear(s)
      /\ content' = [content EXCEPT ![s].rows = n]
      /\ running' = (content[s].listed = <<>> => n = 0)
      /\ UNCHANGED <<allBars, allCrawls, allDeals, awaited, mapVars>>
  BY DEF ViewDidAppear
<1>3. n \in Nat
  <2>1. Cardinality(allBars) \in Nat /\ Cardinality(allCrawls) \in Nat
    BY <1>1, AppAssumption, FS_Subset, FS_CardinalityType DEF DataInv, CatalogTypeOK
  <2>2. Len(content[s].listed) \in Nat
    BY <1>1, LenProperties DEF Shows, ScreenType
  <2> QED
    BY <2>1, <2>2 DEF NumberOfRows
<1> HIDE DEF n
<1>4. /\ made' = made /\ currentBottomSheet' = currentBottomSheet
      /\ currentBottomSheet \in Sheet
  BY <1>1, <1>2 DEF Sheets!ViewDidAppear, SheetInv, Sheets!TypeOK, Sheet, Sheets!Sheet
<1>5. /\ allBars' = allBars /\ allCrawls' = allCrawls /\ allDeals' = allDeals
      /\ awaited' = awaited
      /\ camera' = camera /\ followUser' = followUser /\ UNCHANGED mapVars
  BY <1>2 DEF mapVars
<1>6. running' \in BOOLEAN
  BY <1>2
<1>7. DataInv'
  BY <1>1, <1>5, <1>6 DEF DataInv, CatalogTypeOK, Collections
<1>8. SheetInv'
  BY <1>1, <1>2, SheetInvStep DEF SheetStep
<1>9. MapInv' /\ markers' = markers
  BY <1>1, <1>5, MapInvStep DEF MapStep
<1>10. MarkerPerBar'
  BY <1>1, <1>5, <1>9 DEF MarkerPerBar
<1>11. DOMAIN content' = Sheet
  BY <1>1, <1>2
<1>12. ASSUME NEW t \in Sheet
       PROVE  /\ Shows(t, content'[t])
              /\ content'[t].class = content[t].class
              /\ content'[t].subject = content[t].subject
  <2>1. Shows(t, content[t])
    BY <1>1
  <2>2. content'[t] = content[t] \/ content'[t] = [content[t] EXCEPT !.rows = n]
    BY <1>1, <1>2
  <2>3. /\ content'[t] \in ScreenType
        /\ content'[t].class = content[t].class
        /\ content'[t].subject = content[t].subject
        /\ content'[t].listed = content[t].listed
        /\ content'[t].deals = content[t].deals
    BY <1>3, <2>1, <2>2 DEF Shows, ScreenType
  <2> QED
    BY <2>1, <2>3 DEF Shows, Fits, Whole
<1>13. \A t \in Sheet : Shows(t, content[t])'
  BY <1>5, <1>12 DEF Shows
<1>14. CameraOnBar'
  BY <1>1, <1>4, <1>5, <1>12 DEF CameraOnBar
<1>15. \A t \in Sheet : content'[t].class = "none" => t \notin made'
  BY <1>1, <1>4, <1>12
<1> QED
  BY <1>7, <1>8, <1>9, <1>10, <1>11, <1>13, <1>14, <1>15 DEF AppInv

\* What an answer leaves alone, and what it keeps of the sheets.
LEMMA AnswerStep ==
  ASSUME AppInv, CatalogNext, SheetsIdle
  PROVE  /\ DataInv' /\ SheetInv'
         /\ DOMAIN content' = Sheet
         /\ \A s \in Sheet : Shows(s, content[s])'
         /\ \A s \in Sheet : content'[s].class = "none" => s \notin made'
         /\ content' = content /\ currentBottomSheet' = currentBottomSheet
<1>1. DataInv' /\ FilledOnce
  BY DataStep DEF AppInv
<1>2. content' = content /\ UNCHANGED sheetVars
  BY DEF SheetsIdle
<1>3. made' = made /\ currentBottomSheet' = currentBottomSheet
  BY <1>2 DEF sheetVars
<1>4. SheetInv'
  BY <1>2, SheetInvStep DEF AppInv, SheetStep
<1>5. ASSUME NEW s \in Sheet PROVE Shows(s, content[s])'
  <2>1. Shows(s, content[s])
    BY DEF AppInv
  <2>2. Whole(content[s], allBars', allCrawls', allDeals')
    BY <1>1, <2>1, WholeStaysWhole
  <2> QED
    BY <1>2, <2>1, <2>2 DEF Shows
<1> QED
  BY <1>1, <1>2, <1>3, <1>4, <1>5 DEF AppInv

\* The bars arrive, and with them the markers.
LEMMA BarsStep ==
  ASSUME AppInv, NEW docs \in SUBSET BarId, AllBarsLoaded(docs)
  PROVE  AppInv'
<1>1. /\ BarsArrived(docs) /\ SheetsIdle
      /\ IF running' THEN Map!LoadBars(allBars') ELSE UNCHANGED mapVars
  BY DEF AllBarsLoaded
<1>2. /\ DataInv' /\ SheetInv'
      /\ DOMAIN content' = Sheet
      /\ \A s \in Sheet : Shows(s, content[s])'
      /\ \A s \in Sheet : content'[s].class = "none" => s \notin made'
      /\ content' = content /\ currentBottomSheet' = currentBottomSheet
  BY <1>1, AnswerStep DEF CatalogNext
<1>3. /\ MapInv /\ MarkerPerBar /\ CameraOnBar
      /\ allBars = {} /\ allBars' = (IF running' THEN docs ELSE {})
  BY <1>1 DEF AppInv, DataInv, BarsArrived, Answer
<1>4. \A b \in BarId : markers[b] = 0
  BY <1>3 DEF MarkerPerBar
<1>5. MapInv' /\ MarkerPerBar' /\ camera' = camera /\ followUser' = followUser
  <2>1. CASE running'
    BY <1>1, <1>3, <1>4, <2>1, LoadBarsStep DEF MarkerPerBar, Map!LoadBars
  <2>2. CASE ~running'
    BY <1>1, <1>3, <2>2, MapInvStep DEF MarkerPerBar, MapStep, mapVars
  <2> QED
    BY <2>1, <2>2
<1>6. CameraOnBar'
  BY <1>2, <1>3, <1>5 DEF CameraOnBar
<1> QED
  BY <1>2, <1>5, <1>6 DEF AppInv

\* The other answers concern no marker.
LEMMA OtherAnswerStep ==
  ASSUME AppInv, OtherAnswer
  PROVE  AppInv'
<1>1. /\ CatalogNext /\ SheetsIdle /\ UNCHANGED mapVars
      /\ allBars' = allBars
  BY DEF OtherAnswer, CatalogNext, CrawlsArrived, DealsArrived, QueryFailed
<1>2. /\ DataInv' /\ SheetInv'
      /\ DOMAIN content' = Sheet
      /\ \A s \in Sheet : Shows(s, content[s])'
      /\ \A s \in Sheet : content'[s].class = "none" => s \notin made'
      /\ content' = content /\ currentBottomSheet' = currentBottomSheet
  BY <1>1, AnswerStep
<1>3. MapInv' /\ markers' = markers /\ camera' = camera /\ followUser' = followUser
  BY <1>1, MapInvStep DEF AppInv, MapStep, mapVars
<1>4. MarkerPerBar' /\ CameraOnBar'
  BY <1>1, <1>2, <1>3 DEF AppInv, MarkerPerBar, CameraOnBar
<1> QED
  BY <1>2, <1>3, <1>4 DEF AppInv

\* The user or the location moves the map.
LEMMA MovedStep ==
  ASSUME AppInv, MapMoved
  PROVE  AppInv'
<1>1. /\ Map!DidUpdateLocations \/ Map!WillMove \/ Map!DidTapMyLocationButton
      /\ SheetsIdle /\ UNCHANGED catalogVars
  BY DEF MapMoved
<1>2. /\ content' = content /\ UNCHANGED sheetVars
      /\ made' = made /\ currentBottomSheet' = currentBottomSheet
      /\ allBars' = allBars /\ allCrawls' = allCrawls /\ allDeals' = allDeals
      /\ awaited' = awaited /\ running' = running
  BY <1>1 DEF SheetsIdle, sheetVars, catalogVars
<1>3. MapInv' /\ markers' = markers
  BY <1>1, MapInvStep DEF AppInv, MapStep
<1>4. DataInv'
  BY <1>2 DEF AppInv, DataInv, CatalogTypeOK, Collections
<1>5. SheetInv'
  BY <1>2, SheetInvStep DEF AppInv, SheetStep
<1>6. CameraOnBar'
  <2>1. (camera' = camera /\ followUser' = followUser) \/ camera' = "elsewhere" \/ followUser'
    BY <1>1 DEF Map!DidUpdateLocations, Map!WillMove, Map!DidTapMyLocationButton, Map!Follow
  <2> QED
    BY <1>2, <2>1 DEF AppInv, CameraOnBar
<1>7. MarkerPerBar'
  BY <1>2, <1>3 DEF AppInv, MarkerPerBar
<1>8. \A s \in Sheet : Shows(s, content[s])'
  BY <1>2 DEF AppInv, Shows
<1> QED
  BY <1>2, <1>3, <1>4, <1>5, <1>6, <1>7, <1>8 DEF AppInv

\* Nothing happens.
LEMMA AppStutter ==
  ASSUME AppInv, UNCHANGED vars
  PROVE  AppInv'
<1>1. /\ content' = content /\ UNCHANGED sheetVars /\ UNCHANGED mapVars
      /\ made' = made /\ currentBottomSheet' = currentBottomSheet
      /\ allBars' = allBars /\ allCrawls' = allCrawls /\ allDeals' = allDeals
      /\ awaited' = awaited /\ running' = running
      /\ camera' = camera /\ followUser' = followUser
  BY DEF vars, sheetVars, catalogVars, mapVars
<1>2. MapInv' /\ markers' = markers
  BY <1>1, MapInvStep DEF AppInv, MapStep
<1>3. DataInv'
  BY <1>1 DEF AppInv, DataInv, CatalogTypeOK, Collections
<1>4. SheetInv'
  BY <1>1, SheetInvStep DEF AppInv, SheetStep
<1>5. MarkerPerBar' /\ CameraOnBar'
  BY <1>1, <1>2 DEF AppInv, MarkerPerBar, CameraOnBar
<1>6. \A s \in Sheet : Shows(s, content[s])'
  BY <1>1 DEF AppInv, Shows
<1> QED
  BY <1>1, <1>2, <1>3, <1>4, <1>5, <1>6 DEF AppInv

\* The first sheet is a list selection; the others are yet to be made.
LEMMA AppInit ==
  ASSUME Init
  PROVE  AppInv
<1>1. /\ Sheets!Init /\ CatalogInit /\ Map!Init
      /\ content = [s \in Sheet |-> IF s = currentBottomSheet THEN Loaded(ListSelection)
                                                              ELSE Unmade]
  BY DEF Init
<1>2. /\ DataInv /\ SheetInv /\ MapInv
      /\ allBars = {} /\ \A b \in BarId : markers[b] = 0
  BY <1>1, DataInit, SheetInit, MapInit DEF CatalogInit
<1>3. currentBottomSheet \in Small /\ made = {currentBottomSheet} /\ Small \subseteq Sheet
  BY <1>1 DEF Sheets!Init, Sheet
<1>4. /\ ListSelection.class = "ListSelection" /\ Unmade.class = "none"
  BY DEF ListSelection, Unmade, Screen
<1>5. Shows(currentBottomSheet, ListSelection) /\ \A s \in Sheet : Shows(s, Unmade)
  BY <1>3, FreshScreens
<1>6. /\ Shows(currentBottomSheet, Loaded(ListSelection))
      /\ Loaded(ListSelection).class = "ListSelection"
  BY <1>3, <1>4, <1>5, LoadedShows
<1>7. \A s \in Sheet : Shows(s, content[s])
  BY <1>1, <1>5, <1>6
<1>8. \A s \in Sheet : content[s].class = "none" => s \notin made
  BY <1>1, <1>3, <1>6
<1>9. CameraOnBar
  BY <1>1, <1>3, <1>6 DEF CameraOnBar
<1>10. MarkerPerBar
  BY <1>2 DEF MarkerPerBar
<1>11. DOMAIN content = Sheet
  BY <1>1
<1> QED
  BY <1>2, <1>7, <1>8, <1>9, <1>10, <1>11 DEF AppInv

\* Every step of the app keeps the invariant.
LEMMA AppStep ==
  ASSUME AppInv, [Next]_vars
  PROVE  AppInv'
BY TapStep, DismissalStep, AppearStep, BarsStep, OtherAnswerStep, MovedStep, AppStutter
   DEF Next

\* The inductive invariant of the app, for any sheets, collections and references.
THEOREM AppInductive == Spec => []AppInv
<1> QED
  BY AppInit, AppStep, PTL DEF Spec

\* What each sheet holds fits its class, and the parts keep their types (AppTypeOK of
\* CrawlApp).
THEOREM AppIsTyped == Spec => []AppTypeOK
<1>1. AppInv => AppTypeOK
  <2> SUFFICES ASSUME AppInv PROVE AppTypeOK
    OBVIOUS
  <2>1. Sheets!TypeOK /\ CatalogTypeOK /\ Map!MapTypeOK /\ DOMAIN content = Sheet
    BY DEF AppInv, SheetInv, DataInv, MapInv
  <2>2. ASSUME NEW s \in Sheet
        PROVE  LET v == content[s]
               IN  CASE v.class = "none" -> s \notin made
                     [] v.class = "ListSelection" -> s \in Small
                     [] v.class = "Bar" -> /\ s \in Standard /\ v.subject \in BarId
                                           /\ v.listed \in Seq(CrawlId)
                                           /\ v.deals \in Seq(DealId)
                     [] v.class = "Crawl" -> /\ s \in Standard /\ v.subject \in CrawlId
                                             /\ v.listed \in Seq(BarId)
                     [] v.class = "BarList" -> s \in Standard /\ v.listed \in Seq(BarId)
                     [] v.class = "CrawlList" -> s \in Standard /\ v.listed \in Seq(CrawlId)
    BY DEF AppInv, Shows, ScreenType, Fits
  <2> QED
    BY <2>1, <2>2 DEF AppTypeOK
<1> QED
  BY <1>1, AppInductive, PTL

\* No sheet shows a part of what there is, however long ago it looked it up
\* (AllOrNothing of CrawlApp).
THEOREM NoSheetShowsAPart == Spec => []AllOrNothing
<1>1. AppInv => AllOrNothing
  BY AllOrNothingIsWhole DEF AppInv, Shows
<1> QED
  BY <1>1, AppInductive, PTL

\* While a bar's sheet is the current one the camera is on the bar, unless the user
\* has moved it or follows (CameraOnBar of CrawlApp).
THEOREM CameraStaysOnBar == Spec => []CameraOnBar
<1>1. AppInv => CameraOnBar
  BY DEF AppInv
<1> QED
  BY <1>1, AppInductive, PTL

\* The map never hides both the user and the button that leads there (UserInReach of
\* CrawlApp).
THEOREM UserStaysInReach == Spec => []UserInReach
<1>1. AppInv => UserInReach
  BY DEF AppInv, MapInv, UserInReach
<1> QED
  BY <1>1, AppInductive, PTL

\* The map has one marker for each bar loaded, and no other (MarkerPerBar of
\* CrawlApp).
THEOREM OneMarkerPerBar == Spec => []MarkerPerBar
<1>1. AppInv => MarkerPerBar
  BY DEF AppInv
<1> QED
  BY <1>1, AppInductive, PTL

=============================================================================
