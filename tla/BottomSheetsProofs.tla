-------------------------- MODULE BottomSheetsProofs --------------------------
(***************************************************************************)
(* Proofs about BottomSheets, for any sets of small and standard sheets,   *)
(* finite or not.                                                          *)
(***************************************************************************)
EXTENDS BottomSheets, TLAPS

\* The sheets HomeViewController refers to have been made, what it has put on
\* the screen was made before, and only sheets it has made are dismissed.
Bookkeeping ==
  /\ currentBottomSheet \in made
  /\ children \subseteq made
  /\ front \in children
  /\ appeared \subseteq children
  /\ \A s \in Sheet : pending[s] > 0 => s \in made

\* Without overlap at most one dismissal is in flight, and the sheet that
\* replaces the dismissed one waits for it.
OneSwapAtATime ==
  ~overlapped =>
    /\ \A s, t \in Sheet : pending[s] > 0 /\ pending[t] > 0 => s = t
    /\ InFlight => currentBottomSheet \notin children

\* The inductive invariant: each safety invariant is one of its conjuncts, and
\* Bookkeeping and OneSwapAtATime are what the others need to be preserved.
IInv ==
  /\ TypeOK
  /\ Bookkeeping
  /\ DismissedOnce
  /\ PresentationPending
  /\ FrontIsCurrent
  /\ OneSwapAtATime
  /\ SerialSwapShowsCurrent
-----------------------------------------------------------------------------
\* The handlers keep every variable in its type.
THEOREM TypeInvariant == SafeSpec => []TypeOK
<1> USE DEF TypeOK, Sheet, Places, Panned
<1>1. Init => TypeOK
  <2> SUFFICES ASSUME NEW s \in Small,
                      currentBottomSheet = s, made = {s}, children = {s},
                      front = s, appeared = {}, panning = {},
                      frame = [t \in Sheet |-> "below"],
                      smallMode = [t \in Sheet |-> TRUE],
                      pending = [t \in Sheet |-> 0],
                      overlapped = FALSE
               PROVE  TypeOK
    BY DEF Init
  <2> QED
    OBVIOUS
<1>2. TypeOK /\ [Next]_vars => TypeOK'
  <2> SUFFICES ASSUME TypeOK, [Next]_vars
               PROVE  TypeOK'
    OBVIOUS
  <2>1. ASSUME NEW s \in Sheet, ChangeBottomSheetView(s)
        PROVE  TypeOK'
    BY <2>1 DEF ChangeBottomSheetView, DismissBottomSheet, InFlight
  <2>2. ASSUME NEW s \in Sheet, DismissalCompleted(s)
        PROVE  TypeOK'
    BY <2>2 DEF DismissalCompleted, OpenNewBottomSheet
  <2>3. ASSUME NEW s \in Sheet, ViewDidAppear(s)
        PROVE  TypeOK'
    BY <2>3 DEF ViewDidAppear, AnimateTo
  <2>4. ASSUME NEW s \in Sheet, PanBegan(s)
        PROVE  TypeOK'
    BY <2>4 DEF PanBegan
  <2>5. ASSUME NEW s \in Sheet, PanChanged(s)
        PROVE  TypeOK'
    BY <2>5 DEF PanChanged
  <2>6. ASSUME NEW s \in Sheet, PanEnded(s)
        PROVE  TypeOK'
    <3>1. StaysSmall(s) \in BOOLEAN
      BY DEF StaysSmall, PastSmallEdge, PastBigEdge
    <3>2. frame' \in [Sheet -> Places] /\ smallMode' \in [Sheet -> BOOLEAN]
      BY <2>6, <3>1 DEF PanEnded, AnimateTo
    <3> QED
      BY <2>6, <3>2 DEF PanEnded, AnimateTo
  <2>7. ASSUME NEW s \in Sheet, PanCancelled(s)
        PROVE  TypeOK'
    BY <2>7 DEF PanCancelled
  <2>8. CASE UNCHANGED vars
    BY <2>8 DEF vars
  <2> QED
    BY <2>1, <2>2, <2>3, <2>4, <2>5, <2>6, <2>7, <2>8 DEF Next
<1> QED
  BY <1>1, <1>2, PTL DEF SafeSpec
-----------------------------------------------------------------------------
(***************************************************************************)
(* The inductive invariant.  The conjuncts that speak of the swap are      *)
(* disturbed only by ChangeBottomSheetView, DismissalCompleted and         *)
(* ViewDidAppear; a pan moves frames and nothing else they depend on.      *)
(***************************************************************************)

\* A pan, whatever its phase, leaves the swap alone and keeps a sheet that was
\* on the screen on it.
LEMMA PansSpareTheSwap ==
  ASSUME TypeOK, NEW s \in Sheet,
         PanBegan(s) \/ PanChanged(s) \/ PanEnded(s) \/ PanCancelled(s)
  PROVE  /\ UNCHANGED <<currentBottomSheet, made, children, front, appeared,
                        pending, overlapped>>
         /\ \A t \in Sheet : OnScreen(t) => OnScreen(t)'
<1> USE DEF TypeOK, OnScreen, Panned
<1>1. CASE PanBegan(s)
  BY <1>1 DEF PanBegan
<1>2. CASE PanChanged(s)
  BY <1>2 DEF PanChanged
<1>3. CASE PanEnded(s)
  BY <1>3 DEF PanEnded, AnimateTo
<1>4. CASE PanCancelled(s)
  BY <1>4 DEF PanCancelled
<1> QED
  BY <1>1, <1>2, <1>3, <1>4

\* The first sheet is added and in front, has not appeared, and nothing is dismissed.
LEMMA InitEstablishesIInv == Init => IInv
<1> SUFFICES ASSUME NEW s \in Small,
                    currentBottomSheet = s, made = {s}, children = {s},
                    front = s, appeared = {}, panning = {},
                    frame = [t \in Sheet |-> "below"],
                    smallMode = [t \in Sheet |-> TRUE],
                    pending = [t \in Sheet |-> 0],
                    overlapped = FALSE
             PROVE  IInv
  BY DEF Init
<1>1. TypeOK
  BY DEF TypeOK, Sheet, Places, Panned
<1>2. s \in Sheet /\ \A t \in Sheet : pending[t] = 0
  BY DEF Sheet
<1>3. Bookkeeping /\ DismissedOnce /\ FrontIsCurrent
  BY <1>2 DEF Bookkeeping, DismissedOnce, FrontIsCurrent
<1>4. PresentationPending /\ SerialSwapShowsCurrent
  BY DEF PresentationPending, SerialSwapShowsCurrent
<1>5. OneSwapAtATime
  BY <1>2 DEF OneSwapAtATime, InFlight
<1> QED
  BY <1>1, <1>3, <1>4, <1>5 DEF IInv

\* changeBottomSheetView: the dismissal of the old sheet is what will add the new one.
LEMMA ChangePreservesIInv ==
  ASSUME IInv, TypeOK', NEW s \in Sheet, ChangeBottomSheetView(s)
  PROVE  IInv'
<1> DEFINE old == currentBottomSheet
<1> USE DEF IInv, TypeOK
<1>1. /\ old \in Sheet /\ old \in made /\ s \notin made /\ s # old
      /\ s \notin children /\ s \notin appeared
  BY DEF ChangeBottomSheetView, Bookkeeping
<1>2. /\ currentBottomSheet' = s /\ made' = made \union {s}
      /\ pending' = [pending EXCEPT ![old] = pending[old] + 1]
      /\ children' = children /\ front' = front /\ appeared' = appeared
      /\ overlapped' = (overlapped \/ InFlight)
  BY DEF ChangeBottomSheetView, DismissBottomSheet
<1>3. pending[old] = 0 /\ pending[s] = 0 /\ pending'[old] = 1
  <2>1. pending[old] = 0
    BY DEF DismissedOnce
  <2>2. pending[s] \in Nat /\ ~(pending[s] > 0)
    BY <1>1 DEF Bookkeeping
  <2> QED
    BY <1>1, <1>2, <2>1, <2>2
<1>4. \A t \in Sheet : t # old => pending'[t] = pending[t]
  BY <1>2
<1>5. Bookkeeping'
  BY <1>1, <1>2, <1>4 DEF Bookkeeping
<1>6. DismissedOnce'
  BY <1>1, <1>2, <1>3, <1>4 DEF DismissedOnce
<1>7. PresentationPending' /\ FrontIsCurrent'
  BY <1>1, <1>2, <1>3 DEF PresentationPending, FrontIsCurrent, InFlight
<1>8. OneSwapAtATime'
  <2> SUFFICES ASSUME ~overlapped'
               PROVE  /\ \A t, u \in Sheet : pending'[t] > 0 /\ pending'[u] > 0 => t = u
                      /\ currentBottomSheet' \notin children'
    BY DEF OneSwapAtATime
  <2>1. ~InFlight
    BY <1>2
  <2>2. \A t \in Sheet : t # old => ~(pending'[t] > 0)
    BY <1>4, <2>1 DEF InFlight
  <2> QED
    BY <1>1, <1>2, <2>2
<1>9. SerialSwapShowsCurrent'
  BY <1>1, <1>2 DEF SerialSwapShowsCurrent
<1> QED
  BY <1>5, <1>6, <1>7, <1>8, <1>9

\* openNewBottomSheet: the sheet asked for last is added and in front.
LEMMA CompletionPreservesIInv ==
  ASSUME IInv, TypeOK', NEW s \in Sheet, DismissalCompleted(s)
  PROVE  IInv'
<1> DEFINE cur == currentBottomSheet
<1> USE DEF IInv, TypeOK
<1>1. /\ cur \in Sheet /\ pending[s] = 1 /\ pending[cur] = 0 /\ s # cur
  BY DEF DismissalCompleted, DismissedOnce
<1>2. /\ currentBottomSheet' = cur /\ made' = made /\ appeared' = appeared
      /\ children' = children \union {cur} /\ front' = cur
      /\ pending' = [pending EXCEPT ![s] = pending[s] - 1]
      /\ overlapped' = overlapped
  BY DEF DismissalCompleted, OpenNewBottomSheet
<1>3. pending'[s] = 0 /\ \A t \in Sheet : t # s => pending'[t] = pending[t]
  BY <1>1, <1>2
<1>4. Bookkeeping'
  BY <1>2, <1>3 DEF Bookkeeping
<1>5. DismissedOnce'
  BY <1>1, <1>2, <1>3 DEF DismissedOnce
<1>6. PresentationPending' /\ FrontIsCurrent'
  BY <1>2 DEF PresentationPending, FrontIsCurrent
<1>7. ~overlapped => \A t \in Sheet : pending'[t] = 0
  BY <1>1, <1>3 DEF OneSwapAtATime
<1>8. ~overlapped => cur \notin appeared
  BY <1>1 DEF OneSwapAtATime, InFlight, Bookkeeping
<1>9. OneSwapAtATime'
  BY <1>2, <1>7 DEF OneSwapAtATime, InFlight
<1>10. SerialSwapShowsCurrent'
  BY <1>2, <1>8 DEF SerialSwapShowsCurrent
<1> QED
  BY <1>4, <1>5, <1>6, <1>9, <1>10

\* viewDidAppear moves the frame of a sheet, and nothing the swaps rely on.
LEMMA AppearingPreservesIInv ==
  ASSUME IInv, TypeOK', NEW s \in Sheet, ViewDidAppear(s)
  PROVE  IInv'
<1> USE DEF IInv, TypeOK
<1>1. /\ currentBottomSheet' = currentBottomSheet /\ made' = made
      /\ children' = children /\ front' = front /\ pending' = pending
      /\ overlapped' = overlapped /\ appeared' = appeared \union {s}
      /\ frame' = [frame EXCEPT ![s] = "small"] /\ s \in children
  BY DEF ViewDidAppear, AnimateTo
<1>2. Bookkeeping' /\ DismissedOnce' /\ FrontIsCurrent'
  BY <1>1 DEF Bookkeeping, DismissedOnce, FrontIsCurrent
<1>3. PresentationPending' /\ OneSwapAtATime'
  BY <1>1 DEF PresentationPending, OneSwapAtATime, InFlight
<1>4. SerialSwapShowsCurrent'
  BY <1>1 DEF SerialSwapShowsCurrent, OnScreen
<1> QED
  BY <1>2, <1>3, <1>4

\* A step that leaves the swaps alone, as those of a drag, keeps the invariant.
LEMMA SwapUntouchedPreservesIInv ==
  ASSUME IInv, TypeOK',
         UNCHANGED <<currentBottomSheet, made, children, front, appeared,
                     pending, overlapped>>,
         \A t \in Sheet : OnScreen(t) => OnScreen(t)'
  PROVE  IInv'
<1> USE DEF IInv, TypeOK
<1>1. Bookkeeping' /\ DismissedOnce' /\ FrontIsCurrent'
  BY DEF Bookkeeping, DismissedOnce, FrontIsCurrent
<1>2. PresentationPending' /\ OneSwapAtATime'
  BY DEF PresentationPending, OneSwapAtATime, InFlight
<1>3. SerialSwapShowsCurrent'
  BY DEF SerialSwapShowsCurrent, OnScreen
<1> QED
  BY <1>1, <1>2, <1>3

\* IInv is an invariant.
THEOREM InductiveInvariant == SafeSpec => []IInv
<1>1. IInv /\ TypeOK' /\ [Next]_vars => IInv'
  <2> SUFFICES ASSUME IInv, TypeOK', [Next]_vars
               PROVE  IInv'
    OBVIOUS
  <2>1. ASSUME NEW s \in Sheet, ChangeBottomSheetView(s)
        PROVE  IInv'
    BY <2>1, ChangePreservesIInv
  <2>2. ASSUME NEW s \in Sheet, DismissalCompleted(s)
        PROVE  IInv'
    BY <2>2, CompletionPreservesIInv
  <2>3. ASSUME NEW s \in Sheet, ViewDidAppear(s)
        PROVE  IInv'
    BY <2>3, AppearingPreservesIInv
  <2>4. ASSUME NEW s \in Sheet,
               PanBegan(s) \/ PanChanged(s) \/ PanEnded(s) \/ PanCancelled(s)
        PROVE  IInv'
    <3>1. TypeOK
      BY DEF IInv
    <3> QED
      BY <2>4, <3>1, PansSpareTheSwap, SwapUntouchedPreservesIInv
  <2>5. CASE UNCHANGED vars
    BY <2>5, SwapUntouchedPreservesIInv DEF vars, OnScreen
  <2> QED
    BY <2>1, <2>2, <2>3, <2>4, <2>5 DEF Next
<1> QED
  BY <1>1, InitEstablishesIInv, TypeInvariant, PTL DEF SafeSpec

\* No dismissal is started twice, and the current sheet's own never is.
THEOREM DismissalsAreSingle == SafeSpec => []DismissedOnce
  BY InductiveInvariant, PTL DEF IInv

\* A current sheet that has not been added is always awaited by a completion.
THEOREM NoLostWakeUp == SafeSpec => []PresentationPending
  BY InductiveInvariant, PTL DEF IInv

\* However many swaps overlap, the current sheet, once added, is in front.
THEOREM CurrentInFront == SafeSpec => []FrontIsCurrent
  BY InductiveInvariant, PTL DEF IInv

\* Without overlap a current sheet that has appeared is on the screen.
THEOREM SerialSwapsShow == SafeSpec => []SerialSwapShowsCurrent
  BY InductiveInvariant, PTL DEF IInv
-----------------------------------------------------------------------------
(***************************************************************************)
(* What a step may never do.                                               *)
(***************************************************************************)

\* A superseded sheet that is gone (not held, nothing owed to it) stays gone: every handler that puts a sheet
\* on the screen needs it current, awaiting viewDidAppear or under a finger.
LEMMA GoneStep ==
  ASSUME IInv, [Next]_vars, NEW s \in Sheet, Gone(s)
  PROVE  Gone(s)'
<1> USE DEF IInv, TypeOK, Gone, OnScreen
<1>1. ASSUME NEW t \in Sheet, ChangeBottomSheetView(t)
      PROVE  Gone(s)'
  BY <1>1 DEF ChangeBottomSheetView, DismissBottomSheet
<1>2. ASSUME NEW t \in Sheet, DismissalCompleted(t)
      PROVE  Gone(s)'
  BY <1>2 DEF DismissalCompleted, OpenNewBottomSheet
<1>3. ASSUME NEW t \in Sheet, ViewDidAppear(t)
      PROVE  Gone(s)'
  BY <1>3 DEF ViewDidAppear, AnimateTo
<1>4. ASSUME NEW t \in Sheet,
             PanBegan(t) \/ PanChanged(t) \/ PanEnded(t) \/ PanCancelled(t)
      PROVE  Gone(s)'
  <2>1. CASE PanBegan(t)
    BY <2>1 DEF PanBegan, Touchable
  <2>2. CASE PanChanged(t)
    BY <2>2 DEF PanChanged
  <2>3. CASE PanEnded(t)
    BY <2>3 DEF PanEnded, AnimateTo
  <2>4. CASE PanCancelled(t)
    BY <2>4 DEF PanCancelled
  <2> QED
    BY <1>4, <2>1, <2>2, <2>3, <2>4
<1>5. CASE UNCHANGED vars
  BY <1>5 DEF vars
<1> QED
  BY <1>1, <1>2, <1>3, <1>4, <1>5 DEF Next

\* Once gone, a superseded sheet never returns to the screen.
THEOREM SupersededStaysGone == SafeSpec => GoneStaysGone
<1>1. IInv /\ [Next]_vars => [\A s \in Sheet : Gone(s) => Gone(s)']_vars
  BY GoneStep
<1> QED
  BY <1>1, InductiveInvariant, PTL DEF SafeSpec, GoneStaysGone

\* A current sheet left below the screen stays there until the next swap.
LEMMA LostStep ==
  ASSUME IInv, [Next]_vars, Lost
  PROVE  Lost' \/ currentBottomSheet' # currentBottomSheet
<1> USE DEF IInv, TypeOK, Lost
<1>1. ASSUME NEW t \in Sheet, ChangeBottomSheetView(t)
      PROVE  currentBottomSheet' # currentBottomSheet
  BY <1>1 DEF ChangeBottomSheetView, Bookkeeping
<1>2. ASSUME NEW t \in Sheet, DismissalCompleted(t)
      PROVE  Lost'
  BY <1>2 DEF DismissalCompleted, OpenNewBottomSheet
<1>3. ASSUME NEW t \in Sheet, ViewDidAppear(t)
      PROVE  Lost'
  BY <1>3 DEF ViewDidAppear, AnimateTo
<1>4. ASSUME NEW t \in Sheet,
             PanBegan(t) \/ PanChanged(t) \/ PanEnded(t) \/ PanCancelled(t)
      PROVE  Lost'
  <2>1. CASE PanBegan(t)
    BY <2>1 DEF PanBegan, Touchable, OnScreen
  <2>2. CASE PanChanged(t)
    BY <2>2 DEF PanChanged
  <2>3. CASE PanEnded(t)
    BY <2>3 DEF PanEnded, AnimateTo
  <2>4. CASE PanCancelled(t)
    BY <2>4 DEF PanCancelled
  <2> QED
    BY <1>4, <2>1, <2>2, <2>3, <2>4
<1>5. CASE UNCHANGED vars
  BY <1>5 DEF vars
<1> QED
  BY <1>1, <1>2, <1>3, <1>4, <1>5 DEF Next

\* A lost current sheet comes back only by being replaced.
THEOREM LostSheetIsReplaced == SafeSpec => LostUntilNextSwap
<1>1. IInv /\ [Next]_vars
        => [Lost => Lost' \/ currentBottomSheet' # currentBottomSheet]_vars
  BY LostStep
<1> QED
  BY <1>1, InductiveInvariant, PTL DEF SafeSpec, LostUntilNextSwap
-----------------------------------------------------------------------------
(***************************************************************************)
(* Refinement: a swap asks for a sheet, a completion puts the sheet wanted *)
(* on top unless it is there already, and the rest does not concern the    *)
(* slot.                                                                   *)
(***************************************************************************)

\* Every behaviour of the sheets is a behaviour of the slot, liveness apart.
THEOREM SlotRefinement == SafeSpec => Slot!SafeSpec
<1>1. Init => Slot!Init
  BY DEF Init, Slot!Init, Sheet
<1>2. IInv /\ [Next]_vars => [Slot!Next]_(Slot!slotVars)
  <2> SUFFICES ASSUME IInv, [Next]_vars
               PROVE  [Slot!Next]_(Slot!slotVars)
    OBVIOUS
  <2> USE DEF Slot!Next, Slot!slotVars
  <2>1. ASSUME NEW s \in Sheet, ChangeBottomSheetView(s)
        PROVE  Slot!Request(s)
    BY <2>1 DEF ChangeBottomSheetView, Slot!Request
  <2>2. ASSUME NEW s \in Sheet, DismissalCompleted(s)
        PROVE  Slot!Present \/ UNCHANGED Slot!slotVars
    BY <2>2 DEF DismissalCompleted, OpenNewBottomSheet, Slot!Present
  <2>3. ASSUME NEW s \in Sheet, ViewDidAppear(s)
        PROVE  UNCHANGED Slot!slotVars
    BY <2>3 DEF ViewDidAppear, AnimateTo
  <2>4. ASSUME NEW s \in Sheet,
               PanBegan(s) \/ PanChanged(s) \/ PanEnded(s) \/ PanCancelled(s)
        PROVE  UNCHANGED Slot!slotVars
    BY <2>4, PansSpareTheSwap DEF IInv
  <2>5. CASE UNCHANGED vars
    BY <2>5 DEF vars
  <2> QED
    BY <2>1, <2>2, <2>3, <2>4, <2>5 DEF Next
<1> QED
  BY <1>1, <1>2, InductiveInvariant, PTL DEF SafeSpec, Slot!SafeSpec
=============================================================================
