----------------------------- MODULE BottomSheets -----------------------------
(***************************************************************************)
(* The bottom sheet of the home screen: HomeViewController swaps it, and   *)
(* SmallBottomSheetViewController and StandardBottomSheetViewController    *)
(* animate it in and out.  Everything runs on the main thread, so a        *)
(* handler is one action; what makes the protocol hard is that the swap    *)
(* is split in two.  changeBottomSheetView starts the old sheet's          *)
(* dismissal and replaces the reference at once; the new sheet is added    *)
(* to the screen only when the animation's completion block posts          *)
(* "bottomSheetDismissed", and whatever sheet is current by then is the    *)
(* one that is added.  Taps, pans and view callbacks fall in between.      *)
(*                                                                         *)
(* A sheet's frame is abstracted to the side of the thresholds of          *)
(* panGesture its top edge (minY) is on; H is the height of the screen.    *)
(***************************************************************************)
EXTENDS Naturals

CONSTANTS
  Small,      \* the SmallBottomSheetViewController instances
  Standard    \* the StandardBottomSheetViewController instances

ASSUME SheetClassesDiffer == Small \intersect Standard = {}

Sheet == Small \union Standard

VARIABLES
  currentBottomSheet, \* the sheet HomeViewController holds
  made,               \* the sheets instantiated so far
  children,           \* the sheets added as child controller and subview
  front,              \* the child whose view was brought to the front last
  appeared,           \* the children that have had viewDidAppear
  frame,              \* where each sheet's top edge is
  smallMode,          \* the flag of each standard sheet
  pending,            \* dismissal animations whose completion is still to come
  panning,            \* the sheets a finger is dragging
  overlapped          \* history: a swap began before the one before it ended

vars == <<currentBottomSheet, made, children, front, appeared, frame,
          smallMode, pending, panning, overlapped>>

(***************************************************************************)
(* Frames.  "below" is y = H, off the screen; "small" and "big" are the    *)
(* two rests, y = H-200 (H-100 for a small sheet) and y = 200.  A pan      *)
(* leaves the edge anywhere between them: within 20 points of a rest,      *)
(* or in the middle.                                                       *)
(***************************************************************************)
Panned == {"small", "nearSmall", "middle", "nearBig", "big"}
Places == Panned \union {"below"}

\* y > H - 220, the test that ends a pan in small mode.
PastSmallEdge(y) == y \in {"below", "small", "nearSmall"}
\* y < 220, the test that ends a pan in big mode.
PastBigEdge(y) == y \in {"nearBig", "big"}

OnScreen(s) == s \in children /\ frame[s] # "below"
InFlight == \E s \in Sheet : pending[s] > 0

\* UIKit delivers no touch to a view outside the window, nor to one that an
\* animation without .allowUserInteraction is moving.
Touchable(s) == OnScreen(s) /\ pending[s] = 0

TypeOK ==
  /\ currentBottomSheet \in Sheet
  /\ made \subseteq Sheet
  /\ children \subseteq Sheet
  /\ front \in Sheet
  /\ appeared \subseteq Sheet
  /\ frame \in [Sheet -> Places]
  /\ smallMode \in [Sheet -> BOOLEAN]
  /\ pending \in [Sheet -> Nat]
  /\ panning \subseteq Sheet
  /\ overlapped \in BOOLEAN
-----------------------------------------------------------------------------
(***************************************************************************)
(* The handlers.  An operator whose name starts with "Slip" is a mistake   *)
(* that could be made in the definition that follows it; no action uses it.*)
(***************************************************************************)

\* viewDidLoad opens the initial list selection sheet; its viewDidAppear is
\* still to come.
Init ==
  \E s \in Small :
    /\ currentBottomSheet = s
    /\ made = {s}
    /\ children = {s}
    /\ front = s
    /\ appeared = {}
    /\ frame = [t \in Sheet |-> "below"]
    /\ smallMode = [t \in Sheet |-> TRUE]
    /\ pending = [t \in Sheet |-> 0]
    /\ panning = {}
    /\ overlapped = FALSE

\* Slip: the animation has no completion block.
SlipDismissSilently(s) ==
  /\ frame' = [frame EXCEPT ![s] = "below"]
  /\ UNCHANGED pending

\* The sheet's model frame leaves the screen at once; the completion block
\* runs later, even for a sheet that was never added to the screen.
DismissBottomSheet(s) ==
  /\ frame' = [frame EXCEPT ![s] = "below"]
  /\ pending' = [pending EXCEPT ![s] = @ + 1]

\* Slip: the reference is replaced before the old sheet is dismissed.
SlipReplaceThenDismiss(s) ==
  /\ s \in Sheet \ made
  /\ made' = made \union {s}
  /\ currentBottomSheet' = s
  /\ DismissBottomSheet(s)
  /\ overlapped' = (overlapped \/ InFlight)
  /\ UNCHANGED <<children, front, appeared, smallMode, panning>>

\* Dismiss the sheet held, hold the fresh sheet s instead.  Any of the open*VC
\* functions calls it, from a tap on a sheet or on a map marker, and a marker
\* can be tapped at any time: nothing waits for a dismissal in flight.
ChangeBottomSheetView(s) ==
  /\ s \in Sheet \ made
  /\ made' = made \union {s}
  /\ DismissBottomSheet(currentBottomSheet)
  /\ currentBottomSheet' = s
  /\ overlapped' = (overlapped \/ InFlight)
  /\ UNCHANGED <<children, front, appeared, smallMode, panning>>

\* Slip: the new view is inserted behind the others.
SlipOpenBehind ==
  /\ children' = children \union {currentBottomSheet}
  /\ frame' = [frame EXCEPT ![currentBottomSheet] = "below"]
  /\ UNCHANGED front

\* addChild, addSubview and didMove, then the frame goes to y = view.maxY, from
\* where animateOpen is to raise it.  For a sheet added before, addSubview only
\* brings the view to the front.
OpenNewBottomSheet ==
  /\ children' = children \union {currentBottomSheet}
  /\ front' = currentBottomSheet
  /\ frame' = [frame EXCEPT ![currentBottomSheet] = "below"]

\* The completion block of a dismissal posts "bottomSheetDismissed", which
\* HomeViewController observes.  The notification does not say which sheet.
DismissalCompleted(s) ==
  /\ pending[s] > 0
  /\ pending' = [pending EXCEPT ![s] = @ - 1]
  /\ OpenNewBottomSheet
  /\ UNCHANGED <<currentBottomSheet, made, appeared, smallMode, panning,
                 overlapped>>

\* animateOpen and animateToSmallMode set the same frame.
AnimateTo(s, y) == frame' = [frame EXCEPT ![s] = y]

\* Slip: the override does not call super.viewDidAppear, so nothing opens.
SlipAppearWithoutSuper(s) ==
  /\ s \in children \ appeared
  /\ appeared' = appeared \union {s}
  /\ UNCHANGED <<currentBottomSheet, made, children, front, frame, smallMode,
                 pending, panning, overlapped>>

\* Slip: animateOpen on every callback, whether or not the view has appeared.
SlipAppearAgain(s) ==
  /\ s \in children
  /\ appeared' = appeared \union {s}
  /\ AnimateTo(s, "small")
  /\ UNCHANGED <<currentBottomSheet, made, children, front, smallMode, pending,
                 panning, overlapped>>

\* UIKit calls viewDidAppear once the view is in the window and laid out, and
\* not again as the view never leaves the window; animateOpen raises the sheet.
ViewDidAppear(s) ==
  /\ s \in children \ appeared
  /\ appeared' = appeared \union {s}
  /\ AnimateTo(s, "small")
  /\ UNCHANGED <<currentBottomSheet, made, children, front, smallMode, pending,
                 panning, overlapped>>

\* panGesture, attached in StandardBottomSheetViewController.viewDidLoad.  A
\* drag that has begun keeps its touches even if the sheet is dismissed
\* meanwhile, by a tap of another finger on the map.
PanBegan(s) ==
  /\ s \in Standard \ panning
  /\ Touchable(s)
  /\ panning' = panning \union {s}
  /\ UNCHANGED <<currentBottomSheet, made, children, front, appeared, frame,
                 smallMode, pending, overlapped>>

\* Slip: the upper bound of the drag is not enforced.
SlipPanUnclamped(s) ==
  /\ s \in panning
  /\ \E y \in Panned \union {"above"} : frame' = [frame EXCEPT ![s] = y]
  /\ UNCHANGED <<currentBottomSheet, made, children, front, appeared, smallMode,
                 pending, panning, overlapped>>

\* The edge follows the finger, clamped between the two rests.
PanChanged(s) ==
  /\ s \in panning
  /\ \E y \in Panned : frame' = [frame EXCEPT ![s] = y]
  /\ UNCHANGED <<currentBottomSheet, made, children, front, appeared, smallMode,
                 pending, panning, overlapped>>

\* Where a drag that ends with the edge at y leaves the sheet: it changes mode
\* once it has moved 20 points away from the rest of its mode.
StaysSmall(s) ==
  \/ smallMode[s] /\ PastSmallEdge(frame[s])
  \/ ~smallMode[s] /\ ~PastBigEdge(frame[s])

PanEnded(s) ==
  /\ s \in panning
  /\ panning' = panning \ {s}
  /\ smallMode' = [smallMode EXCEPT ![s] = StaysSmall(s)]
  /\ AnimateTo(s, IF StaysSmall(s) THEN "small" ELSE "big")
  /\ UNCHANGED <<currentBottomSheet, made, children, front, appeared, pending,
                 overlapped>>

\* The recognizer is cancelled: panGesture handles only .changed and .ended.
PanCancelled(s) ==
  /\ s \in panning
  /\ panning' = panning \ {s}
  /\ UNCHANGED <<currentBottomSheet, made, children, front, appeared, frame,
                 smallMode, pending, overlapped>>

Next ==
  \E s \in Sheet :
    \/ ChangeBottomSheetView(s)
    \/ DismissalCompleted(s)
    \/ ViewDidAppear(s)
    \/ PanBegan(s)
    \/ PanChanged(s)
    \/ PanEnded(s)
    \/ PanCancelled(s)

SafeSpec == Init /\ [][Next]_vars

\* UIKit runs the completion block of every animation and the appearance
\* callback of every view added to the window.  Users owe nothing.
Spec ==
  /\ SafeSpec
  /\ \A s \in Sheet : WF_vars(DismissalCompleted(s)) /\ WF_vars(ViewDidAppear(s))
-----------------------------------------------------------------------------
(***************************************************************************)
(* Properties                                                              *)
(***************************************************************************)

\* changeBottomSheetView dismisses a sheet at most once, and never the sheet it
\* goes on to hold: an earlier completion cannot be the current sheet's own.
DismissedOnce ==
  /\ \A s \in Sheet : pending[s] \leq 1
  /\ pending[currentBottomSheet] = 0

\* No wake-up is lost between changeBottomSheetView and openNewBottomSheet: as
\* long as the current sheet has not been added, a completion is on its way.
PresentationPending == currentBottomSheet \notin children => InFlight

\* However the completions of several swaps are interleaved, the current sheet
\* lies over every older one as soon as it is on the screen.
FrontIsCurrent == currentBottomSheet \in children => front = currentBottomSheet

\* If every swap began after the one before it had ended, a current sheet that
\* has appeared is on the screen.  (Two swaps that overlap complete twice: the
\* second openNewBottomSheet moves the sheet the first one opened back below
\* the screen, and viewDidAppear does not come a second time to raise it.)
SerialSwapShowsCurrent ==
  ~overlapped => (currentBottomSheet \in appeared => OnScreen(currentBottomSheet))

\* A superseded sheet that is off the screen, that no finger drags and that
\* owes no viewDidAppear.
Gone(s) ==
  /\ s \in made \ {currentBottomSheet}
  /\ ~OnScreen(s)
  /\ s \notin panning
  /\ s \in children => s \in appeared

\* A superseded sheet that is gone never returns to the screen: no later completion
\* or dismissal can reach it.  (A drag still in progress and a viewDidAppear still
\* to come are no part of this: either can bring a superseded sheet back.)
GoneStaysGone == [][\A s \in Sheet : Gone(s) => Gone(s)']_vars

\* The current sheet has appeared, but is below the screen with no finger on it.
Lost ==
  /\ currentBottomSheet \in appeared
  /\ frame[currentBottomSheet] = "below"
  /\ currentBottomSheet \notin panning

\* Nothing brings a lost sheet back but the user opening another one.
LostUntilNextSwap ==
  [][Lost => Lost' \/ currentBottomSheet' # currentBottomSheet]_vars

\* The abstract slot: the sheet in front is the slot's content.
Slot == INSTANCE SheetSlot WITH
  wanted <- currentBottomSheet, top <- front, asked <- made

\* HomeViewController implements the slot: the sheet in front changes only to
\* the sheet asked for last, and under the fairness of UIKit it does change.
ImplementsSlot == Slot!Spec
=============================================================================
