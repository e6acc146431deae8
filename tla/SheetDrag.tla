------------------------------ MODULE SheetDrag -------------------------------
(***************************************************************************)
(* The drag of one standard sheet, in points: panGesture and what it       *)
(* leaves behind when the drag ends, is cancelled by the system, or goes   *)
(* on while the sheet is dismissed.  BottomSheets has the same handlers    *)
(* over five places instead of points; this module shows that the points   *)
(* behave as those places say.                                             *)
(***************************************************************************)
EXTENDS Integers

CONSTANT Height       \* UIScreen.main.bounds.height

Margin == 200         \* the rests are Margin from the top and from the bottom
Slack == 20           \* how far a drag must go to change the mode

\* The shortest screen of iOS 12 has 568 points; the thresholds of the two rests
\* do not overlap.
HeightAssumption == Height \in Nat /\ Height > 2 * (Margin + Slack)

VARIABLES
  y,           \* frame.minY
  smallMode,   \* the flag of the view controller
  panning,     \* a finger is dragging the sheet
  dismissed,   \* dismissBottomSheet has been called
  cancelled    \* history: the last drag was cancelled

vars == <<y, smallMode, panning, dismissed, cancelled>>

SmallRest == Height - Margin
BigRest == Margin

DragTypeOK ==
  /\ y \in BigRest..SmallRest \union {Height}
  /\ smallMode \in BOOLEAN /\ panning \in BOOLEAN
  /\ dismissed \in BOOLEAN /\ cancelled \in BOOLEAN

\* The sheet has appeared, and animateOpen has raised it.
Init ==
  /\ y = SmallRest /\ smallMode = TRUE
  /\ panning = FALSE /\ dismissed = FALSE /\ cancelled = FALSE
-----------------------------------------------------------------------------
\* Slip: only the upper rest is enforced.
SlipClamp(newY) == IF newY < BigRest THEN BigRest ELSE newY

Clamp(newY) ==
  IF newY < BigRest THEN BigRest
  ELSE IF newY > SmallRest THEN SmallRest ELSE newY

\* A dismissed sheet is off the screen, and gets no new touch.
PanBegan ==
  /\ ~panning /\ ~dismissed
  /\ panning' = TRUE
  /\ UNCHANGED <<y, smallMode, dismissed, cancelled>>

\* .changed: the edge moves by the translation, which is then reset.
PanChanged(translation) ==
  /\ panning
  /\ y' = Clamp(y + translation)
  /\ UNCHANGED <<smallMode, panning, dismissed, cancelled>>

\* Slip: in big mode the end of a short drag does not animate the sheet back.
SlipPanEnded ==
  /\ panning
  /\ panning' = FALSE /\ cancelled' = FALSE
  /\ IF smallMode THEN /\ smallMode' = (y > SmallRest - Slack)
                       /\ y' = IF smallMode' THEN SmallRest ELSE BigRest
                  ELSE /\ smallMode' = ~(y < BigRest + Slack)
                       /\ y' = IF smallMode' THEN SmallRest ELSE y
  /\ UNCHANGED dismissed

\* Slip: the test of the small mode includes the threshold.
SlipThreshold ==
  /\ panning
  /\ panning' = FALSE /\ cancelled' = FALSE
  /\ smallMode' = IF smallMode THEN y >= SmallRest - Slack ELSE ~(y < BigRest + Slack)
  /\ y' = IF smallMode' THEN SmallRest ELSE BigRest
  /\ UNCHANGED dismissed

\* .ended: the mode changes once the edge has left the neighbourhood of its rest.
PanEnded ==
  /\ panning
  /\ panning' = FALSE /\ cancelled' = FALSE
  /\ smallMode' = IF smallMode THEN y > SmallRest - Slack ELSE ~(y < BigRest + Slack)
  /\ y' = IF smallMode' THEN SmallRest ELSE BigRest
  /\ UNCHANGED dismissed

\* .cancelled (a call comes in) has no branch in panGesture.
PanCancelled ==
  /\ panning
  /\ panning' = FALSE /\ cancelled' = TRUE
  /\ UNCHANGED <<y, smallMode, dismissed>>

DismissBottomSheet ==
  /\ ~dismissed
  /\ dismissed' = TRUE
  /\ y' = Height
  /\ UNCHANGED <<smallMode, panning, cancelled>>

Next ==
  \/ PanBegan
  \/ \E translation \in -Height..Height : PanChanged(translation)
  \/ PanEnded
  \/ PanCancelled
  \/ DismissBottomSheet

Spec == Init /\ [][Next]_vars
-----------------------------------------------------------------------------
(***************************************************************************)
(* Properties                                                              *)
(***************************************************************************)

\* A sheet that no finger holds is at the rest of its mode.  A cancelled drag
\* leaves it anywhere between the rests, and only the next drag that ends brings
\* it back; a drag that outlives the dismissal leaves the sheet on the screen.
StrandedOnlyByCancel ==
  ~panning /\ ~cancelled =>
    \/ y = IF smallMode THEN SmallRest ELSE BigRest
    \/ dismissed /\ y = Height

Place ==
  CASE y = Height -> "below"
    [] y = SmallRest -> "small"
    [] y = BigRest -> "big"
    [] y > SmallRest - Slack /\ y < SmallRest -> "nearSmall"
    [] y < BigRest + Slack /\ y > BigRest -> "nearBig"
    [] OTHER -> "middle"

\* The sheet as one of two of BottomSheets; "next" takes its place.
Places == INSTANCE BottomSheets WITH
  Small <- {}, Standard <- {"sheet", "next"},
  currentBottomSheet <- IF dismissed THEN "next" ELSE "sheet",
  made <- IF dismissed THEN {"sheet", "next"} ELSE {"sheet"},
  children <- {"sheet"}, appeared <- {"sheet"}, front <- "sheet",
  frame <- [s \in {"sheet", "next"} |-> IF s = "sheet" THEN Place ELSE "below"],
  smallMode <- [s \in {"sheet", "next"} |-> IF s = "sheet" THEN smallMode ELSE TRUE],
  pending <- [s \in {"sheet", "next"} |-> IF s = "sheet" /\ dismissed THEN 1 ELSE 0],
  panning <- IF panning THEN {"sheet"} ELSE {},
  overlapped <- FALSE

\* Every step in points is a step of BottomSheets in places: the five places are
\* all that panGesture tells apart.
PointsFollowPlaces == [][Places!Next]_vars

\* The drag in points keeps what BottomSheets says of it in places, and strands a
\* sheet between its rests only when the system cancels it.
DragFollowsPlaces == [](DragTypeOK /\ StrandedOnlyByCancel) /\ PointsFollowPlaces
=============================================================================
