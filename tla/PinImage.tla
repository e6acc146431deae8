------------------------------- MODULE PinImage -------------------------------
(***************************************************************************)
(* resizePinImage: the size a downloaded pin is drawn in.  Sizes are in    *)
(* points; the two sides of the new size are exact fractions.              *)
(***************************************************************************)
EXTENDS Naturals

CONSTANT MaxSide       \* bound on the sides of the images tried

maxWidth == 100
maxHeight == 80

VARIABLES size,        \* image.size
          newSize      \* what the marker gets; the image's own size before that

vars == <<size, newSize>>

Over(a, b) == [num |-> a, den |-> b]
AtMost(x, n) == x.num <= n * x.den

Sides == 1..MaxSide

Init ==
  \E w, h \in Sides :
    /\ size = [width |-> w, height |-> h]
    /\ newSize = [width |-> Over(w, 1), height |-> Over(h, 1)]

\* Slip: the branches are swapped.
SlipScaled(s) ==
  IF s.width > s.height
    THEN [width |-> Over(maxHeight * s.width, s.height), height |-> Over(maxHeight, 1)]
    ELSE [width |-> Over(maxWidth, 1), height |-> Over(maxWidth * s.height, s.width)]

\* Slip: the other side keeps its length.
SlipUnscaledSide(s) ==
  IF s.width > s.height
    THEN [width |-> Over(maxWidth, 1), height |-> Over(s.height, 1)]
    ELSE [width |-> Over(s.width, 1), height |-> Over(maxHeight, 1)]

\* The longer side decides which of the two limits is applied.
Scaled(s) ==
  IF s.width > s.height
    THEN [width |-> Over(maxWidth, 1), height |-> Over(maxWidth * s.height, s.width)]
    ELSE [width |-> Over(maxHeight * s.width, s.height), height |-> Over(maxHeight, 1)]

resizePinImage ==
  /\ newSize' = Scaled(size)
  /\ UNCHANGED size

Next == resizePinImage
Spec == Init /\ [][Next]_vars
-----------------------------------------------------------------------------
(***************************************************************************)
(* Properties                                                              *)
(***************************************************************************)

Resized == newSize = Scaled(size)
Fits == AtMost(newSize.width, maxWidth) /\ AtMost(newSize.height, maxHeight)

\* The pin keeps its proportions.
AspectKept ==
  newSize.width.num * newSize.height.den * size.height
    = newSize.height.num * newSize.width.den * size.width

\* Every image ends up within both limits, except one that is wider than high
\* but by less than the limits' 100 to 80; that one stays below 100 by 100.
OversizedPins ==
  Resized =>
    IF size.width > size.height /\ maxWidth * size.height > maxHeight * size.width
      THEN ~Fits /\ AtMost(newSize.width, maxWidth) /\ AtMost(newSize.height, maxWidth)
      ELSE Fits

\* A pin keeps its proportions, and leaves its limits in one case only.
PinSafety == AspectKept /\ OversizedPins
=============================================================================
