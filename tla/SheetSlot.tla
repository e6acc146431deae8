------------------------------ MODULE SheetSlot ------------------------------
(***************************************************************************)
(* What the home screen promises about its bottom sheet, with nothing of   *)
(* how the swap is animated: there is one slot.  A tap asks for a new      *)
(* sheet, which at once becomes the wanted one; some time later the wanted *)
(* sheet is put on top.  A sheet that has been superseded is never put on  *)
(* top again, and the wanted sheet does not stay waiting for ever.         *)
(***************************************************************************)
CONSTANT Sheet          \* the bottom sheet view controllers

VARIABLES
  wanted,               \* the sheet asked for last
  top,                  \* the sheet put on top last
  asked                 \* every sheet asked for so far

slotVars == <<wanted, top, asked>>

Init == \E s \in Sheet : wanted = s /\ top = s /\ asked = {s}

Request(s) ==
  /\ s \notin asked
  /\ wanted' = s
  /\ asked' = asked \union {s}
  /\ UNCHANGED top

Present ==
  /\ top # wanted
  /\ top' = wanted
  /\ UNCHANGED <<wanted, asked>>

Next == Present \/ \E s \in Sheet : Request(s)

SafeSpec == Init /\ [][Next]_slotVars

Spec == SafeSpec /\ WF_slotVars(Present)
=============================================================================
