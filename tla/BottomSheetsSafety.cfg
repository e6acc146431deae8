\* Five instances: four swaps, so that three dismissals can be in flight.
\* The app may be left alone for good, with every sheet made: no deadlock check.
SPECIFICATION SafeSpec
CONSTANTS
  Small = {sm1, sm2}
  Standard = {st1, st2, st3}
SYMMETRY Symmetry
CHECK_DEADLOCK FALSE
INVARIANTS
  TypeOK
  DismissedOnce
  PresentationPending
  FrontIsCurrent
  SerialSwapShowsCurrent
PROPERTIES
  GoneStaysGone
  LostUntilNextSwap
