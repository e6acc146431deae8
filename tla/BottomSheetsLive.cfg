\* Three swaps, unbounded pans in between; no symmetry under liveness.
SPECIFICATION Spec
CONSTANTS
  Small = {sm1, sm2}
  Standard = {st1, st2}
CHECK_DEADLOCK FALSE
PROPERTIES
  ImplementsSlot
