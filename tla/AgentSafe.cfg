SPECIFICATION Spec
CONSTANTS
  Games = {g1, g2}
SYMMETRY MCSymmetry
INVARIANTS OpenHasNoPush ClosedIsBackedUp
