SPECIFICATION Spec
CONSTANTS
  Devices = {d1, d2}
  TTL = 1
  ScanPage = 1
  MaxMessages = 3
  MaxTime = 1
SYMMETRY MCSymmetry
INVARIANTS SeesWhoPlays
PROPERTY CloseLeavesNoMarker
