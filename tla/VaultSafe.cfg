SPECIFICATION Spec
CONSTANTS
  d1 = d1
  d2 = d2
  Devices = {d1, d2}
  Contents = {s1, s2}
  NoContent = NoContent
  MaxVersions <- MCKeepOneOrTwo
  ScanPage = 2
  Chunks = 1
  MaxMessages = 4
SYMMETRY MCSymmetry
INVARIANTS NeverLost ScanComplete
PROPERTIES RecentKept PruneBounds ImplementsHistory
