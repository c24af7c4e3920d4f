CONSTANTS
  Devices = {d1, d2}
  Contents = {c1, c2, c3}
  Empty = Empty
  Broken = Broken
  Absent = Absent
  None = None
  MaxVersions = 2
  MaxSends = 3
SYMMETRY MCSymmetry
SPECIFICATION MCSpec
PROPERTY RestoreThenConflict
