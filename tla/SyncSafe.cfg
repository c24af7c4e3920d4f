SPECIFICATION MCSpec
CONSTANTS
  Devices = {d1, d2}
  Unlucky = {d1}
  MaxTroubles = 2
  Contents = {c1, c2}
  Empty = Empty
  Broken = Broken
  Absent = Absent
  None = None
  MaxVersions = 2
  MaxSends = 3
SYMMETRY MCSymmetry
INVARIANTS StateIsAVersion
PROPERTIES BackedUp CleanOverwrite ConflictProtection ImplementsHistory
