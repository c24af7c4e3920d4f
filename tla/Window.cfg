SPECIFICATION Spec
CONSTANTS
  t1 = t1
  t2 = t2
  a = a
  b = b
  ca = ca
  cb = cb
  Tokens = {t1, t2}
  Guilds = {a, b}
  Channels = {ca, cb}
  Games = {g1, g2}
  None = None
  Sees <- MCSees
  Home <- MCHome
  MaxQueue = 2
SYMMETRY MCSymmetry
INVARIANTS ListIsCurrent DialogMatches
PROPERTIES CreateFits ConflictSurfaces
