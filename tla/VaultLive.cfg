SPECIFICATION FairSpec
CONSTANTS
  d1 = d1
  d2 = d2
  Devices = {d1, d2}
  Contents = {s1, s2}
  NoContent = NoContent
  MaxVersions <- MCKeepOne
  ScanPage = 1
  Chunks = 2
  MaxMessages = 2
PROPERTY CallsReturn
