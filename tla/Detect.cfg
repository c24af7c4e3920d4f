SPECIFICATION DetectSpec
CONSTANTS
  Units <- MCUnits
  Roots <- MCRoots
  NameOrder <- MCNameOrder
  Like = {"valheim", "valheim2"}
  SaveNames = {"saves"}
  Noise = {"temp"}
  ById <- MCById
  ByName = Missing
  Missing = Missing
  Installed <- MCInstalled
  Processes <- MCProcesses
  Lower <- MCLower
  MaxWrites = 4
INVARIANTS FindsBest NearTheGame WritesAreFound OwnerIsFound
