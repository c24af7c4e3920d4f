SPECIFICATION Spec
CONSTANTS
  f1 = f1
  f2 = f2
  a = a
  b = b
  Files = {f1, f2}
  Data = {a, b}
  Sent <- MCSent
  None = None
  MaxRetries = 1
  MaxVersions = 2
  MaxWrites = 2
INVARIANTS NoRepeats
PROPERTIES BackedUp PullLosesNothing SyncedIsStored OperationsEnd
