\* Every disk error, power lost at any time, and callers that call anything.
SPECIFICATION Spec
CONSTANTS
  LastCluster = 4
  PerSector = 4
  Slots = 3
  Names <- MCNames
  ShortName <- MCShortName
  Paths <- FewPaths
  Calls = {"mkdir", "remove", "rmdir"}
  FatCount = 1
  Images <- BadImages
  InFat = {4}
  FatRows <- SomeRows
  Faults = {"read", "write", "crash"}
  MaxFaults = 1
  MaxCrashes = 1
  Disciplined = FALSE
INVARIANTS
  RootSafe
PROPERTIES
  OperationsReturn
