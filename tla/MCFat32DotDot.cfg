\* A volume of another system, a disk without errors, and callers that use "..".
SPECIFICATION Spec
CONSTANTS
  LastCluster = 6
  PerSector = 4
  Slots = 3
  Names <- MCNames
  ShortName <- MCShortName
  Paths <- DotDotPaths
  Calls = {"mkdir"}
  FatCount = 2
  Images <- ForeignImages
  InFat = {5, 6}
  FatRows <- SomeRows
  Faults = {}
  MaxFaults = 0
  MaxCrashes = 0
  Disciplined = FALSE
PROPERTIES
  MkdirCreates
