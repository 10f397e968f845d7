\* Callers that do as the shell's help says, on a disk that once cannot read, and
\* with power lost up to twice between any two writes; a removal that was cut is
\* done over again.
SPECIFICATION Spec
CONSTANTS
  LastCluster = 5
  PerSector = 4
  Slots = 3
  Names <- MCNames
  ShortName <- MCShortName
  Paths <- TreePaths
  Calls = {"mkdir", "create", "remove", "rmdir"}
  FatCount = 2
  Images <- TreeImages
  InFat = {}
  FatRows <- NoRows
  Faults = {"read", "crash"}
  MaxFaults = 1
  MaxCrashes = 2
  Disciplined = TRUE
INVARIANTS
  TypeOK
  TreeSound
  NoLeak
  MirrorFollows
  CrashLeaksOneCluster
PROPERTIES
  ResultsHonest
  ImplementsNamespace
