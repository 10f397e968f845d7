\* The drive answers at once; the table of partitions has two entries in use.
SPECIFICATION Spec
CONSTANTS
  Disks <- MCDisks
  Machines <- MCMachines
  MaxDisks = 3
  LastBlock <- MCLastBlock
  ESPBlocks = 2
  RootBlocks = 2
  Reserved = 3
  Wrap = 16
  MaxFaults = 1
  MaxCopied = 2
  PerSector = 2
  Addressable = 8
  MaxMounts = 2
  MaxCalls = 1
  MaxTroubles = 0
  Hda = "hda"
  Images <- MCImages
INVARIANT
  NoneMeansNone
CHECK_DEADLOCK FALSE
