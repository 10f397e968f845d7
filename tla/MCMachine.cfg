\* Any installation, cut short anywhere; a drive that fails two commands.
SPECIFICATION Spec
CONSTANTS
  Disks <- MCDisks
  Machines <- MCMachines
  MaxDisks = 3
  LastBlock <- MCLastBlock
  ESPBlocks = 2
  RootBlocks = 2
  Reserved = 3
  Wrap = 16
  MaxFaults = 1
  MaxCopied = 2
  PerSector = 2
  Addressable = 8
  MaxMounts = 2
  MaxCalls = 3
  MaxTroubles = 2
  Hda = "hda"
  Images <- MCImages
INVARIANTS
  TypeOK
  LayoutOnDisk
  RootIsMounted
PROPERTIES
  OnlyChosenPartitioned
  ServedVolumeStays
\* The installer has ended, and the kernel is not started or has made its calls.
CHECK_DEADLOCK FALSE
