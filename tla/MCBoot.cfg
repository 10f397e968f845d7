\* The firmware allocates once for itself, at any time.
SPECIFICATION Spec
CONSTANTS
  N = 9
  Memories <- MCMemories
  Stack <- MCStack
  Files <- MCFiles
  ReadCap = 3
  Preferred = 2
  VirtualBase = 20
  Window = 2
  TableSizes <- MCTableSizes
  MaxEntries = 8
  MaxEvents = 1
INVARIANTS
  TypeOK
  HandoffSafe
  KernelInPlace
\* The firmware has the machine back, or the kernel has.
CHECK_DEADLOCK FALSE
