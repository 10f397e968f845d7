SPECIFICATION Spec
CONSTANTS
  PAGE_SIZE = 4096
  LastFrame = 5
  MemoryMaps <- MCMemoryMaps
  Junk <- MCJunk
INVARIANTS
  TypeOK
  FreeListIntact
  PagesAccounted
  CountersExact
PROPERTIES
  ImplementsPageAllocator
