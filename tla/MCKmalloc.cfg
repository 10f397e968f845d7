\* Three pages in any order; callers free areas of the first page only.
SPECIFICATION Spec
CONSTANTS
  PAGE_SIZE = 24
  HEADER = 4
  WORD = 2
  Frames = {1, 2, 3}
  Sizes = {0, 1, 4, 7, 20}
  Calls = {"kmalloc", "kfree", "krealloc"}
  Careful = TRUE
INVARIANTS
  TypeOK
  BlockListIntact
  AreasApart
  SpaceKept
