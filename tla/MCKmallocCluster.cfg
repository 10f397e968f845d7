\* A caller that asks for a whole page.
SPECIFICATION Spec
CONSTANTS
  PAGE_SIZE = 24
  HEADER = 4
  WORD = 2
  Frames = {1, 2}
  Sizes = {5, 24}
  Calls = {"kmalloc", "kfree"}
  Careful = FALSE
INVARIANTS
  LargeEnough
