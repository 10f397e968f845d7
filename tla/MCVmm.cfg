SPECIFICATION Spec
CONSTANTS
  f1 = f1
  f2 = f2
  f3 = f3
  f4 = f4
  f5 = f5
  f6 = f6
  f7 = f7
  t1 = t1
  t2 = t2
  NULL = NULL
  NONE = NONE
  Frames <- MCFrames
  Targets <- MCTargets
  Levels = 3
  Indices = {0, 1}
  First = 0
  VPages <- MCVPages
  Reuse = TRUE
SYMMETRY Symmetry
INVARIANTS
  TypeOK
  TranslationsExact
  TablesApart
CHECK_DEADLOCK FALSE
