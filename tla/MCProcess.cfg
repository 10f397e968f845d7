\* Two processes of two threads; any of them may be destroyed, the running one too.
SPECIFICATION Spec
CONSTANTS
  MAX_PROCESSES = 2
  MAX_THREADS_PER_PROCESS = 2
  p1 = p1
  p2 = p2
  p3 = p3
  NULL = NULL
  Pages <- MCPages
SYMMETRY Symmetry
INVARIANTS
  TypeOK
  NoDeadThreadScheduled
  NoThreadForgotten
  PagesExclusive
  CountExact
PROPERTIES
  ImplementsRunQueue
