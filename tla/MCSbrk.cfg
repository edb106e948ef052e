SPECIFICATION Spec
CONSTANTS
  heap_begin = 16
  HEAP_SIZE = 8
  Increments <- MCIncrements
INVARIANTS
  BreakInHeap
  OwnedDisjoint
