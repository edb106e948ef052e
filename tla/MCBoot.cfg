SPECIFICATION StartupSpec
CONSTANTS
  p = p
  q = q
  r = r
  Sbss = 3
  Ebss = 20
  Top = 28
  Preinit = {p}
  Inits = {q, r}
  Objects <- SomeObjects
  HeapAt = 16
  heap_begin = 20
  HEAP_SIZE = 4
  Increments = {1, 2}
INVARIANTS ClearsBssOnly ObjectsSurvive
PROPERTIES ConstructedFromZero MainIsReached BreakAsSpecified
