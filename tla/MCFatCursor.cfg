SPECIFICATION Spec
CONSTANTS
  a = a
  b = b
  Files = {a, b}
  FSINFO = FSINFO
  NOFILE = NOFILE
  n_fatent = 5
  PerSector = 3
  HasInfo = TRUE
  InitCards <- Cards
  Fils = {1}
  bcs = 2
  ReadOnly = {a}
  Calls <- AllCalls
  Modes <- PlainModes
  MaxBytes = 3
  MaxOffset = 7
INVARIANTS TypeOK CursorOnChain UnmodifiedIsCurrent
PROPERTIES ShortOnlyWhenFull
