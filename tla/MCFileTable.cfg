SPECIFICATION TableSpec
CONSTANTS
  a = a
  b = b
  absent = absent
  Files = {a, b, absent}
  FSINFO = FSINFO
  NOFILE = NOFILE
  n_fatent = 5
  PerSector = 3
  HasInfo = FALSE
  InitCards <- Cards
  FILE_AMOUNT = 2
  Fils = {1, 2}
  bcs = 1
  ReadOnly = {}
  Calls = {}
  Modes = {}
  MaxBytes = 2
  MaxOffset = 0
  Wrap = 8
  Jumps <- JumpsFew
INVARIANTS ClosedSlotInert
PROPERTIES ImplementsOpenFiles
