SPECIFICATION FairSpec
CONSTANTS
  a = a
  b = b
  Files = {a, b}
  FSINFO = FSINFO
  NOFILE = NOFILE
  n_fatent = 5
  PerSector = 3
  HasInfo = FALSE
  InitCards <- Cards
  Fils = {1}
  bcs = 1
  ReadOnly = {}
  Calls <- CrashCalls
  Modes <- CrashModes
  MaxBytes = 1
  MaxOffset = 2
INVARIANTS CardSound
PROPERTIES CallReturns
