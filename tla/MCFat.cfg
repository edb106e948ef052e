SPECIFICATION Spec
CONSTANTS
  a = a
  b = b
  Files = {a, b}
  FSINFO = FSINFO
  NOFILE = NOFILE
  n_fatent = 5
  PerSector = 3
  HasInfo = TRUE
  InitCards <- Cards
  Fils = {1}
  bcs = 1
  ReadOnly = {}
  Calls <- FileCalls
  Modes <- PlainModes
  MaxBytes = 2
  MaxOffset = 4
INVARIANTS FilesSound NoLostClusters FreeCountExact
PROPERTIES CloseCommits
