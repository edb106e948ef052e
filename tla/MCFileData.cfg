SPECIFICATION Spec
CONSTANTS
  SS = 2
  csize = 2
  Clusters = {2, 3}
  Byte = {0, 1}
  MARK = 1
  Lengths = {1, 4}
  Offsets = {0, 3, 6}
INVARIANT TypeOK
PROPERTIES ReadsWhatWasWritten OthersUntouched
