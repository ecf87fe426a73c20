CONSTANTS
  MaxDistance = 1
  Bench = 0
  Cap = 2
  MaxTries = 1
  Drains = {d1, d2}
  MaxSeq = 3
SYMMETRY Symmetry
SPECIFICATION UploadSpec
INVARIANTS StorageMirrorsQueue OneEntryPerKey
CHECK_DEADLOCK FALSE
