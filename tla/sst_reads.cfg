CONSTANTS
  MaxKey = 2
  Value <- MCValues
  Blank = " "
  Tombstone = Tombstone
  Stride = 2
  BitCount = 8
  Hashes <- MCHashes
  Steps = {0, 1}
  MaxVersions = 4
SPECIFICATION Spec
INVARIANT TypeOK
INVARIANT TablesSorted
INVARIANT ReadsExact
PROPERTY ResultsKept
CHECK_DEADLOCK FALSE
