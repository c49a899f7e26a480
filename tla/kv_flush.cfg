CONSTANTS
  Key = {k1, k2}
  Value = {v1}
  Tombstone = Tombstone
  None = None
  FlushThreshold = 2
  CompactionTrigger = 2
  GroupCommitEvery = 2
  Features = {}
  MaxSeq = 6
  MaxRestarts = 0
SYMMETRY Symmetry
SPECIFICATION Spec
INVARIANT TypeOK
INVARIANT SingleFlight
INVARIANT CompactionExclusive
 
INVARIANT GetAtSeesHistory
