CONSTANTS
  Key = {k1, k2}
  Value = {v1}
  Tombstone = Tombstone
  None = None
  FlushThreshold = 1
  CompactionTrigger = 2
  GroupCommitEvery = 1
  Features = {"shutdown", "checkpoint"}
  MaxSeq = 2
  MaxRestarts = 1
SYMMETRY Symmetry
SPECIFICATION Spec
INVARIANT DurableKeysFound
