CONSTANTS
  Key = {k1, k2}
  Value = {v1}
  Tombstone = Tombstone
  None = None
  FlushThreshold = 1
  CompactionTrigger = 2
  GroupCommitEvery = 2
  Features = {"shutdown", "checkpoint", "io_faults"}
  MaxSeq = 2
  MaxRestarts = 1
SPECIFICATION FairSpec
 
PROPERTY CallReturns
 
