CONSTANTS
  Key = {k1, k2}
  Value = {v1}
  Tombstone = Tombstone
  None = None
  FlushThreshold = 1
  CompactionTrigger = 3
  GroupCommitEvery = 1
  Features = {"crash", "shutdown", "io_faults"}
  MaxSeq = 4
  MaxRestarts = 1
SYMMETRY Symmetry
SPECIFICATION Spec
 
INVARIANT ManifestFilesExist
INVARIANT NoDuplicates
INVARIANT GetSeesHistory
 
PROPERTY ImplementsMap
