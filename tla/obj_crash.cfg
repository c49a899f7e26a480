CONSTANTS
  Bucket = {b1}
  ObjectKey = {k1, k2}
  Data <- TwoObjects
  Broken = Broken
  ChunkSize = 2
  Caller = {c1, c2}
  Features = {}
  MaxFaults = 1
  MaxCalls <- TwoPuts
SYMMETRY Symmetry
SPECIFICATION Spec
INVARIANT TypeOK
INVARIANT GetReturnsWhole
INVARIANT MissingOnlyIfReplaced
 
INVARIANT NoGarbageLeft
INVARIANT IndexFollowsMetadata
 
CHECK_DEADLOCK FALSE
