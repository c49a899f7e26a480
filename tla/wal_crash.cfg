CONSTANTS
  Key = {k1, k2}
  Torn = Torn
  Features = {"tears", "io_faults", "rotate"}
  MaxRecords = 4
  MaxFaults = 2
  MaxCrashes = 2
SYMMETRY Symmetry
SPECIFICATION Spec
INVARIANT TypeOK
INVARIANT CleanRecovers
 
PROPERTY ImplementsLog
