CONSTANTS
  Node <- Nodes3
  Peers <- Peers3
  Garbage = Garbage
  Client <- Clients
  Wants <- WriterAndOperator
  MaxElections = 2
  MaxProposals = 1
  MaxBusy = 2
  MaxStops = 1
  MaxRestarts = 0
SPECIFICATION ClusterSpec
INVARIANT ClusterTypeOK
INVARIANT RedirectNamesElected
INVARIANT AckedKept
CHECK_DEADLOCK FALSE
