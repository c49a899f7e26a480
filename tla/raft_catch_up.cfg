CONSTANTS
  Node <- Nodes3
  Peers <- Peers3
  Garbage = Garbage
  MaxElections = 1
  MaxProposals = 1
  MaxBusy = 9
  MaxStops = 1
  MaxRestarts = 1
SPECIFICATION FairSpec
INVARIANT TypeOK
PROPERTY ProposalReturns
PROPERTY Converges
CHECK_DEADLOCK FALSE
