CONSTANTS
  Node <- Nodes3
  Peers <- Peers3
  Garbage = Garbage
  MaxElections = 2
  MaxProposals = 2
  MaxBusy = 2
  MaxStops = 0
  MaxRestarts = 0
SPECIFICATION Spec
INVARIANT StateMachineSafety
CHECK_DEADLOCK FALSE
