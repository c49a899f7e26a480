-------------------------------- MODULE MCWal --------------------------------
(* TLC model of Wal.                                                       *)
EXTENDS Wal, TLC

Symmetry == Permutations(Key)

==============================================================================
