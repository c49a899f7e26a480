------------------------------ MODULE MCKVStore ------------------------------
(* Instances of KVStore for TLC. *)
EXTENDS KVStore, TLC

\* Keys are interchangeable.
Symmetry == Permutations(Key)

=============================================================================
