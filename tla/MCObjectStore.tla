---------------------------- MODULE MCObjectStore ----------------------------
(* Instances of ObjectStore for TLC. *)
EXTENDS ObjectStore, TLC

\* An object of two chunks, the second not full, and one of one chunk.
TwoObjects == {<<1, 1, 1>>, <<2>>}

\* Two puts and one of each other operation.
TwoPuts == [op \in Operation |-> IF op = "put" THEN 2 ELSE 1]

\* Callers are interchangeable, and so are object keys.
Symmetry == Permutations(Caller) \cup Permutations(ObjectKey)

=============================================================================
