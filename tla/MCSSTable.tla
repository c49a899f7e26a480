------------------------------ MODULE MCSSTable ------------------------------
(* TLC model of SSTable.                                                   *)
EXTENDS SSTable

\* Two hash functions that collide on some keys.
MCHashes == {[k \in Keys |-> k], [k \in Keys |-> 3 * k + 1]}

\* A value that reading back changes.
MCValues == {<<" ", "c">>}

==============================================================================
