------------------------------- MODULE MCRaft -------------------------------
(* Instances of Raft for TLC. *)
EXTENDS Raft

\* The cluster of cluster_demo and raft_demo.
Nodes3 == 1..3
Peers3 == <<<<2, 3>>, <<1, 3>>, <<1, 2>>>>

=============================================================================
