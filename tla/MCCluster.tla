------------------------------ MODULE MCCluster ------------------------------
(* Instances of Cluster for TLC. *)
EXTENDS Cluster

\* The cluster of cluster_demo.
Nodes3 == 1..3
Peers3 == <<<<2, 3>>, <<1, 3>>, <<1, 2>>>>

Clients == {"writer", "operator"}
WriterAndOperator == [writer |-> "PUT", operator |-> "KILL"]

==============================================================================
