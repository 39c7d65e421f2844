----------------------------- MODULE MCCluster -----------------------------
(***************************************************************************)
(* TLC instance of Cluster: nodes 1 and 2 have the same score.             *)
(***************************************************************************)
EXTENDS Cluster

TwoNodes == {1, 2}
TwoScores == [n \in TwoNodes |-> 10]
TwoIps == [n \in TwoNodes |-> n]
=============================================================================
