------------------------------ MODULE MCCluster -----------------------------
(***************************************************************************)
(* Small clusters, whose clients ask for one graph "g".                    *)
(***************************************************************************)
EXTENDS Cluster, TLC

MCKeyOf == [x \in Graphs |-> "kg"]
MCArtifactOf == [x \in Graphs |-> "G"]
\* Ids that no two requests share.
OwnIds == [p \in Clients \X (1 .. MaxRequests) |-> 2 * p[2] - (IF p[1] = "c1" THEN 1 ELSE 0)]
\* out is not read by a later step.
StateView == <<authority, workers, catalog, waiting, conns, peers, origin>>
Symmetry == Permutations(Socks)
=============================================================================
