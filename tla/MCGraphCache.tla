---------------------------- MODULE MCGraphCache ----------------------------
(***************************************************************************)
(* Small instances of GraphCache.  The requests, of one workload:          *)
(*   "a"                                                                   *)
(*   "ar"  with another binding, which a graph captured for the other      *)
(*         request can be rebound to, either way                           *)
(***************************************************************************)
EXTENDS GraphCacheRefinement, TLC

Key == [a |-> "ka", ar |-> "kar"]
Artifact == [a |-> "A", ar |-> "AR"]

MCKeyOf == [r \in Requests |-> Key[r]]
MCWorkloadOf == [r \in Requests |-> "w"]
MCArtifactOf == [r \in Requests |-> Artifact[r]]
MCDecide == [p \in Requests \X Requests |-> IF p[1] = p[2] THEN "Exact" ELSE "Rebinding"]
MCScopes == {Requests} \cup {{r} : r \in Requests}

Symmetry == Permutations(Threads) \cup Permutations(EntryIds) \cup Permutations(LeaseIds)
=============================================================================
