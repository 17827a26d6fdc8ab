------------------------ MODULE GraphCacheRefinement ------------------------
(***************************************************************************)
(* The engine of GraphCache as an implementation of ReplayContract.  An    *)
(* executable is published when it enters the registry, revoked when its   *)
(* invalidated flag is set, examined by a lookup from the moment           *)
(* search_candidates chose it, and granted by the second test of           *)
(* invalidated: that test, not the later make_lease, is the instant at     *)
(* which a hit takes effect.                                               *)
(***************************************************************************)
EXTENDS GraphCache

Publication(e) ==
  [entry |-> e, key |-> KeyOf[entry[e].req], generation |-> entry[e].generation]
EntryAt(labels) == [t \in Threads |-> IF th[t].pc \in labels THEN th[t].ent ELSE NoEntry]

Published == {Publication(e) : e \in Registered}
Revoked == {e \in DOMAIN entry : entry[e].invalidated}
Examining == EntryAt({"materialize", "recheck"})
Granted == EntryAt({"lease"})
Held == [l \in DOMAIN lease |-> lease[l].entry]

Contract == INSTANCE ReplayContract WITH
  Callers <- Threads, None <- NoEntry,
  published <- Published, authority <- key_current_gen, revoked <- Revoked,
  examining <- Examining, granted <- Granted, held <- Held

\* GraphCache::lookup, capture_graph, invalidate and GraphLease::release implement the
\* contract of a replay authority: every lease stems from an executable that was current
\* when the lookup chose it and not invalidated when the lookup settled on it, whatever
\* captures, invalidations and releases ran in between.
ImplementsContract == Contract!ContractSpec
=============================================================================
