--------------------------- MODULE MCDurableCache ---------------------------
(***************************************************************************)
(* Small instances of DurableCache; the requests are those of MCGraphCache.*)
(***************************************************************************)
EXTENDS DurableCache, MCGraphCache

MCRecoveredAs == [r \in Requests |-> r]
\* Invalidations before and after the crash.
OneBeforeOneAfter == [n \in 0 .. MaxCrashes |-> 1]
OneAfter == [n \in 0 .. MaxCrashes |-> IF n = 0 THEN 0 ELSE 1]
=============================================================================
