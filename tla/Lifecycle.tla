----------------------------- MODULE Lifecycle -----------------------------
(***************************************************************************)
(* The lifecycle table of a cached graph (lifecycle.cpp) and the           *)
(* replay-eligibility predicate the engine consults before every lease.    *)
(* The engine assigns lifecycle states without consulting the table, so    *)
(* that its steps respect the table is a property, not a guard.            *)
(***************************************************************************)

\* lifecycle.cpp kTransitions, grouped by the state a transition leaves.
Allowed ==
  [Discovered          |-> {"Capturing", "Invalidated", "Corrupt", "Failed", "Terminal"},
   Capturing           |-> {"Captured", "Failed", "Invalidated", "Terminal"},
   Captured            |-> {"Validating", "Failed", "Invalidated", "Terminal"},
   Validating          |-> {"Valid", "Failed", "Invalidated", "Corrupt", "Terminal"},
   Valid               |-> {"Persisting", "Loading", "Leasing", "ResidentHost",
                            "ResidentBackend", "InvalidationPending",
                            "EvictionPending", "Retired", "Terminal"},
   Persisting          |-> {"Persisted", "Failed", "Terminal"},
   Persisted           |-> {"Loading", "Leasing", "ResidentHost", "ResidentBackend",
                            "EvictionPending", "Retired", "Terminal"},
   Loading             |-> {"ResidentHost", "ResidentBackend", "Failed",
                            "Invalidated", "Terminal"},
   ResidentHost        |-> {"ResidentBackend", "Persisted", "Leasing",
                            "EvictionPending", "Retired", "Terminal"},
   ResidentBackend     |-> {"ResidentHost", "Persisted", "Leasing", "Replaying",
                            "EvictionPending", "InvalidationPending", "Retired",
                            "Terminal"},
   Leasing             |-> {"ResidentBackend", "Replaying", "ResidentHost",
                            "InvalidationPending", "EvictionPending", "Retired",
                            "Terminal"},
   Replaying           |-> {"ResidentBackend", "Leasing", "Terminal"},
   InvalidationPending |-> {"Invalidated", "EvictionPending", "Terminal"},
   EvictionPending     |-> {"EvictedBackend", "EvictedHost", "Terminal"},
   EvictedBackend |-> {}, EvictedHost |-> {}, Invalidated |-> {}, Corrupt |-> {},
   Failed |-> {}, Retired |-> {}, Terminal |-> {}]

GraphLifecycle == DOMAIN Allowed

\* lifecycle_is_replay_eligible
ReplayEligible(s) ==
  s \in {"Valid", "Persisted", "ResidentHost", "ResidentBackend", "Leasing"}
=============================================================================
