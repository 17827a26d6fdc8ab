SPECIFICATION Spec
CONSTANTS
  Threads = {t1, t2}
  Requests = {"a"}
  KeyOf <- MCKeyOf
  WorkloadOf <- MCWorkloadOf
  ArtifactOf <- MCArtifactOf
  Decide <- MCDecide
  StaleFor = {}
  CaptureAllowed = {"a"}
  Scopes <- MCScopes
  Ops = {"replay", "pin", "evict", "invalidate"}
  HasStore = FALSE
  EntryIds = {e1, e2}
  LeaseIds = {l1, l2}
  MaxCacheGen = 2
  MaxPins = 1
  CounterMax = 3
  NoEntry = NoEntry
  NoRequest = NoRequest
SYMMETRY Symmetry
INVARIANTS TypeOK SingleFlight NoAbandonedWaiter CaptureYieldsCandidate LeaseAccounting CurrentUnique 
PROPERTIES ImplementsContract
