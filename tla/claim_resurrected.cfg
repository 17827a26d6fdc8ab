SPECIFICATION DSpec
CONSTANTS
  Threads = {t1}
  Requests = {"a"}
  KeyOf <- MCKeyOf
  WorkloadOf <- MCWorkloadOf
  ArtifactOf <- MCArtifactOf
  Decide <- MCDecide
  StaleFor = {}
  CaptureAllowed = {"a"}
  Scopes <- MCScopes
  Ops = {"invalidate"}
  HasStore = TRUE
  EntryIds = {e1, e2}
  LeaseIds = {l1}
  MaxCacheGen = 4
  MaxPins = 2
  CounterMax = 9
  RecoveredAs <- MCRecoveredAs
  RecoverFirst = TRUE
  MaxCrashes = 1
  MaxInvalidations <- OneBeforeOneAfter
  NoEntry = NoEntry
  NoRequest = NoRequest
SYMMETRY Symmetry
INVARIANTS InvalidatedStaysDead
