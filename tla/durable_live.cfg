SPECIFICATION DFairSpec
CONSTANTS
  Threads = {t1, t2}
  Requests = {"a"}
  KeyOf <- MCKeyOf
  WorkloadOf <- MCWorkloadOf
  ArtifactOf <- MCArtifactOf
  Decide <- MCDecide
  StaleFor = {}
  CaptureAllowed = {"a"}
  Scopes <- MCScopes
  Ops = {}
  HasStore = TRUE
  EntryIds = {e1, e2}
  LeaseIds = {l1, l2}
  MaxCacheGen = 4
  MaxPins = 2
  CounterMax = 9
  RecoveredAs <- MCRecoveredAs
  RecoverFirst = TRUE
  MaxCrashes = 1
  MaxInvalidations <- OneAfter
  NoEntry = NoEntry
  NoRequest = NoRequest
PROPERTIES StoreCallsReturn
