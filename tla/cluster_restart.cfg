SPECIFICATION ClSpec
CONSTANTS
  Socks = {s1, s2, s3}
  WorkerIds = {1}
  Boots = {1, 2}
  RequestIds = {1, 2, 3, 4, 5, 6}
  Graphs = {"g"}
  KeyOf <- MCKeyOf
  ArtifactOf <- MCArtifactOf
  None = None
  Messages = {}
  MaxGen = 2
  MaxAttempts = 6
  Clients = {"c1", "c2"}
  RequestId <- OwnIds
  MaxRequests = 2
  MaxDeaths = 1
  ClientOps = {"replay", "invalidate", "leave"}
SYMMETRY Symmetry
VIEW StateView
CHECK_DEADLOCK FALSE
INVARIANTS ConnectedWorkerReachable 
PROPERTIES PublishIsCurrent
