SPECIFICATION CSpec
CONSTANTS
  Socks = {s1, s2}
  WorkerIds = {1}
  Boots = {1, 2}
  RequestIds = {1}
  Graphs = {"g", "i"}
  KeyOf <- MCKeyOf
  ArtifactOf <- MCArtifactOf
  None = None
  Messages <- MCMessages
  MaxGen = 2
  MaxAttempts = 2
SYMMETRY Symmetry
VIEW StateView
CHECK_DEADLOCK FALSE
INVARIANTS LiveIsCurrent GenerationNamesOneCapture
 
