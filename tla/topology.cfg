SPECIFICATION BackendsSpec
CONSTANTS
  NodeLists <- MCNodeLists
  Edges <- MCEdges
  Top = 4
  MaxEdges = 4
  Inputs = 1
  Outputs = 1
  Callers = {1, 2}
  CudaLists <- MCCudaLists
  MaxCaptures = 2
  MaxReplays = 2
INVARIANTS TTypeOK VerdictCorrect OrderRespectsEdges OrderIsLeast DependentWriteWins CudaReplayIsOwn
CHECK_DEADLOCK FALSE
