CONSTANTS
  n1 = n1
  n2 = n2
  t1 = t1
  w1 = w1
  w2 = w2
  Node = {n1, n2}
  Task = {t1}
  NoNode = NoNode
  NoTask = NoTask
  MaxAttempts <- MCMaxAttempts
  Priority <- MCPriority
  Prompt = {}
  LoadCap = 1
  AsyncCommit = TRUE
  Faults = TRUE
  Worker = {w1, w2}
  Hardware <- MCHardware
SPECIFICATION WorkerSpec
INVARIANTS
  WorkerTypeOK
  CountsFromAssignee
  LowerLoadFirst
SYMMETRY MCSymmetry
