CONSTANTS
  n1 = n1
  n2 = n2
  t1 = t1
  j1 = j1
  Node = {n1, n2}
  Task = {t1}
  Job = {j1}
  NoNode = NoNode
  NoTask = NoTask
  NoJob = NoJob
  MaxAttempts <- MCMaxAttempts
  Priority <- MCPriority
  Prompt = {n1, n2}
  LoadCap = 1
  AsyncCommit = FALSE
  Faults = FALSE
SPECIFICATION CoordSpec
INVARIANTS
  OnePart
