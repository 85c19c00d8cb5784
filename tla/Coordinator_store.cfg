CONSTANTS
  n1 = n1
  n2 = n2
  t1 = t1
  j1 = j1
  Node = {n1}
  Task = {t1}
  Job = {j1}
  NoNode = NoNode
  NoTask = NoTask
  NoJob = NoJob
  MaxAttempts <- MCMaxAttempts
  Priority <- MCPriority
  Prompt = {}
  LoadCap = 1
  AsyncCommit = TRUE
  Faults = TRUE
SPECIFICATION CoordSpec
PROPERTIES
  KeepsPipeline
