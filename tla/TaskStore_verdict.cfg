CONSTANTS
  n1 = n1
  n2 = n2
  t1 = t1
  t2 = t2
  Node = {n1}
  Task = {t2}
  NoNode = NoNode
  NoTask = NoTask
  MaxAttempts <- MCMaxAttempts
  Priority <- MCPriority
  Prompt = {n1}
  LoadCap = 2
  AsyncCommit = TRUE
  Faults = FALSE
SPECIFICATION FairSpec
PROPERTIES
  EveryTaskGetsVerdict
