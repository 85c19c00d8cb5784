CONSTANTS
  n1 = n1
  n2 = n2
  t1 = t1
  t2 = t2
  Node = {n1, n2}
  Task = {t2}
  NoNode = NoNode
  NoTask = NoTask
  MaxAttempts <- MCMaxAttempts
  Priority <- MCPriority
  Prompt = {}
  LoadCap = 2
  AsyncCommit = TRUE
  Faults = TRUE
SPECIFICATION Spec
INVARIANTS
  TypeOK
  LoadCoversWork
  AttemptsInv
  SucceededHasResult
PROPERTIES
  KeepsContract
