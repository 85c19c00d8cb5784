CONSTANTS
  n1 = n1
  n2 = n2
  n3 = n3
  t1 = t1
  j1 = j1
  j2 = j2
  Node = {n1, n2, n3}
  Task = {t1}
  Job = {j1}
  NoJob = NoJob
  MaxAttempts <- MCTwoAttempts
  AsyncCommit = TRUE
  Faults = TRUE
SPECIFICATION Spec
INVARIANTS
  TypeOK
  OneReducer
  CompletedIsComplete
PROPERTIES
  KeepsJobContract
  FailedForCause
SYMMETRY MCNodeSymmetry
