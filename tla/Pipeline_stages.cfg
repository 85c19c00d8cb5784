CONSTANTS
  n1 = n1
  n2 = n2
  n3 = n3
  t1 = t1
  j1 = j1
  j2 = j2
  Node = {n1}
  Task = {t1}
  Job = {j1, j2}
  NoJob = NoJob
  MaxAttempts <- MCMaxAttempts
  AsyncCommit = TRUE
  Faults = FALSE
SPECIFICATION FairSpec
PROPERTIES
  StagesEnd
  ReadyIsReduced
