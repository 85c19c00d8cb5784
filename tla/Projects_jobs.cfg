CONSTANTS
  Update = {u1, u2}
  Job = {j1, j2}
  Task = {t1}
  Node = {n1}
  Creation = Creation
  Own = Own
  None = None
  FirstLogin <- MCFirstLogin
  Asks <- MCAsks
  Payloads <- MCPayloads
SPECIFICATION Spec
INVARIANTS
  ProjectsTypeOK
  UpdateStays
  MapRunsSnapshot
  PullsWithOwnLogin
  TaskImageSinceStart
SYMMETRY MCSymmetry
