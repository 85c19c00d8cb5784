CONSTANTS
  a = a
  b = b
  Server = Server
  Caller = {a, b}
  Capacity = 1
  Input <- MCSmallInput
  Size <- MCSize
  Eager = {a, b}
  Hanging = {a, b}
SPECIFICATION FairSpec
INVARIANTS
  TypeOK
  WholeOutput
  NothingLeft
PROPERTIES
  WaitEnds
