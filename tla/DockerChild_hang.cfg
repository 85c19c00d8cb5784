CONSTANTS
  a = a
  b = b
  Server = Server
  Caller = {a}
  Capacity = 1
  Input <- MCInput
  Size <- MCSize
  Eager = {}
  Hanging = {a}
SPECIFICATION FairSpec
PROPERTIES
  CallReturns
