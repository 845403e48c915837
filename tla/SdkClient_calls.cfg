SPECIFICATION Spec
CONSTANTS
  c1 = c1
  c2 = c2
  c3 = c3
  old = old
  new = new
  empty = empty
  NoClient = NoClient
  Calls <- ThreeCalls
  Configs <- MCConfigs
  Unnamed <- MCUnnamed
CHECK_DEADLOCK FALSE
INVARIANTS
  TypeOK
PROPERTIES
  AloneTakesEffect
