CONSTANTS
  c1 = c1
  c2 = c2
  t1 = t1
  Calls <- TwoCalls
  Tokens <- OneToken
  NoToken = NoToken
  MaxLife = 1
  MaxStale = 1
  RequestTimeout = 2
SPECIFICATION FairSpec
INVARIANTS
  TypeOK
  SuccessIsGrant
PROPERTIES
  ReceivedIsTimely
  CallsReturn
CHECK_DEADLOCK FALSE
