CONSTANTS
  r1 = r1
  r2 = r2
  Issuers <- MCIssuers
  Keys <- MCKeys
  IssuerKeys <- MCIssuerKeys
  IssuerTrust <- MCIssuerTrust
  IdPTrust <- MCIdPTrust
  DefaultTTL = 60
  PCITTL = 12
  NoToken = NoToken
  Tokens <- SessionToken
  Bodies <- SessionBodies
  InitialLife <- ShortLife
  Requests <- TwoRequests
  ReadTimeout = 2
  WriteTimeout = 2
  LookupTimeout = 1
  ShutdownTimeout = 2
  NewConnGrace = 1
SPECIFICATION FairSpec
INVARIANTS
  TypeOK
  OverhangBounded
  PromptIsAnswered
  HandlerTimeBounded
  KeptRequestsFinish
PROPERTIES
  RequestsEnd
CHECK_DEADLOCK FALSE
