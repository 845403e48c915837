SPECIFICATION FairSpec
CONSTANTS
  r1 = r1
  NoToken = NoToken
  Requests <- OneRequest
  Asks <- MCAsks
  Configs <- MCConfigs
  Grants <- MCGrants
  Roles <- MCRoles
  Subjects <- MCSubjects
  Services <- MCServices
  KeyTypesTaken <- BothKeyTypes
  DefaultTTL = 4
  PCITTL = 3
  Second = 2
  MaxSkew = 1
  RequestTimeout = 2
CHECK_DEADLOCK FALSE
INVARIANTS
  TypeOK
  ServedHasGrounds
  ServedIsTimely
PROPERTIES
  QueriesEnd
  ImplementsAccessMonitor
