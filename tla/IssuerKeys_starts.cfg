CONSTANTS
  k1 = k1
  k2 = k2
  s1 = s1
  s2 = s2
  Keys <- MCKeys
  Sources <- MCSources
  Reliable <- OneReliable
  Unusable = Unusable
  NoKey = NoKey
  Documents <- MCDocuments
  RawEntries <- MCRawEntries
  MaxAttempts = 3
  MaxRotations = 2
  MaxRestarts = 2
SPECIFICATION FairSpec
INVARIANTS
  TypeOK
  ServedIsListed
  StartIsBounded
CHECK_DEADLOCK FALSE
PROPERTIES
  KeyIsItsIssuers
  StartEnds
  RestartLearns
