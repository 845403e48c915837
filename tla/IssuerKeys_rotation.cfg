CONSTANTS
  k1 = k1
  k2 = k2
  s1 = s1
  s2 = s2
  Keys <- MCKeys
  Sources <- MCSources
  Reliable <- MCSources
  Unusable = Unusable
  NoKey = NoKey
  Documents <- MCOneDocuments
  RawEntries <- MCOneEach
  MaxAttempts = 2
  MaxRotations = 3
  MaxRestarts = 0
SPECIFICATION FairSpec
PROPERTIES
  RotationIsLearned
CHECK_DEADLOCK FALSE
