\* Two callers contend for one refresh, two documents; a snapshot lives one
\* tick.  No symmetry: CallsReturn is about liveness.
CONSTANTS
  c1 = c1
  c2 = c2
  k1 = k1
  Callers <- TwoCallers
  NoCaller = NoCaller
  Kids <- OneKid
  NoKid = NoKid
  TTL = 1
  MaxTime = 2
  MaxDocs = 2
SPECIFICATION FairSpec
INVARIANTS
  TypeOK
  SnapshotOfOneDocument
  FreshWhenUsed
  WithdrawnIsForgotten
PROPERTIES
  RefreshesInOrder
  ImplementsKeySetCache
  CallsReturn
