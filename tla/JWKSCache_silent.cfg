\* The same callers, and an endpoint that need not answer.
CONSTANTS
  c1 = c1
  c2 = c2
  k1 = k1
  Callers <- TwoCallers
  NoCaller = NoCaller
  Kids <- OneKid
  NoKid = NoKid
  TTL = 1
  MaxTime = 2
  MaxDocs = 1
SPECIFICATION SilentEndpointSpec
PROPERTIES
  CallsReturn
