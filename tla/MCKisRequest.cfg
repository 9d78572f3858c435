SPECIFICATION FairSpec
CONSTANTS
  c1 = c1
  c2 = c2
  c3 = c3
  c4 = c4
  price = price
  balance = balance
  Call <- MCCall
  Endpoint <- MCEndpoint
  EndpointOf <- MCEndpointOf
  RetrySafe = {c1, c4}
  PolicyAttempts = 2
  RateRetries = 1
  MaxInFlight = 2
  MaxWaiters = 1
  Threshold = 2
  OpenTime = 1
  Interval = 1
  MaxCooldown = 2
  Cancellable = {c4}
INVARIANTS
  PermitsConserved
  SendsBounded
PROPERTIES
  PacedStarts
  EveryCallEnds
  CircuitReopens
CHECK_DEADLOCK FALSE
