SPECIFICATION FairSpec
CONSTANTS
  p1 = p1
  p2 = p2
  c1 = c1
  c2 = c2
  c3 = c3
  Proc <- MCProc
  Call <- MCCall
  ProcOf <- Spread
  Warm = {c2}
  Files = {p1}
  UseLease = TRUE
  SlowHolders = FALSE
  DbFails = TRUE
  MaxPolls = 2
  MaxToken = 3
  MaxCrashes = 1
INVARIANTS
  OneRefreshAtATime
PROPERTIES
  RowNeverGoesBack
  ReturnsReusable
  AskedOnlyWhenNeeded
  EveryCallEnds
  
CHECK_DEADLOCK FALSE
