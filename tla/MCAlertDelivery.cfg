SPECIFICATION Spec
CONSTANTS
  r1 = r1
  r2 = r2
  r3 = r3
  k1 = k1
  Run <- ThreeRuns
  Candidate <- OneCandidate
  Lease = 2
  SlowRuns = FALSE
  MaxTime = 5
SYMMETRY Alike
INVARIANTS
  AtMostOnce
  LedgersAgree
  StaleClaimsSettled
PROPERTY
  TerminalIsFinal
CHECK_DEADLOCK FALSE
