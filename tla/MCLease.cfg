SPECIFICATION Spec
CONSTANTS
  p1 = p1
  p2 = p2
  p3 = p3
  Proc <- MCProc
  OwnerOf <- MCOwnerOf
  Ttl = 3
  Skew = 1
  Backends = {"firestore", "memory"}
  MaxClock = 5
  MaxToken = 3
INVARIANTS
  Exclusive
  LiveIsRecorded
  RefusalIsBounded
PROPERTIES
  ImplementsPromise
CHECK_DEADLOCK FALSE
