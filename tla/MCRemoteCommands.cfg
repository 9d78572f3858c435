SPECIFICATION Spec
CONSTANTS
  q1 = q1  q2 = q2  q3 = q3
  k1 = k1  k2 = k2  k3 = k3  k4 = k4  k5 = k5
  title = title  lot = lot  intent = intent
  entry = entry
  Request <- ThreeRequests
  Key <- MCKey
  ToolOf <- MCToolOf
  Body = {title, lot, intent, entry}
  BodyOf <- MCBodyOf
  KindOf <- MCKindOf
  Created = 0
  MaxRevision = 1
  MaxFailures = 1
SYMMETRY Alike
INVARIANTS
  OneAtATime
  JournalIsChain
  AnsweredAsAsked
  ThreadFollowsLedger
  ThreadKeyOnce
CHECK_DEADLOCK FALSE
