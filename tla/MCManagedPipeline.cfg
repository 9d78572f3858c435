SPECIFICATION FairSpec
CONSTANTS
  j1 = j1
  j2 = j2
  j3 = j3
  Job <- ThreeJobs
  Calls = {1, 3}
  Budget = 2
  Bundles = {"partial", "complete"}
  FailAt <- Anywhere
  MaxFailures = 2
INVARIANTS
  StagesInOrder
  CallsAddUp
  PublishedIsComplete
PROPERTIES
  DoneStaysDone
  LandedRunResumes
