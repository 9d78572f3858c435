SPECIFICATION FairSpec
CONSTANTS
  j1 = j1
  j2 = j2
  j3 = j3
  Job <- TwoJobs
  Calls = {1}
  Budget = 2
  Bundles = {"complete"}
  FailAt <- InNormalize
  MaxFailures = 1
PROPERTY
  LandedRunCompletes
