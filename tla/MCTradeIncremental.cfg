CONSTANTS
    RecentDays = 1
    ShardDays = 2
    MaxReplay = 3
    PageLimit = 2
    MaxCalls = 4
    Since = 3
    MaxDay = 6
    MaxJobs = 3
    MaxFailures = 1
SPECIFICATION Spec
INVARIANTS
    CoverageIsCollected
    CallsCounted
    ReachIsTaken
CHECK_DEADLOCK FALSE
