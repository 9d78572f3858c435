CONSTANTS
    CoreJobs <- MCCore
    TradeJobs <- MCTrade
    OldJobs <- MCOld
    FlowNames <- MCFlows
    MaxReleases = 2
SPECIFICATION ReleaseSpec
INVARIANTS
    
    NothingBeforeItsSchema
    OneSchedulePerScope
CHECK_DEADLOCK FALSE
