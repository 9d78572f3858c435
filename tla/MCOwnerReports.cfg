CONSTANTS
    Job = {j1, j2, j3}
    MaxFailures = 2
SPECIFICATION ReportSpec
INVARIANTS
    SentIsTrue
PROPERTIES
    NeverReplayed
    ReportSettles
