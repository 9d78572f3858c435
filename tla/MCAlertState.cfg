CONSTANTS
    Job = {j1, j2}
    Slot = {s1, s2, s3}
    Observation <- MCObservation
    Floor = 1
    MaxFailures = 1
SYMMETRY Symmetry
SPECIFICATION Spec
INVARIANTS
    OneHistory
    MarkedIsTerminal
