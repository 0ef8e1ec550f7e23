CONSTANTS
    Procs = {p1, p2}
    MaxKeys = 3
SPECIFICATION Spec
INVARIANTS PairMatches 
PROPERTIES QuietVerdictIsExact
CHECK_DEADLOCK FALSE
