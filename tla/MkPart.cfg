\* A recipe that writes all the targets of its rule, and a second call of mk().
CONSTANTS
    N = 5
    Graphs <- PartOfTargets
    Times = {2, 3, 4}
    MaxClock = 6
    WritesAll = TRUE
    MaxJobs = 6
    Pid = {p1, p2}
    NoPid = NoPid
    NPROC = 2
SYMMETRY Symmetry
SPECIFICATION Spec
CHECK_DEADLOCK FALSE
INVARIANTS
    UpToDate
