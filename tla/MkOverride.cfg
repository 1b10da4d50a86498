\* A rule overrides a metarule for one of its targets.
CONSTANTS
    N = 5
    Graphs <- Override
    Times = {2, 3}
    MaxClock = 6
    WritesAll = FALSE
    MaxJobs = 6
    Pid = {p1, p2}
    NoPid = NoPid
    NPROC = 2
SYMMETRY Symmetry
SPECIFICATION Spec
CHECK_DEADLOCK FALSE
INVARIANTS
    AssertsHold
