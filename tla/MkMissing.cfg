\* mk -k with two targets; their prerequisite cannot be made.
CONSTANTS
    N = 3
    Graphs <- NoPrereqs
    Times = {2, 3}
    MaxClock = 6
    WritesAll = FALSE
    MaxJobs = 6
    Pid = {p1, p2}
    NoPid = NoPid
    NPROC = 2
SYMMETRY Symmetry
SPECIFICATION Spec
CHECK_DEADLOCK FALSE
INVARIANTS
    MadeFilesExist
