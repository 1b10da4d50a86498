\* A rule with two targets, one of which has a prerequisite of its own.
CONSTANTS
    N = 5
    Graphs <- SiblingPrereq
    Times = {2, 3}
    MaxClock = 6
    WritesAll = FALSE
    MaxJobs = 6
    Pid = {p1, p2}
    NoPid = NoPid
    NPROC = 2
SYMMETRY Symmetry
SPECIFICATION Spec
CHECK_DEADLOCK FALSE
INVARIANTS
    PrereqsMade
