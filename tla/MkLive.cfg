\* Termination.
CONSTANTS
    N = 4
    Graphs <- AllGraphs
    Times = {2}
    MaxClock = 6
    WritesAll = FALSE
    MaxJobs = 6
    Pid = {p1, p2}
    NoPid = NoPid
    NPROC = 2
SPECIFICATION FairSpec
CHECK_DEADLOCK FALSE
PROPERTIES
    Terminates
