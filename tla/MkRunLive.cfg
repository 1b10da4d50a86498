\* $NPROC is 0: one slot.  Liveness under the fairness of FairSpec.
CONSTANTS
    Job = {j1, j2}
    Pid = {p1, p2}
    NoPid = NoPid
    NoJob = NoJob
    NPROC = 0
    MaxNotes = 0
    MaxDepth = 2
SPECIFICATION FairSpec
CHECK_DEADLOCK FALSE
PROPERTIES
    EveryJobEnds
    EveryWaitReturns
