\* Two slots, four jobs, two nested P programs, an interrupt.
CONSTANTS
    Job = {j1, j2, j3, j4}
    Pid = {p1, p2, p3}
    NoPid = NoPid
    NoJob = NoJob
    NPROC = 2
    MaxNotes = 1
    MaxDepth = 3
SYMMETRY Symmetry
SPECIFICATION Spec
CHECK_DEADLOCK FALSE
INVARIANTS
    TypeOK
    CountIsSlots
    SlotsAreChildren
    NeverOutOfSlots
    NeverStranded
    FirstComeFirstServed
    WorkConserving
PROPERTIES
    NothingStartsAfterKill
