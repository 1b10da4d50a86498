\* Every graph of four nodes, and some with the other features of a mkfile,
\* some of them with mk -a, mk -n and mk -t too.
CONSTANTS
    N = 4
    Graphs <- ManyGraphs
    Times = {2, 3}
    MaxClock = 6
    WritesAll = FALSE
    MaxJobs = 6
    Pid = {p1, p2}
    NoPid = NoPid
    NPROC = 2
SYMMETRY Symmetry
SPECIFICATION Spec
CHECK_DEADLOCK FALSE
INVARIANTS
    TypeOK
    PrereqsMade
    NoTwoWriters
    UpToDate
    MakesWhatIsNeeded
    MadeFilesExist
    AssertsHold
    NothingLeftBehind
    KeepsGoing
    TouchedInOrder
    StartsAllItCan
PROPERTIES
    MadeIsFinal
