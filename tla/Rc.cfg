\* Sessions of one or two command lines, with notes and errors in some.
SPECIFICATION FairSpec
CONSTANTS
    Pids <- MCPids
    Codes <- MCCodes
    FnNames <- MCFnNames
    Progs <- Sessions
    Shape <- MCShape
CHECK_DEADLOCK FALSE
INVARIANTS
    NoPanic
    AwaitedIsChild
    PipelineFindsChild
    OneReader
    MeansWhatItSays
PROPERTIES
    Ends
