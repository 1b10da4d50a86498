\* A buffer of two bytes, and two more that can be given back, on files of up to five.
CONSTANTS
    bsize = 2
    Bungetsize = 2
    Byte = {0, 1, 2, 3, 4, 9}
    Junk = Junk
    Data = {0, 1}
    Newline = 9
    MaxPos = 5
    MaxCount = 3
    Files <- MCFiles
SPECIFICATION Spec
CHECK_DEADLOCK FALSE
INVARIANTS
    TypeOK
    GoodData
    LinesAreWhole
    FlushedMeansWritten
    NothingLost
PROPERTIES
    ReadsTheFile
