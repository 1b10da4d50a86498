\* A source that two metarules need and that does not exist.
CONSTANTS
    Mkfiles <- MetaMkfiles
    FileSets <- MCFileSets
    Goals <- MCGoals
    Dotted <- MCDotted
    nreps = 1
SPECIFICATION Spec
CHECK_DEADLOCK FALSE
INVARIANTS
    AppliesOnlyIfDerivable
