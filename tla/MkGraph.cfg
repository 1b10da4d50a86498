\* All mkfiles with up to three of the rules of MCMkGraph.
CONSTANTS
    Mkfiles <- MCMkfiles
    FileSets <- MCFileSets
    Goals <- MCGoals
    Dotted <- MCDotted
    nreps = 1
SPECIFICATION Spec
CHECK_DEADLOCK FALSE
INVARIANTS
    CycleFound
    RegularRulesKept
    OneRecipe
    PrunesOnlyVacuous
    FlagsOfKeptRules
