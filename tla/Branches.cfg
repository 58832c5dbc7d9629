SPECIFICATION Spec
CONSTANTS
    Ids <- Chain
    Grace = 1
    MaxMain = 3
    MaxFork = 2
    MaxNow = 1
    MaxMutate = 3
INVARIANTS LoadNeverLies
PROPERTIES RootsAreKept
CHECK_DEADLOCK FALSE
