SPECIFICATION Spec
CONSTANTS
    Calls = {c1, c2}
    Questions = {"q"}
    OutCap = 1
    MaxTask = 2
    MaxOps = 3
INVARIANTS TypeOK RouteIsNewest InteractionsAreKept OneWorker
PROPERTIES StoppedIsGone
CHECK_DEADLOCK FALSE
