SPECIFICATION Spec
CONSTANTS
    MaxEdits = 2
    MaxAsks = 2
    MaxOps = 2
    Offsets = {0}
    MaxConn = 2
    MaxOther = 1
INVARIANTS OneFactPerWrite 
CHECK_DEADLOCK FALSE
