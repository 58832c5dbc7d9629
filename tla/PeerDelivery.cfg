SPECIFICATION Spec
CONSTANTS
    Procs = {p1, p2}
    MaxEnv = 3
    Cap = 2
    FrameCap = 1
    Left = 1
    MaxOps = 2
    MaxFault = 2
INVARIANTS TypeOK  AcceptedIsKept
PROPERTIES RelaysEnd
CHECK_DEADLOCK FALSE
