SPECIFICATION Spec
CONSTANTS
    LoopCap = 0
    FanoutCap = 0
    InboxCapacity = 0
    SpendLimit = 0
    ContextLimit = 0
    DepthCap = 1
    Plans <- TwoTools
    MaxCmd = 5
    MayFail = FALSE
    FirstWorld <- NewSession
    Reduce <- Reducer
    Outstanding <- OutstandingCmds
    Returns <- ChildReturns
    Answers <- AnswersTo
    Fingerprint <- RequestFor
    Driven <- IsDriven
    Rebuilt <- RebuiltCompacts
    Reply <- RepliesFrom
    HistoryLen <- PrimaryHistoryLen
    Inputs <- SessionInputs
    SnapshotInterval = 1
    MaxInput = 1
    MaxFault = 1
    Tears = FALSE
INVARIANTS RestoreIsFold
CHECK_DEADLOCK FALSE
