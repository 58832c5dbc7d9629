SPECIFICATION FairSpec
CONSTANTS
    LoopCap = 0
    FanoutCap = 0
    InboxCapacity = 0
    SpendLimit = 0
    ContextLimit = 0
    DepthCap = 1
    Plans <- OneSlot
    MaxCmd = 4
    MayFail = TRUE
    FirstWorld <- NewSession
    Reduce <- Reducer
    Outstanding <- OutstandingCmds
    Returns <- ChildReturns
    Answers <- AnswersTo
    Fingerprint <- RequestFor
    Driven <- IsDriven
    Rebuilt <- RebuiltCompacts
    Reply <- RepliesFrom
    HistoryLen <- PrimaryHistoryLen
    Inputs <- SessionInputs
    SnapshotInterval = 2
    MaxInput = 2
    MaxFault = 2
    Tears = TRUE
INVARIANTS TypeOK WorldIsFoldOfLog EffectsAreOnce EffectsAreAccountedFor ReplayIsFold
PROPERTIES ComesBack
CHECK_DEADLOCK FALSE
