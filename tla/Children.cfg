SPECIFICATION FairSpec
CONSTANTS
    LoopCap = 0
    FanoutCap = 2
    InboxCapacity = 0
    SpendLimit = 0
    ContextLimit = 0
    DepthCap = 2
    Plans <- TeamPlans
    Stops = {"EndTurn"}
    Usages = {0}
    Controls = {}
    Envelopes = {1}
    Ask = FALSE
    MaxCmd = 7
    MaxMsg = 2
    MaxControl = 1
INVARIANTS IdsAreMinted WorkingChildIsAwaited ToolResultsFollow MessagesKeepOrder
PROPERTIES TurnSettles
CHECK_DEADLOCK FALSE
