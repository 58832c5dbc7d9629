SPECIFICATION FairSpec
CONSTANTS
    LoopCap = 2
    FanoutCap = 0
    InboxCapacity = 1
    SpendLimit = 3
    ContextLimit = 2
    DepthCap = 1
    Plans <- ToolPlans
    Stops = {"Refusal", "MaxTokens"}
    Usages = {1,2}
    Controls = {"Cancel", "Pause", "Resume", "ClearPolicyHalt", "SetAutonomy"}
    Envelopes = {}
    Ask = TRUE
    MaxCmd = 6
    MaxMsg = 3
    MaxControl = 3
INVARIANTS TypeOK WaitsMatchOwed HeldIsRaised
PROPERTIES ClosedGateStartsNoWork ApprovedBeforeRun CancelSettles
CHECK_DEADLOCK FALSE
