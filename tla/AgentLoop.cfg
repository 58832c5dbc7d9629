SPECIFICATION FairSpec
CONSTANTS
    TokenBudget = 3
    Prompts = {6}
    MaxMsg = 2
    MaxContext = 1
    MaxCalls = 2
    MaxTask = 2
    MaxFault = 1
INVARIANTS MessagesKeepOrder ReplyGoesToAsker CallsAreAnswered SuspendedForTasks
PROPERTIES MessagesAreHeard
CHECK_DEADLOCK FALSE
