SPECIFICATION FairSpec
CONSTANTS
    Texts = {n1}
    MaxCalls = 1
    MaxTodoNudges = 1
INVARIANT
    NudgeReachesModel
CHECK_DEADLOCK FALSE
