SPECIFICATION FairSpec
CONSTANTS
    Texts = {n1, n2}
    MaxCalls = 3
    MaxTodoNudges = 2
INVARIANTS
    TypeOK
    CallsAnswered
    StopBoundsWork
    StopIsReported
    NudgeKept
PROPERTY
    StopEndsTurn
CHECK_DEADLOCK FALSE
